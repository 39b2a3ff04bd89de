--------------------------- MODULE CallAnswerProofs ---------------------------
(***************************************************************************)
(* A call is told what its own commands answered, for any number of calls, *)
(* lost connections and writes of other clients: incr counts once, a       *)
(* script runs again only when EVALSHA was rejected, and the commands of   *)
(* a transaction get their own replies.  The argument: every reply under   *)
(* way and every promise settled tells what the server has run of that     *)
(* very command; the server runs commands in the order in which they were  *)
(* issued, and what it has run it does not run again.                      *)
(***************************************************************************)
EXTENDS CallProofs

\* The n-th command of a call that is no multi.
OpAt(kind, n) ==
  IF kind = "incr" THEN IF n = 1 THEN "incr" ELSE "get"
  ELSE IF n = 1 THEN "evalsha" ELSE "eval"

\* Of what was run, rs: command n of call k is in it, and has answered v.
HasRun(rs, k, n) == \E e \in DOMAIN rs : rs[e].call = k /\ rs[e].id = n

RanTo(rs, k, n, v) == \E e \in DOMAIN rs : rs[e].call = k /\ rs[e].id = n /\ rs[e].val = v

\* c is a command one of the calls cs has sent.
IsSent(cs, c) ==
  /\ c.call \in DOMAIN cs
  /\ \E i \in DOMAIN cs[c.call].ids :
       /\ cs[c.call].ids[i] = c.id
       /\ cs[c.call].kind # "multi" => c.op = OpAt(cs[c.call].kind, i)

\* vals are the answers of the commands queued between MULTI and EXEC.
TellsAll(cs, rs, k, vals) ==
  vals = <<>> \/ /\ Len(vals) = Len(cs[k].ids) - 2
                 /\ \A i \in DOMAIN vals : RanTo(rs, k, cs[k].ids[i + 1], vals[i])

\* What command n of call k is told when it is not refused.
Tells(cs, rs, k, n, vals) ==
  IF cs[k].kind = "multi" THEN TellsAll(cs, rs, k, vals)
  ELSE \E v \in Nat : vals = <<v>> /\ RanTo(rs, k, n, v)

\* An error tells nothing: the script may have run, or not.
Replied(cs, rs, c, r) == r.type # "error" => Tells(cs, rs, c.call, c.id, r.vals)

Settles(cs, rs, how, vals, k, n) == how = "resolved" => Tells(cs, rs, k, n, vals)

------------------------------------------------------------------------------
(* The invariant                                                           *)

\* A number is given to one command, later ones get greater numbers.
NumberInv ==
  /\ \A k, l \in DOMAIN calls : \A i \in DOMAIN calls[k].ids, j \in DOMAIN calls[l].ids :
       calls[k].ids[i] = calls[l].ids[j] => k = l
  /\ \A k \in DOMAIN calls : \A i, j \in DOMAIN calls[k].ids :
       i < j => calls[k].ids[i] < calls[k].ids[j]

\* The pipe holds commands sent, in order, each of them still pending.
PipeInv ==
  /\ \A i \in DOMAIN sent : IsSent(calls, sent[i]) /\ promise[sent[i].id] = "pending"
  /\ \A i \in DOMAIN waiting : IsSent(calls, waiting[i]) /\ promise[waiting[i].id] = "pending"
  /\ \A i, j \in DOMAIN sent : i < j => sent[i].id < sent[j].id
  /\ \A i, j \in DOMAIN waiting : i < j => waiting[i].id < waiting[j].id
  /\ \A i \in DOMAIN sent, j \in DOMAIN waiting : sent[i].id < waiting[j].id

\* The server runs commands in the order in which they were issued, and counts up.
RunInv ==
  /\ \A i \in DOMAIN ran : IsSent(calls, ran[i]) /\ ran[i].val <= counter
  /\ \A i, j \in DOMAIN ran : i < j => ran[i].id < ran[j].id /\ ran[i].val <= ran[j].val
  /\ \A i \in DOMAIN ran, j \in DOMAIN sent : j > Len(replies) => ran[i].id < sent[j].id
  /\ \A i \in DOMAIN ran, j \in DOMAIN waiting : ran[i].id < waiting[j].id

\* What is under way and what has arrived tells what was run.
AnswerInv ==
  /\ \A i \in DOMAIN replies : Replied(calls, ran, sent[i], replies[i])
  /\ \A k \in DOMAIN calls : \A i \in DOMAIN calls[k].ids :
       LET n == calls[k].ids[i] IN Settles(calls, ran, promise[n], value[n], k, n)

\* The second command of a call is sent, or about to be.
Goes(k) == Sent(k) = 2 \/ (InTurn(k) /\ Sent(k) = 1)

\* incr reads when it has counted, eval sends the script when the digest was rejected.
StepOf(k) ==
  /\ Sent(k) <= 2
  /\ InTurn(k) => /\ Len(turn) = 1 /\ Sent(k) < 2 /\ calls[k].state = "pending"
                  /\ turn[1].op = OpAt(calls[k].kind, Sent(k) + 1)
  /\ calls[k].kind = "incr" /\ Goes(k) => HasRun(ran, k, calls[k].ids[1])
  /\ calls[k].kind = "eval" /\ Goes(k) => P(k, 1) = "rejected"

StepInv == \A k \in DOMAIN calls : ~IsMulti(k) => StepOf(k)

\* What a call is told is what its last command was told.
ToldOf(k) ==
  IF IsMulti(k) THEN /\ calls[k].given = Given(calls[k].vals)
                     /\ TellsAll(calls, ran, k, calls[k].vals)
  ELSE /\ calls[k].given = {}
       /\ calls[k].state = "resolved" =>
            /\ Sent(k) = 2 \/ (Sent(k) = 1 /\ calls[k].kind = "eval")
            /\ Tells(calls, ran, k, calls[k].ids[Sent(k)], calls[k].vals)

ToldInv == \A k \in DOMAIN calls : ToldOf(k)

Known == NumberInv /\ PipeInv /\ RunInv /\ AnswerInv /\ cached \in BOOLEAN

AnswersInv == WholeInv /\ Known /\ StepInv /\ ToldInv

------------------------------------------------------------------------------
(* What stays true when more is run                                        *)

Grows(rs, rs2) == \A e \in DOMAIN rs : e \in DOMAIN rs2 /\ rs2[e] = rs[e]

\* What was run stays run.
LEMMA RanStays ==
  ASSUME NEW rs, NEW rs2, Grows(rs, rs2), NEW k, NEW n
  PROVE  /\ HasRun(rs, k, n) => HasRun(rs2, k, n)
         /\ \A v : RanTo(rs, k, n, v) => RanTo(rs2, k, n, v)
BY DEF Grows, HasRun, RanTo

\* A command stays sent while its call has at least the same commands.
LEMMA SentStays ==
  ASSUME NEW cs, NEW cs2, NEW c, IsSent(cs, c),
         c.call \in DOMAIN cs2, cs2[c.call].kind = cs[c.call].kind,
         \A i \in DOMAIN cs[c.call].ids :
           i \in DOMAIN cs2[c.call].ids /\ cs2[c.call].ids[i] = cs[c.call].ids[i]
  PROVE  IsSent(cs2, c)
BY DEF IsSent

\* What a command is told stays true; of a multi, when nothing more is sent.
LEMMA TellsStays ==
  ASSUME NEW cs, NEW cs2, NEW rs, NEW rs2, NEW k, NEW n, NEW vals, Grows(rs, rs2),
         cs2[k].kind = cs[k].kind,
         cs2[k].ids = cs[k].ids \/ vals = <<>> \/ cs[k].kind # "multi",
         Tells(cs, rs, k, n, vals)
  PROVE  Tells(cs2, rs2, k, n, vals)
<1>1. CASE cs[k].kind = "multi"
  <2>1. CASE vals = <<>>
    BY <1>1, <2>1 DEF Tells, TellsAll
  <2>2. CASE vals # <<>>
    <3>1. /\ cs2[k].ids = cs[k].ids /\ Len(vals) = Len(cs[k].ids) - 2
          /\ \A i \in DOMAIN vals : RanTo(rs, k, cs[k].ids[i + 1], vals[i])
      BY <1>1, <2>2 DEF Tells, TellsAll
    <3>2. \A i \in DOMAIN vals : RanTo(rs2, k, cs[k].ids[i + 1], vals[i])
      BY <3>1, RanStays
    <3> QED BY <1>1, <3>1, <3>2 DEF Tells, TellsAll
  <2> QED BY <2>1, <2>2
<1>2. CASE cs[k].kind # "multi"
  <2>1. PICK v \in Nat : vals = <<v>> /\ RanTo(rs, k, n, v)
    BY <1>2 DEF Tells
  <2>2. RanTo(rs2, k, n, v)
    BY <2>1, RanStays
  <2> QED BY <1>2, <2>1, <2>2 DEF Tells
<1> QED BY <1>1, <1>2

\* What a promise tells stays true.
LEMMA SettlesStays ==
  ASSUME NEW cs, NEW cs2, NEW rs, NEW rs2, NEW k, NEW n, NEW how, NEW vals,
         Grows(rs, rs2),
         cs2[k].kind = cs[k].kind,
         cs2[k].ids = cs[k].ids \/ vals = <<>> \/ cs[k].kind # "multi",
         Settles(cs, rs, how, vals, k, n)
  PROVE  Settles(cs2, rs2, how, vals, k, n)
<1>1. how = "resolved" => Tells(cs2, rs2, k, n, vals)
  BY TellsStays DEF Settles
<1> QED BY <1>1 DEF Settles

\* What is known of the shape of things.
LEMMA Shapes ==
  ASSUME WholeInv
  PROVE  /\ \A k \in DOMAIN calls :
              /\ k \in Nat /\ calls[k] \in CallRecord /\ calls[k].kind \in {"multi", "incr", "eval"}
              /\ calls[k].ids \in Seq(Nat) /\ DOMAIN calls[k].ids = 1..Sent(k) /\ Sent(k) \in Nat
              /\ calls[k].vals \in Seq(Nat)
              /\ \A i \in 1..Sent(k) : calls[k].ids[i] \in 1..Len(promise)
         /\ Len(promise) \in Nat /\ DOMAIN promise = 1..Len(promise)
         /\ DOMAIN sent = 1..Len(sent) /\ Len(sent) \in Nat /\ \A i \in DOMAIN sent : sent[i].id \in Nat
         /\ DOMAIN waiting = 1..Len(waiting) /\ Len(waiting) \in Nat
         /\ \A i \in DOMAIN waiting : waiting[i].id \in Nat
         /\ DOMAIN ran = 1..Len(ran) /\ Len(ran) \in Nat
         /\ \A i \in DOMAIN ran : ran[i].id \in Nat /\ ran[i].val \in Nat
         /\ DOMAIN replies = 1..Len(replies) /\ Len(replies) \in Nat /\ Len(replies) <= Len(sent)
         /\ DOMAIN value = 1..Len(promise) /\ counter \in Nat
<1>1. /\ calls \in Seq(CallRecord) /\ promise \in Seq(Status) /\ sent \in Seq(Command)
      /\ waiting \in Seq(Command) /\ ran \in Seq(Entry) /\ replies \in Seq(ReplyRecord)
      /\ value \in Seq(Seq(Nat)) /\ Len(value) = Len(promise) /\ counter \in Nat
      /\ Len(replies) <= Len(sent)
  BY DEF WholeInv, Types, DownInv
<1>2. ASSUME NEW k \in DOMAIN calls
      PROVE  /\ k \in Nat /\ calls[k] \in CallRecord /\ calls[k].kind \in {"multi", "incr", "eval"}
             /\ calls[k].ids \in Seq(Nat) /\ DOMAIN calls[k].ids = 1..Sent(k) /\ Sent(k) \in Nat
             /\ calls[k].vals \in Seq(Nat)
             /\ \A i \in 1..Sent(k) : calls[k].ids[i] \in 1..Len(promise)
  <2>1. k \in Nat /\ calls[k] \in CallRecord
    BY <1>1
  <2>2. /\ calls[k].kind \in {"multi", "incr", "eval"} /\ calls[k].ids \in Seq(Nat)
        /\ calls[k].vals \in Seq(Nat)
    BY <2>1 DEF CallRecord
  <2>3. DOMAIN calls[k].ids = 1..Sent(k) /\ Sent(k) \in Nat
    BY <2>2 DEF Sent
  <2> QED BY <2>1, <2>2, <2>3 DEF WholeInv, CallInv
<1>3. /\ \A i \in DOMAIN sent : sent[i] \in Command
      /\ \A i \in DOMAIN waiting : waiting[i] \in Command
      /\ \A i \in DOMAIN ran : ran[i] \in Entry
  BY <1>1
<1>4. /\ \A i \in DOMAIN sent : sent[i].id \in Nat
      /\ \A i \in DOMAIN waiting : waiting[i].id \in Nat
      /\ \A i \in DOMAIN ran : ran[i].id \in Nat /\ ran[i].val \in Nat
  BY <1>3 DEF Command, Entry
<1> QED BY <1>1, <1>2, <1>4

\* Nothing is sent, run or answered: what is known stays known.
LEMMA SameAnswers ==
  ASSUME WholeInv, Known, CallsKept, WholeInv',
         UNCHANGED <<sent, waiting, promise, value, replies, ran>>,
         \A k \in DOMAIN calls' : k \notin DOMAIN calls => calls'[k].ids = <<>>,
         counter' >= counter, cached' \in BOOLEAN
  PROVE  Known'
<1>0. NumberInv /\ PipeInv /\ RunInv /\ AnswerInv
  BY DEF Known
<1>1. \A k \in DOMAIN calls' :
        calls'[k].ids # <<>> => /\ k \in DOMAIN calls /\ calls'[k].ids = calls[k].ids
                                /\ calls'[k].kind = calls[k].kind
  BY DEF CallsKept
<1>2. \A k \in DOMAIN calls' : \A i \in DOMAIN calls'[k].ids :
        /\ k \in DOMAIN calls /\ calls'[k].ids = calls[k].ids /\ calls'[k].kind = calls[k].kind
        /\ i \in DOMAIN calls[k].ids /\ calls'[k].ids[i] = calls[k].ids[i]
  <2>1. \A k \in DOMAIN calls' : \A i \in DOMAIN calls'[k].ids : calls'[k].ids # <<>>
    OBVIOUS
  <2> QED BY <1>1, <2>1
<1>3. NumberInv'
  BY <1>0, <1>2 DEF NumberInv
<1>4. ASSUME NEW c, IsSent(calls, c)
      PROVE  IsSent(calls', c)
  <2>1. c.call \in DOMAIN calls
    BY <1>4 DEF IsSent
  <2>2. c.call \in DOMAIN calls' /\ calls'[c.call].kind = calls[c.call].kind
        /\ calls'[c.call].ids = calls[c.call].ids
    BY <2>1 DEF CallsKept
  <2> QED BY <1>4, <2>2, SentStays
<1>5. PipeInv'
  BY <1>0, <1>4 DEF PipeInv
<1>6. RunInv'
  <2>1. \A i \in DOMAIN ran : ran[i].val \in Nat
    BY Shapes
  <2>2. counter \in Nat /\ counter' \in Nat
    BY DEF WholeInv, Types
  <2>3. \A i \in DOMAIN ran : IsSent(calls', ran[i]) /\ ran[i].val <= counter'
    BY <1>0, <1>4, <2>1, <2>2 DEF RunInv
  <2> QED BY <1>0, <2>3 DEF RunInv
<1>7. Grows(ran, ran)
  BY DEF Grows
<1>8. (\A i \in DOMAIN replies : Replied(calls, ran, sent[i], replies[i]))'
  <2> SUFFICES ASSUME NEW i \in DOMAIN replies
               PROVE  Replied(calls', ran, sent[i], replies[i])
    OBVIOUS
  <2> DEFINE k == sent[i].call
  <2>1. Replied(calls, ran, sent[i], replies[i]) /\ IsSent(calls, sent[i])
    <3>1. i \in DOMAIN sent
      BY Shapes
    <3> QED BY <1>0, <3>1 DEF AnswerInv, PipeInv
  <2>2. calls'[k].kind = calls[k].kind /\ calls'[k].ids = calls[k].ids
    BY <2>1 DEF IsSent, CallsKept
  <2>3. \A n, vals : Tells(calls, ran, k, n, vals) => Tells(calls', ran, k, n, vals)
    BY <1>7, <2>2, TellsStays
  <2> QED BY <2>1, <2>2, <2>3 DEF Replied
<1>9. ASSUME NEW k \in DOMAIN calls', NEW i \in DOMAIN calls'[k].ids
      PROVE  LET n == calls'[k].ids[i] IN
             Settles(calls', ran, promise[n], value[n], k, n)
  <2>1. /\ k \in DOMAIN calls /\ calls'[k].ids = calls[k].ids /\ calls'[k].kind = calls[k].kind
        /\ i \in DOMAIN calls[k].ids
    BY <1>2, <1>9
  <2> DEFINE n == calls[k].ids[i]
  <2>2. Settles(calls, ran, promise[n], value[n], k, n)
    BY <1>0, <2>1 DEF AnswerInv
  <2> QED BY <1>7, <2>1, <2>2, SettlesStays
<1>10. AnswerInv'
  BY <1>8, <1>9 DEF AnswerInv
<1> QED BY <1>0, <1>3, <1>5, <1>6, <1>10 DEF Known

\* The calls are as they were: so is what they have been told, and what they do.
LEMMA SameSteps ==
  ASSUME WholeInv, StepInv, ToldInv, UNCHANGED <<calls, turn>>, Grows(ran, ran'),
         \A n \in 1..Len(promise) : promise[n] = "rejected" => promise'[n] = "rejected"
  PROVE  StepInv' /\ ToldInv'
<1>1. StepInv'
  <2> SUFFICES ASSUME NEW k \in DOMAIN calls, ~IsMulti(k)
               PROVE  StepOf(k)'
    BY DEF StepInv, IsMulti
  <2> DEFINE n == calls[k].ids[1]
  <2>1. /\ Sent(k) <= 2
        /\ InTurn(k) => /\ Len(turn) = 1 /\ Sent(k) < 2 /\ calls[k].state = "pending"
                        /\ turn[1].op = OpAt(calls[k].kind, Sent(k) + 1)
        /\ calls[k].kind = "incr" /\ Goes(k) => HasRun(ran, k, n)
        /\ calls[k].kind = "eval" /\ Goes(k) => P(k, 1) = "rejected"
    BY DEF StepInv, StepOf
  <2>2. (Sent(k)' = Sent(k)) /\ (InTurn(k)' <=> InTurn(k)) /\ (Goes(k)' <=> Goes(k))
    BY DEF Sent, InTurn, Goes
  <2>3. Goes(k) => n \in 1..Len(promise)
    BY Shapes DEF Goes
  <2>4. P(k, 1) = promise[n] /\ P(k, 1)' = promise'[n]
    BY DEF P
  <2>5. HasRun(ran, k, n) => HasRun(ran', k, n)
    BY RanStays
  <2> HIDE DEF n
  <2>6. ASSUME calls[k].kind = "eval", Goes(k)
        PROVE  promise'[n] = "rejected"
    BY <2>1, <2>3, <2>4, <2>6
  <2> QED BY <2>1, <2>2, <2>4, <2>5, <2>6 DEF n, StepOf
<1>2. ToldInv'
  <2>1. \A k, n, vals : Tells(calls, ran, k, n, vals) => Tells(calls, ran', k, n, vals)
    BY TellsStays
  <2>2. \A k, vals : IsMulti(k) /\ TellsAll(calls, ran, k, vals) => TellsAll(calls, ran', k, vals)
    BY <2>1 DEF Tells, IsMulti
  <2> QED BY <2>1, <2>2 DEF ToldInv, ToldOf, IsMulti, Sent
<1> QED BY <1>1, <1>2

------------------------------------------------------------------------------
(* The callbacks                                                           *)

\* Between turns one call changes, of what it has sent nothing.
LEMMA OneCall ==
  ASSUME AnswersInv, Idle, WholeInv', NEW k,
         UNCHANGED <<sent, waiting, promise, value, replies, counter, ran, cached>>,
         \A j \in DOMAIN calls : j \in DOMAIN calls' /\ (j # k => calls'[j] = calls[j]),
         DOMAIN calls' \subseteq DOMAIN calls \union {k},
         k \in DOMAIN calls =>
           /\ calls'[k].kind = calls[k].kind /\ calls'[k].ids = calls[k].ids
           /\ calls'[k].state = "open" => calls[k].state = "open",
         k \notin DOMAIN calls => calls'[k].ids = <<>>,
         turn' # <<>> => turn'[1].call = k,
         ~IsMulti(k)' => StepOf(k)', ToldOf(k)'
  PROVE  Known' /\ StepInv' /\ ToldInv'
<1>0. WholeInv /\ Known /\ StepInv /\ ToldInv /\ turn = <<>>
  BY DEF AnswersInv, Idle
<1>1. Known'
  <2>1. CallsKept
    BY DEF CallsKept
  <2>2. counter' >= counter /\ cached' \in BOOLEAN
    BY <1>0 DEF Known, WholeInv, Types
  <2>3. \A j \in DOMAIN calls' : j \notin DOMAIN calls => calls'[j].ids = <<>>
    OBVIOUS
  <2> QED BY <1>0, <2>1, <2>2, <2>3, SameAnswers
<1>2. ASSUME NEW j \in DOMAIN calls', j # k
      PROVE  (~IsMulti(j)' => StepOf(j)') /\ ToldOf(j)'
  <2>1. j \in DOMAIN calls /\ calls'[j] = calls[j]
    BY <1>2
  <2>2. Sent(j)' = Sent(j) /\ ~InTurn(j) /\ ~InTurn(j)' /\ (IsMulti(j)' <=> IsMulti(j))
        /\ P(j, 1)' = P(j, 1)
    BY <1>0, <1>2, <2>1 DEF Sent, InTurn, IsMulti, P
  <2>3. ~IsMulti(j) => StepOf(j)'
    BY <1>0, <2>1, <2>2 DEF StepInv, StepOf, Goes
  <2>4. ToldOf(j)'
    <3>1. \A vals : TellsAll(calls', ran', j, vals) <=> TellsAll(calls, ran, j, vals)
      BY <2>1 DEF TellsAll
    <3>2. \A n, vals : Tells(calls', ran', j, n, vals) <=> Tells(calls, ran, j, n, vals)
      BY <2>1, <3>1 DEF Tells
    <3> QED BY <1>0, <2>1, <2>2, <3>1, <3>2 DEF ToldInv, ToldOf
  <2> QED BY <2>2, <2>3, <2>4
<1> QED BY <1>1, <1>2 DEF StepInv, ToldInv

\* Nothing is given for no values, nor for one.
LEMMA GivenNothing == Given(<<>>) = {}
<1>1. 1..(Len(<<>>) - 1) = {}
  OBVIOUS
<1> QED BY <1>1 DEF Given

\* What a handler that sends one command has to send.
LEMMA OneStep ==
  ASSUME NEW k \in Nat, NEW op \in Ops, Sends(k, <<op>>)
  PROVE  Len(turn') = 1 /\ turn' # <<>> /\ turn'[1].call = k /\ turn'[1].op = op
<1>1. <<op>> \in Seq(Ops) /\ Len(<<op>>) = 1 /\ <<op>>[1] = op
  OBVIOUS
<1>2. /\ turn' \in Seq(Step) /\ Len(turn') = 1
      /\ \A i \in 1..1 : turn'[i].call = k /\ turn'[i].op = <<op>>[i]
  BY <1>1, TurnOf
<1>3. turn'[1].call = k /\ turn'[1].op = <<op>>[1]
  BY <1>2
<1>4. turn' # <<>>
  <2>1. Len(turn') = 1
    BY <1>2
  <2> QED BY <2>1
<1> QED BY <1>1, <1>2, <1>3, <1>4

\* A new call has sent nothing and is told nothing; it may begin a turn.
LEMMA NewCallTells ==
  ASSUME AnswersInv, NewCall, WholeInv', NEW k, k = Len(calls) + 1
  PROVE  Known' /\ StepInv' /\ ToldInv'
<1>1. /\ Idle /\ turn = <<>> /\ calls \in Seq(CallRecord)
      /\ UNCHANGED <<sent, waiting, promise, value, replies, counter, ran, cached>>
  BY DEF NewCall, Idle, AnswersInv, WholeInv, Types, pipe, server
<1>2. k \in Nat /\ k \notin DOMAIN calls
  BY <1>1
<1>3. PICK c : /\ calls' = Append(calls, c) /\ c.ids = <<>> /\ c.vals = <<>> /\ c.given = {}
               /\ \/ c.kind = "multi" /\ turn' = turn
                  \/ c.kind = "incr" /\ c.state = "pending" /\ Sends(k, <<"incr">>)
                  \/ c.kind = "eval" /\ c.state = "pending" /\ Sends(k, <<"evalsha">>)
  <2>1. \A kind, state, queue :
          LET c == Call(kind, state, queue) IN
          /\ c.ids = <<>> /\ c.vals = <<>> /\ c.given = {}
          /\ c.kind = kind /\ c.state = state
    BY DEF Call
  <2>2. \E kind, state, queue :
          /\ calls' = Append(calls, Call(kind, state, queue))
          /\ \/ kind = "multi" /\ turn' = turn
             \/ kind = "incr" /\ state = "pending" /\ Sends(k, <<"incr">>)
             \/ kind = "eval" /\ state = "pending" /\ Sends(k, <<"evalsha">>)
    BY DEF NewCall, MultiCall, IncrCall, EvalCall
  <2> QED BY <2>1, <2>2
<1>4. /\ DOMAIN calls' = DOMAIN calls \union {k} /\ calls'[k] = c
      /\ \A j \in DOMAIN calls : calls'[j] = calls[j]
  BY <1>1, <1>3
<1>5. ASSUME NEW op \in {"incr", "evalsha"}, Sends(k, <<op>>)
      PROVE  Len(turn') = 1 /\ turn'[1].call = k /\ turn'[1].op = op /\ turn' # <<>>
  BY <1>2, <1>5, OneStep DEF Ops
<1>6. Sent(k)' = 0 /\ (IsMulti(k)' <=> c.kind = "multi")
  BY <1>3, <1>4 DEF Sent, IsMulti
<1>7. ~IsMulti(k)' => StepOf(k)'
  <2> SUFFICES ASSUME c.kind # "multi"
               PROVE  StepOf(k)'
    BY <1>6
  <2>1. /\ c.state = "pending" /\ c.kind \in {"incr", "eval"} /\ Len(turn') = 1
        /\ turn'[1].call = k /\ turn'[1].op = OpAt(c.kind, 1)
    BY <1>3, <1>5 DEF OpAt
  <2>2. ~Goes(k)'
    BY <1>6 DEF Goes
  <2> QED BY <1>4, <1>6, <2>1, <2>2 DEF StepOf
<1>8. ToldOf(k)'
  <2>1. TellsAll(calls', ran', k, <<>>)
    BY DEF TellsAll
  <2>2. c.kind # "multi" => c.state = "pending"
    BY <1>3
  <2>3. calls'[k].vals = <<>> /\ calls'[k].given = {} /\ calls'[k].state = c.state
    BY <1>3, <1>4
  <2>4. CASE c.kind = "multi"
    BY <1>6, <2>1, <2>3, <2>4, GivenNothing DEF ToldOf
  <2>5. CASE c.kind # "multi"
    BY <1>6, <2>2, <2>3, <2>5 DEF ToldOf
  <2> QED BY <2>4, <2>5
<1>9. turn' # <<>> => turn'[1].call = k
  BY <1>1, <1>3, <1>5
<1> QED BY <1>1, <1>2, <1>3, <1>4, <1>7, <1>8, <1>9, OneCall

\* A multi is queued to or executed: what it sent and was told stays.
LEMMA MultiTells ==
  ASSUME AnswersInv, NEW k \in DOMAIN calls, Queue(k) \/ Exec(k), WholeInv'
  PROVE  Known' /\ StepInv' /\ ToldInv'
<1>1. /\ Idle /\ turn = <<>> /\ WholeInv /\ ToldInv /\ calls \in Seq(CallRecord)
      /\ UNCHANGED <<sent, waiting, promise, value, replies, counter, ran, cached>>
  BY DEF Queue, Exec, Idle, AnswersInv, WholeInv, Types, pipe, server
<1>2. IsMulti(k)
  BY <1>1 DEF Queue, Exec, IsMulti, WholeInv, CallInv
<1>3. PICK q : calls' = [calls EXCEPT ![k].queue = q]
               \/ calls' = [calls EXCEPT ![k] = [@ EXCEPT !.queue = q, !.state = "pending"]]
  BY DEF Queue, Exec
<1>4. /\ DOMAIN calls' = DOMAIN calls /\ \A j \in DOMAIN calls : j # k => calls'[j] = calls[j]
      /\ calls'[k].kind = calls[k].kind /\ calls'[k].ids = calls[k].ids
      /\ calls'[k].given = calls[k].given /\ calls'[k].vals = calls[k].vals
      /\ calls'[k].state \in {calls[k].state, "pending"}
  BY <1>1, <1>3, Shapes DEF CallRecord
<1>5. ToldOf(k)'
  <2>1. TellsAll(calls, ran, k, calls[k].vals) /\ calls[k].given = Given(calls[k].vals)
    BY <1>1, <1>2 DEF ToldInv, ToldOf
  <2>2. TellsAll(calls', ran', k, calls[k].vals)
    BY <1>1, <1>4, <2>1 DEF TellsAll
  <2> QED BY <1>2, <1>4, <2>1, <2>2 DEF ToldOf, IsMulti
<1>6. turn' # <<>> => turn'[1].call = k
  <2>1. turn' = turn \/ \E ops : Sends(k, ops)
    BY DEF Queue, Exec
  <2>2. ASSUME NEW ops, Sends(k, ops), turn' # <<>>
        PROVE  turn'[1].call = k
    <3>1. turn' = [i \in DOMAIN ops |-> [call |-> k, op |-> ops[i]]]
      BY <2>2 DEF Sends
    <3>2. turn' \in Seq(Step)
      BY DEF WholeInv, Types
    <3>3. 1 \in DOMAIN turn'
      BY <2>2, <3>2
    <3> QED BY <3>1, <3>3
  <2> QED BY <1>1, <2>1, <2>2
<1>7. ~IsMulti(k)' => StepOf(k)'
  BY <1>2, <1>4 DEF IsMulti
<1> QED BY <1>1, <1>4, <1>5, <1>6, <1>7, OneCall

\* A promise of call k that has settled tells what was run.
LEMMA Settled ==
  ASSUME AnswersInv, NEW k \in DOMAIN calls, NEW i \in 1..Sent(k)
  PROVE  LET n == calls[k].ids[i] IN
         P(k, i) = "resolved" => Tells(calls, ran, k, n, value[n])
<1>1. WholeInv /\ AnswerInv
  BY DEF AnswersInv, Known
<1>2. i \in DOMAIN calls[k].ids
  BY <1>1, Shapes
<1> QED BY <1>1, <1>2 DEF AnswerInv, Settles, P

\* What a handler of call k does: it sends the second command, or settles.
HandlerSendsNext(k) ==
  /\ ~IsMulti(k) /\ calls[k].state = "pending" /\ Sent(k) = 1 /\ UNCHANGED calls
  /\ \/ calls[k].kind = "incr" /\ P(k, 1) = "resolved" /\ Sends(k, <<"get">>)
     \/ calls[k].kind = "eval" /\ P(k, 1) = "rejected" /\ Sends(k, <<"eval">>)

HandlerResolves(k) ==
  /\ P(k, Sent(k)) = "resolved"
  /\ calls[k].kind = "incr" => Sent(k) = 2
  /\ SettlesCall(k, "resolved", LastValue(k), IF IsMulti(k) THEN Given(LastValue(k)) ELSE {})

HandlerRejects(k) == SettlesCall(k, "rejected", <<>>, {})

\* A reaction sends the next command of its call, or settles it with what was told.
LEMMA ReactCases ==
  ASSUME AnswersInv, NEW k \in DOMAIN calls, React(k)
  PROVE  /\ Idle /\ calls[k].state = "pending" /\ Sent(k) >= 1
         /\ UNCHANGED <<sent, waiting, promise, value, replies, counter, ran, cached>>
         /\ HandlerSendsNext(k) \/ HandlerResolves(k) \/ HandlerRejects(k)
<1>1. /\ Idle /\ calls[k].state = "pending"
      /\ UNCHANGED <<sent, waiting, promise, value, replies, counter, ran, cached>>
  BY DEF React, IncrReply, EvalShaRejected, ExecResolve, ExecReject, IncrSettles, EvalSettles,
         Waits, pipe, server
<1>2. Sent(k) \in Nat /\ Sent(k) >= 1
  <2>1. calls[k].ids # <<>> /\ calls[k].ids \in Seq(Nat)
    BY <1>1, Shapes DEF AnswersInv, WholeInv, CallInv, Idle
  <2> QED BY <2>1 DEF Sent
<1>3. CASE IncrReply(k) \/ EvalShaRejected(k)
  <2>1. HandlerSendsNext(k)
    BY <1>3 DEF IncrReply, EvalShaRejected, Waits, HandlerSendsNext, IsMulti
  <2> QED BY <1>1, <1>2, <2>1
<1>4. CASE ExecResolve(k)
  <2>1. P(k, Sent(k)) = "resolved" /\ IsMulti(k)
    BY <1>2, <1>4 DEF ExecResolve, Waits, IsMulti
  <2>2. HandlerResolves(k)
    BY <1>4, <2>1 DEF ExecResolve, HandlerResolves, IsMulti
  <2> QED BY <1>1, <1>2, <2>2
<1>5. CASE IncrSettles(k) \/ EvalSettles(k)
  <2>1. ~IsMulti(k)
    BY <1>5 DEF IncrSettles, EvalSettles, Waits, IsMulti
  <2>2. HandlerResolves(k) \/ HandlerRejects(k)
    BY <1>5, <2>1 DEF IncrSettles, EvalSettles, Waits, HandlerResolves, HandlerRejects
  <2> QED BY <1>1, <1>2, <2>2
<1>6. CASE ExecReject(k)
  BY <1>1, <1>2, <1>6 DEF ExecReject, HandlerRejects
<1> QED BY <1>3, <1>4, <1>5, <1>6 DEF React

\* A handler sends the second command when it should, or hands over the answer.
LEMMA ReactTells ==
  ASSUME AnswersInv, NEW k \in DOMAIN calls, React(k), WholeInv'
  PROVE  Known' /\ StepInv' /\ ToldInv'
<1>1. /\ Idle /\ turn = <<>> /\ calls[k].state = "pending" /\ Sent(k) >= 1
      /\ UNCHANGED <<sent, waiting, promise, value, replies, counter, ran, cached>>
      /\ HandlerSendsNext(k) \/ HandlerResolves(k) \/ HandlerRejects(k)
  BY ReactCases DEF Idle
<1>2. /\ WholeInv /\ Known /\ StepInv /\ ToldInv /\ calls \in Seq(CallRecord) /\ k \in Nat
      /\ Sent(k) \in Nat /\ calls[k].kind \in {"multi", "incr", "eval"} /\ calls[k] \in CallRecord
  BY Shapes DEF AnswersInv, WholeInv, Types
<1>3. ASSUME HandlerSendsNext(k)
      PROVE  Known' /\ StepInv' /\ ToldInv'
  <2>1. /\ ~IsMulti(k) /\ calls[k].state = "pending" /\ Sent(k) = 1 /\ calls' = calls
        /\ \/ calls[k].kind = "incr" /\ P(k, 1) = "resolved" /\ Sends(k, <<"get">>)
           \/ calls[k].kind = "eval" /\ P(k, 1) = "rejected" /\ Sends(k, <<"eval">>)
    BY <1>3 DEF HandlerSendsNext
  <2>2. \A op \in {"get", "eval"} :
          Sends(k, <<op>>) => Len(turn') = 1 /\ turn'[1].call = k /\ turn'[1].op = op
    BY <1>2, OneStep DEF Ops
  <2>3. /\ Len(turn') = 1 /\ turn'[1].call = k /\ turn'[1].op = OpAt(calls[k].kind, 2)
    BY <2>1, <2>2 DEF OpAt
  <2>4. Sent(k)' = 1 /\ P(k, 1)' = P(k, 1)
    BY <1>1, <2>1 DEF Sent, P
  <2> DEFINE n == calls[k].ids[1]
  <2>5. calls[k].kind = "incr" => HasRun(ran, k, n)
    <3>1. ASSUME calls[k].kind = "incr"
          PROVE  Tells(calls, ran, k, n, value[n])
      BY <2>1, <3>1, Settled
    <3> QED BY <3>1 DEF Tells, RanTo, HasRun
  <2>6. calls[k].kind = "eval" => P(k, 1) = "rejected"
    BY <2>1
  <2>7. StepOf(k)'
    BY <1>1, <2>1, <2>3, <2>4, <2>5, <2>6 DEF StepOf
  <2>8. ToldOf(k)'
    BY <1>1, <1>2, <2>1 DEF ToldInv, ToldOf, IsMulti
  <2> QED BY <1>1, <1>2, <2>1, <2>3, <2>7, <2>8, OneCall
<1>4. ASSUME NEW how \in {"resolved", "rejected"}, NEW vals, NEW given,
             SettlesCall(k, how, vals, given),
             IsMulti(k) => given = Given(vals) /\ TellsAll(calls, ran, k, vals),
             ~IsMulti(k) =>
               /\ given = {}
               /\ how = "resolved" => /\ Sent(k) = 2 \/ (Sent(k) = 1 /\ calls[k].kind = "eval")
                                      /\ Tells(calls, ran, k, calls[k].ids[Sent(k)], vals)
      PROVE  Known' /\ StepInv' /\ ToldInv'
  <2>1. turn' = <<>> /\ calls' = [calls EXCEPT ![k] =
                                    [@ EXCEPT !.state = how, !.vals = vals, !.given = given]]
    BY <1>1, <1>4 DEF SettlesCall
  <2>2. /\ DOMAIN calls' = DOMAIN calls /\ \A j \in DOMAIN calls : j # k => calls'[j] = calls[j]
        /\ calls'[k].kind = calls[k].kind /\ calls'[k].ids = calls[k].ids
        /\ calls'[k].given = given /\ calls'[k].vals = vals /\ calls'[k].state = how
    BY <1>2, <2>1 DEF CallRecord
  <2>3. /\ Sent(k)' = Sent(k) /\ P(k, 1)' = P(k, 1) /\ (IsMulti(k)' <=> IsMulti(k))
        /\ ~InTurn(k)' /\ ~InTurn(k)
    BY <1>1, <2>1, <2>2 DEF Sent, P, IsMulti, InTurn
  <2>4. ~IsMulti(k)' => StepOf(k)'
    BY <1>1, <1>2, <2>2, <2>3 DEF StepInv, StepOf, Goes
  <2>5. ToldOf(k)'
    <3>1. TellsAll(calls, ran, k, vals) => TellsAll(calls', ran', k, vals)
      BY <1>1, <2>2 DEF TellsAll
    <3>2. \A n : Tells(calls, ran, k, n, vals) => Tells(calls', ran', k, n, vals)
      BY <1>1, <2>2, <3>1 DEF Tells
    <3> QED BY <1>4, <2>2, <2>3, <3>1, <3>2 DEF ToldOf
  <2> QED BY <1>1, <1>2, <2>1, <2>2, <2>4, <2>5, OneCall
<1>5. ASSUME HandlerResolves(k)
      PROVE  Known' /\ StepInv' /\ ToldInv'
  <2> DEFINE n == calls[k].ids[Sent(k)] given == IF IsMulti(k) THEN Given(LastValue(k)) ELSE {}
  <2>1. /\ P(k, Sent(k)) = "resolved" /\ (calls[k].kind = "incr" => Sent(k) = 2)
        /\ SettlesCall(k, "resolved", LastValue(k), given) /\ LastValue(k) = value[n]
    BY <1>5 DEF HandlerResolves, LastValue
  <2>2. Tells(calls, ran, k, n, value[n])
    BY <1>1, <1>2, <2>1, Settled
  <2>3. IsMulti(k) => given = Given(LastValue(k)) /\ TellsAll(calls, ran, k, LastValue(k))
    BY <2>1, <2>2 DEF Tells, IsMulti
  <2>4. ~IsMulti(k) =>
          /\ given = {} /\ Tells(calls, ran, k, n, LastValue(k))
          /\ Sent(k) = 2 \/ (Sent(k) = 1 /\ calls[k].kind = "eval")
    <3>1. ~IsMulti(k) => Sent(k) <= 2 /\ calls[k].kind \in {"incr", "eval"}
      BY <1>2 DEF StepInv, StepOf, IsMulti
    <3> QED BY <1>1, <1>2, <2>1, <2>2, <3>1
  <2> QED BY <1>4, <2>1, <2>3, <2>4
<1>6. ASSUME HandlerRejects(k)
      PROVE  Known' /\ StepInv' /\ ToldInv'
  <2>1. SettlesCall(k, "rejected", <<>>, {}) /\ TellsAll(calls, ran, k, <<>>)
    BY <1>6 DEF HandlerRejects, TellsAll
  <2> QED BY <1>4, <2>1, GivenNothing
<1> QED BY <1>1, <1>3, <1>5, <1>6

\* Nobody is told anything when the client gets ready or another client writes.
LEMMA OthersTell ==
  ASSUME AnswersInv, BecomeReady \/ OtherWrites \/ UNCHANGED vars, WholeInv'
  PROVE  Known' /\ StepInv' /\ ToldInv'
<1>1. /\ UNCHANGED <<sent, waiting, promise, value, replies, calls, turn, ran>>
      /\ WholeInv /\ Known /\ StepInv /\ ToldInv /\ counter \in Nat
  BY DEF BecomeReady, OtherWrites, vars, pipe, client, server, AnswersInv, WholeInv, Types
<1>2. counter' >= counter /\ cached' \in BOOLEAN
  BY <1>1 DEF BecomeReady, OtherWrites, vars, server, Known
<1>3. CallsKept
  BY <1>1 DEF CallsKept
<1>4. Known'
  BY <1>1, <1>2, <1>3, SameAnswers
<1>5. Grows(ran, ran')
  BY <1>1 DEF Grows
<1> QED BY <1>1, <1>4, <1>5, SameSteps

------------------------------------------------------------------------------
(* The connection                                                          *)

\* What is kept is written, and stays in its place in the order.
LEMMA ReplayTells ==
  ASSUME AnswersInv, Replay, WholeInv'
  PROVE  Known' /\ StepInv' /\ ToldInv'
<1>1. /\ WholeInv /\ Known /\ NumberInv /\ PipeInv /\ RunInv /\ AnswerInv /\ StepInv /\ ToldInv
      /\ UNCHANGED <<ready, calls, turn, value, replies, counter, cached, ran>>
  BY DEF AnswersInv, Known, Replay, client, server
<1>2. /\ waiting # <<>> /\ sent' = Append(sent, Head(waiting)) /\ waiting' = Tail(waiting)
      /\ promise' = promise
  BY DEF Replay, Pipe!Replay, Pipe!Write, Pipe!Keep, Pipe!Refuse
<1>3. sent \in Seq(Command) /\ waiting \in Seq(Command) /\ Len(sent) \in Nat /\ Len(waiting) \in Nat
  BY <1>1 DEF WholeInv, Types
<1>4. /\ DOMAIN sent' = 1..(Len(sent) + 1) /\ DOMAIN sent = 1..Len(sent)
      /\ DOMAIN waiting = 1..Len(waiting) /\ DOMAIN waiting' = 1..(Len(waiting) - 1)
      /\ \A i \in DOMAIN sent : sent'[i] = sent[i]
      /\ 1 \in DOMAIN waiting /\ sent'[Len(sent) + 1] = waiting[1]
      /\ \A i \in DOMAIN waiting' :
           i + 1 \in DOMAIN waiting /\ 1 < i + 1 /\ waiting'[i] = waiting[i + 1]
  BY <1>2, <1>3
<1>5. PipeInv'
  <2>1. ASSUME NEW i \in DOMAIN sent'
        PROVE  IsSent(calls, sent'[i]) /\ promise[sent'[i].id] = "pending"
    BY <1>1, <1>3, <1>4, <2>1 DEF PipeInv
  <2>2. ASSUME NEW i \in DOMAIN waiting'
        PROVE  IsSent(calls, waiting'[i]) /\ promise[waiting'[i].id] = "pending"
    BY <1>1, <1>4, <2>2 DEF PipeInv
  <2>3. ASSUME NEW i \in DOMAIN sent', NEW j \in DOMAIN sent', i < j
        PROVE  sent'[i].id < sent'[j].id
    <3>1. i \in DOMAIN sent
      BY <1>3, <1>4, <2>3
    <3>2. CASE j \in DOMAIN sent
      BY <1>1, <1>4, <2>3, <3>1, <3>2 DEF PipeInv
    <3>3. CASE j = Len(sent) + 1
      BY <1>1, <1>4, <3>1, <3>3 DEF PipeInv
    <3> QED BY <1>3, <1>4, <2>3, <3>2, <3>3
  <2>4. ASSUME NEW i \in DOMAIN waiting', NEW j \in DOMAIN waiting', i < j
        PROVE  waiting'[i].id < waiting'[j].id
    <3>1. i + 1 < j + 1
      BY <1>3, <1>4, <2>4
    <3> QED BY <1>1, <1>4, <2>4, <3>1 DEF PipeInv
  <2>5. ASSUME NEW i \in DOMAIN sent', NEW j \in DOMAIN waiting'
        PROVE  sent'[i].id < waiting'[j].id
    <3>1. CASE i \in DOMAIN sent
      BY <1>1, <1>4, <2>5, <3>1 DEF PipeInv
    <3>2. CASE i = Len(sent) + 1
      BY <1>1, <1>4, <2>5, <3>2 DEF PipeInv
    <3> QED BY <1>3, <1>4, <2>5, <3>1, <3>2
  <2> QED BY <1>1, <1>2, <2>1, <2>2, <2>3, <2>4, <2>5 DEF PipeInv
<1>6. RunInv'
  <2>1. ASSUME NEW i \in DOMAIN ran, NEW j \in DOMAIN sent', j > Len(replies)
        PROVE  ran[i].id < sent'[j].id
    <3>1. CASE j \in DOMAIN sent
      BY <1>1, <1>4, <2>1, <3>1 DEF RunInv
    <3>2. CASE j = Len(sent) + 1
      BY <1>1, <1>4, <3>2 DEF RunInv
    <3> QED BY <1>3, <1>4, <3>1, <3>2
  <2>2. \A i \in DOMAIN ran, j \in DOMAIN waiting' : ran[i].id < waiting'[j].id
    BY <1>1, <1>4 DEF RunInv
  <2> QED BY <1>1, <2>1, <2>2 DEF RunInv
<1>7. AnswerInv'
  <2>1. ASSUME NEW i \in DOMAIN replies
        PROVE  Replied(calls, ran, sent'[i], replies[i])
    <3>1. i \in DOMAIN sent
      BY <1>1, Shapes
    <3> QED BY <1>1, <1>4, <3>1 DEF AnswerInv
  <2> QED BY <1>1, <1>2, <2>1 DEF AnswerInv
<1>8. NumberInv'
  BY <1>1 DEF NumberInv
<1>9. Grows(ran, ran')
  BY <1>1 DEF Grows
<1>10. StepInv' /\ ToldInv'
  BY <1>1, <1>2, <1>9, SameSteps
<1> QED BY <1>1, <1>5, <1>6, <1>7, <1>8, <1>10 DEF Known

\* The promise of a command is one place in the sequence.
LEMMA SettledPlaces ==
  ASSUME WholeInv, NEW c, NEW how, c.id \in 1..Len(promise)
  PROVE  /\ Pipe!Settled(c, how)[c.id] = how
         /\ \A n \in 1..Len(promise) : n # c.id => Pipe!Settled(c, how)[n] = promise[n]
<1>1. c.id # 0 /\ DOMAIN promise = 1..Len(promise)
  BY Shapes
<1> QED BY <1>1 DEF Pipe!Settled

\* The promise of the oldest command tells what the reply under way has told.
LEMMA DeliverTells ==
  ASSUME AnswersInv, Deliver, WholeInv'
  PROVE  Known' /\ StepInv' /\ ToldInv'
<1> DEFINE c == sent[1] r == replies[1]
           how == IF r.type = "error" THEN "rejected" ELSE "resolved"
<1>1. /\ WholeInv /\ Known /\ NumberInv /\ PipeInv /\ RunInv /\ AnswerInv /\ StepInv /\ ToldInv
      /\ UNCHANGED <<ready, calls, turn, counter, cached, ran>>
  BY DEF AnswersInv, Known, Deliver
<1>2. sent \in Seq(Command) /\ replies \in Seq(ReplyRecord) /\ value \in Seq(Seq(Nat))
  BY <1>1 DEF WholeInv, Types
<1>3. /\ sent # <<>> /\ replies # <<>> /\ sent' = Tail(sent) /\ replies' = Tail(replies)
      /\ waiting' = waiting
      /\ promise' = Pipe!Settled(c, how) /\ value' = [value EXCEPT ![c.id] = r.vals]
  <2>1. /\ sent # <<>> /\ replies # <<>> /\ sent' = Tail(sent) /\ replies' = Tail(replies)
        /\ waiting' = waiting
    BY DEF Deliver, Pipe!Answer
  <2>2. Head(sent) = c /\ Head(replies) = r
    BY <1>2, <2>1
  <2>3. /\ promise' = Pipe!Settled(Head(sent), IF Head(replies).type = "error"
                                              THEN "rejected" ELSE "resolved")
        /\ value' = [value EXCEPT ![Head(sent).id] = Head(replies).vals]
    BY DEF Deliver
  <2> HIDE DEF c, r
  <2> QED BY <2>1, <2>2, <2>3
<1>4. /\ DOMAIN sent = 1..Len(sent) /\ DOMAIN sent' = 1..(Len(sent) - 1) /\ 1 \in DOMAIN sent
      /\ Len(sent) \in Nat /\ Len(replies') = Len(replies) - 1 /\ Len(replies) \in Nat
      /\ DOMAIN replies = 1..Len(replies) /\ DOMAIN replies' = 1..(Len(replies) - 1)
      /\ 1 \in DOMAIN replies
      /\ \A i \in DOMAIN sent' : i + 1 \in DOMAIN sent /\ 1 < i + 1 /\ sent'[i] = sent[i + 1]
      /\ \A i \in DOMAIN replies' : i + 1 \in DOMAIN replies /\ replies'[i] = replies[i + 1]
  BY <1>2, <1>3
<1>5. /\ IsSent(calls, c) /\ promise[c.id] = "pending" /\ c.call \in DOMAIN calls
      /\ c.id \in 1..Len(promise) /\ Replied(calls, ran, c, r)
  <2>1. IsSent(calls, c) /\ promise[c.id] = "pending" /\ Replied(calls, ran, c, r)
    BY <1>1, <1>4 DEF PipeInv, AnswerInv
  <2>2. PICK i \in DOMAIN calls[c.call].ids : calls[c.call].ids[i] = c.id
    BY <2>1 DEF IsSent
  <2>3. c.call \in DOMAIN calls
    BY <2>1 DEF IsSent
  <2> QED BY <1>1, <2>1, <2>2, <2>3, Shapes
<1> HIDE DEF c, r, how
<1>6. /\ promise'[c.id] = how /\ \A n \in 1..Len(promise) : n # c.id => promise'[n] = promise[n]
      /\ value'[c.id] = r.vals /\ \A n \in 1..Len(promise) : n # c.id => value'[n] = value[n]
  <2>1. DOMAIN value = 1..Len(promise)
    BY <1>1, Shapes
  <2> QED BY <1>1, <1>3, <1>5, <2>1, SettledPlaces
<1>7. PipeInv'
  <2>1. ASSUME NEW d, IsSent(calls, d), d.id # c.id, promise[d.id] = "pending"
        PROVE  promise'[d.id] = "pending"
    <3>1. PICK i \in DOMAIN calls[d.call].ids : calls[d.call].ids[i] = d.id
      BY <2>1 DEF IsSent
    <3>2. d.id \in 1..Len(promise)
      BY <1>1, <2>1, <3>1, Shapes DEF IsSent
    <3> QED BY <1>6, <2>1, <3>2
  <2>2. ASSUME NEW i \in DOMAIN sent'
        PROVE  IsSent(calls, sent'[i]) /\ promise'[sent'[i].id] = "pending"
    <3>1. i + 1 \in DOMAIN sent /\ 1 < i + 1 /\ sent'[i] = sent[i + 1]
      BY <1>4
    <3>2. IsSent(calls, sent'[i]) /\ promise[sent'[i].id] = "pending" /\ c.id < sent'[i].id
      BY <1>1, <1>4, <3>1 DEF PipeInv, c
    <3>3. c.id \in Nat /\ sent'[i].id \in Nat
      BY <1>1, <1>5, <3>1, Shapes
    <3> QED BY <2>1, <3>2, <3>3
  <2>3. ASSUME NEW i \in DOMAIN waiting
        PROVE  IsSent(calls, waiting[i]) /\ promise'[waiting[i].id] = "pending"
    <3>1. IsSent(calls, waiting[i]) /\ promise[waiting[i].id] = "pending" /\ c.id < waiting[i].id
      BY <1>1, <1>4 DEF PipeInv, c
    <3>2. c.id \in Nat /\ waiting[i].id \in Nat
      BY <1>1, <1>5, Shapes
    <3> QED BY <2>1, <3>1, <3>2
  <2>4. ASSUME NEW i \in DOMAIN sent', NEW j \in DOMAIN sent', i < j
        PROVE  sent'[i].id < sent'[j].id
    <3>1. i + 1 < j + 1
      BY <1>4, <2>4
    <3> QED BY <1>1, <1>4, <2>4, <3>1 DEF PipeInv
  <2>5. \A i \in DOMAIN sent', j \in DOMAIN waiting : sent'[i].id < waiting[j].id
    BY <1>1, <1>4 DEF PipeInv
  <2> QED BY <1>1, <1>3, <2>2, <2>3, <2>4, <2>5 DEF PipeInv
<1>8. RunInv'
  <2>1. ASSUME NEW i \in DOMAIN ran, NEW j \in DOMAIN sent', j > Len(replies')
        PROVE  ran[i].id < sent'[j].id
    <3>1. j + 1 > Len(replies)
      BY <1>4, <2>1
    <3> QED BY <1>1, <1>4, <2>1, <3>1 DEF RunInv
  <2> QED BY <1>1, <1>3, <2>1 DEF RunInv
<1>9. AnswerInv'
  <2>1. ASSUME NEW i \in DOMAIN replies'
        PROVE  Replied(calls, ran, sent'[i], replies'[i])
    <3>1. i \in DOMAIN sent'
      <4>1. Len(replies) <= Len(sent)
        BY <1>1, Shapes
      <4> QED BY <1>4, <4>1
    <3> QED BY <1>1, <1>4, <2>1, <3>1 DEF AnswerInv
  <2>2. ASSUME NEW k \in DOMAIN calls, NEW i \in DOMAIN calls[k].ids
        PROVE  LET n == calls[k].ids[i] IN
               Settles(calls, ran, promise'[n], value'[n], k, n)
    <3> DEFINE n == calls[k].ids[i]
    <3>1. n \in 1..Len(promise) /\ Settles(calls, ran, promise[n], value[n], k, n)
      BY <1>1, Shapes DEF AnswerInv
    <3>2. CASE n # c.id
      BY <1>6, <3>1, <3>2
    <3>3. CASE n = c.id
      <4>1. k = c.call
        BY <1>1, <1>5, <3>3 DEF NumberInv, IsSent
      <4>2. Settles(calls, ran, how, r.vals, c.call, c.id)
        BY <1>5 DEF Replied, Settles, how
      <4> QED BY <1>6, <3>3, <4>1, <4>2
    <3> QED BY <3>2, <3>3
  <2> QED BY <1>1, <2>1, <2>2 DEF AnswerInv
<1>10. NumberInv'
  BY <1>1 DEF NumberInv
<1>11. StepInv' /\ ToldInv'
  <2>1. Grows(ran, ran')
    BY <1>1 DEF Grows
  <2>2. \A n \in 1..Len(promise) : promise[n] = "rejected" => promise'[n] = "rejected"
    BY <1>5, <1>6
  <2> QED BY <1>1, <2>1, <2>2, SameSteps
<1> QED BY <1>1, <1>7, <1>8, <1>9, <1>10, <1>11 DEF Known

\* A command that is dropped is refused, or told nothing.
LEMMA LoseTells ==
  ASSUME AnswersInv, Lose, WholeInv'
  PROVE  Known' /\ StepInv' /\ ToldInv'
<1>1. /\ WholeInv /\ Known /\ NumberInv /\ PipeInv /\ RunInv /\ AnswerInv /\ StepInv /\ ToldInv
      /\ UNCHANGED <<calls, turn, value, counter, cached, ran>>
      /\ sent' = <<>> /\ waiting' = <<>> /\ replies' = <<>>
  BY DEF AnswersInv, Known, Lose, Pipe!Lose
<1>3. promise' = promise \/ \E c : promise' = Pipe!Settled(c, "rejected")
  BY DEF Lose, Pipe!Lose
<1>4. \A n \in 1..Len(promise) : promise'[n] \in {promise[n], "rejected"}
  <2>1. DOMAIN promise = 1..Len(promise)
    BY <1>1, Shapes
  <2>2. CASE promise' = promise
    BY <2>2
  <2>3. ASSUME NEW c, promise' = Pipe!Settled(c, "rejected")
        PROVE  \A n \in 1..Len(promise) : promise'[n] \in {promise[n], "rejected"}
    BY <2>1, <2>3 DEF Pipe!Settled
  <2> QED BY <1>3, <2>2, <2>3
<1>5. NumberInv' /\ PipeInv' /\ RunInv'
  BY <1>1 DEF NumberInv, PipeInv, RunInv
<1>6. ASSUME NEW k \in DOMAIN calls, NEW i \in DOMAIN calls[k].ids
      PROVE  LET n == calls[k].ids[i] IN
             Settles(calls, ran, promise'[n], value[n], k, n)
  <2> DEFINE n == calls[k].ids[i]
  <2>1. n \in 1..Len(promise) /\ Settles(calls, ran, promise[n], value[n], k, n)
    BY <1>1, Shapes DEF AnswerInv
  <2>2. Settles(calls, ran, promise'[n], value[n], k, n)
    BY <1>4, <2>1 DEF Settles
  <2> QED BY <2>2
<1>7. AnswerInv'
  BY <1>1, <1>6 DEF AnswerInv
<1>8. StepInv' /\ ToldInv'
  <2>1. Grows(ran, ran')
    BY <1>1 DEF Grows
  <2>2. \A n \in 1..Len(promise) : promise[n] = "rejected" => promise'[n] = "rejected"
    BY <1>4
  <2> QED BY <1>1, <2>1, <2>2, SameSteps
<1> QED BY <1>1, <1>5, <1>7, <1>8 DEF Known

\* A multi that is being sent has been told nothing.
LEMMA NotTold ==
  ASSUME WholeInv, NEW k, InTurn(k), NEW vals \in Seq(Nat), TellsAll(calls, ran, k, vals), IsMulti(k)
  PROVE  vals = <<>>
<1> SUFFICES ASSUME vals # <<>>
             PROVE  FALSE
  OBVIOUS
<1>1. 1 \in DOMAIN vals
  OBVIOUS
<1>2. PICK e \in DOMAIN ran : ran[e].call = k
  BY <1>1 DEF TellsAll, RanTo
<1> QED BY <1>2 DEF WholeInv, LinesInv, RanInv

\* What a sequence holds when one more is appended.
LEMMA AppendFacts ==
  ASSUME NEW S, NEW s \in Seq(S), NEW e \in S
  PROVE  /\ Len(s) \in Nat /\ DOMAIN s = 1..Len(s) /\ DOMAIN Append(s, e) = 1..(Len(s) + 1)
         /\ \A i \in 1..Len(s) : Append(s, e)[i] = s[i]
         /\ Append(s, e)[Len(s) + 1] = e /\ Len(Append(s, e)) = Len(s) + 1
OBVIOUS

\* The command that is sent is the next of its call, and the last of all.
LEMMA SendTells ==
  ASSUME AnswersInv, SendNext, WholeInv', NEW k, NEW n, NEW c, k = turn[1].call,
         n = Len(promise) + 1, c = [id |-> n, call |-> k, op |-> turn[1].op]
  PROVE  Known' /\ StepInv' /\ ToldInv'
<1> DEFINE ids == calls[k].ids
           m   == Len(ids)
<1>1. /\ WholeInv /\ Known /\ NumberInv /\ PipeInv /\ RunInv /\ AnswerInv /\ StepInv /\ ToldInv
      /\ UNCHANGED <<ready, replies, counter, cached, ran>> /\ value' = Append(value, <<>>)
      /\ Len(promise) \in Nat /\ Len(replies) <= Len(sent)
  BY Shapes DEF AnswersInv, Known, SendNext, server
<1>2. /\ n \in Nat /\ turn # <<>> /\ turn' = Tail(turn) /\ k \in DOMAIN calls /\ ids \in Seq(Nat)
      /\ DOMAIN calls' = DOMAIN calls /\ \A j \in DOMAIN calls : j # k => calls'[j] = calls[j]
      /\ calls'[k].kind = calls[k].kind /\ calls'[k].state = calls[k].state
      /\ calls'[k].ids = Append(ids, n)
  <2> DEFINE l == turn[1].call
  <2>1. WholeInv /\ SendNext
    BY <1>1
  <2>2. /\ turn # <<>> /\ turn' = Tail(turn) /\ l \in DOMAIN calls /\ calls[l].ids \in Seq(Nat)
        /\ DOMAIN calls' = DOMAIN calls /\ \A j \in DOMAIN calls : j # l => calls'[j] = calls[j]
        /\ calls'[l].kind = calls[l].kind /\ calls'[l].state = calls[l].state
        /\ calls'[l].ids = Append(calls[l].ids, Len(promise) + 1)
    BY <2>1, SendFacts, Zenon
  <2>3. l = k /\ Len(promise) + 1 = n /\ n \in Nat
    BY <1>1
  <2> HIDE DEF l
  <2> QED BY <2>2, <2>3
<1>3. /\ calls'[k].vals = calls[k].vals /\ calls'[k].given = calls[k].given
  <2>1. turn \in Seq(Step) /\ calls[k] \in CallRecord /\ calls \in Seq(CallRecord)
    BY <1>1, <1>2, Shapes DEF WholeInv, Types
  <2>2. Head(turn) = turn[1]
    BY <1>2, <2>1
  <2>3. PICK x : calls' = [calls EXCEPT ![k].ids = x]
    BY <2>2 DEF SendNext
  <2>4. calls'[k] = [calls[k] EXCEPT !.ids = x]
    BY <1>2, <2>1, <2>3
  <2> QED BY <2>1, <2>4 DEF CallRecord
<1>4. /\ m \in Nat /\ DOMAIN ids = 1..m /\ DOMAIN calls'[k].ids = 1..(m + 1)
      /\ \A i \in 1..m : calls'[k].ids[i] = ids[i] /\ ids[i] < n
      /\ calls'[k].ids[m + 1] = n /\ Sent(k) = m /\ Sent(k)' = m + 1
  <2>1. Sent(k) = m /\ \A i \in 1..Sent(k) : ids[i] \in 1..Len(promise)
    BY <1>1, <1>2, Shapes DEF Sent
  <2>2. /\ m \in Nat /\ DOMAIN ids = 1..m /\ DOMAIN Append(ids, n) = 1..(m + 1)
        /\ \A i \in 1..m : Append(ids, n)[i] = ids[i]
        /\ Append(ids, n)[m + 1] = n /\ Len(Append(ids, n)) = m + 1
    <3> HIDE DEF ids
    <3> QED BY <1>2, AppendFacts DEF m
  <2> HIDE DEF m, ids
  <2>3. Sent(k)' = m + 1
    BY <1>2, <2>2 DEF Sent
  <2>4. \A i \in 1..m : ids[i] < n
    BY <1>1, <2>1
  <2> QED BY <1>2, <2>1, <2>2, <2>3, <2>4
<1>5. /\ \A i \in 1..Len(promise) : promise'[i] = promise[i] /\ value'[i] = value[i]
      /\ value'[n] = <<>> /\ promise'[n] \in {"pending", "rejected"}
      /\ \/ sent' = Append(sent, c) /\ waiting' = waiting /\ promise'[n] = "pending"
         \/ sent' = sent /\ waiting' = Append(waiting, c) /\ promise'[n] = "pending"
         \/ sent' = sent /\ waiting' = waiting
  <2>1. turn \in Seq(Step) /\ promise \in Seq(Status) /\ value \in Seq(Seq(Nat)) /\ Len(value) = Len(promise)
    BY <1>1 DEF WholeInv, Types
  <2>2. Head(turn) = turn[1]
    BY <1>2, <2>1
  <2>3. Pipe!Issue(c)
    BY <2>2 DEF SendNext
  <2>4. /\ promise' = Append(promise, "pending") \/ promise' = Append(promise, "rejected")
        /\ \/ sent' = Append(sent, c) /\ waiting' = waiting /\ promise' = Append(promise, "pending")
           \/ sent' = sent /\ waiting' = Append(waiting, c) /\ promise' = Append(promise, "pending")
           \/ sent' = sent /\ waiting' = waiting
    BY <2>3 DEF Pipe!Issue, Pipe!Write, Pipe!Keep, Pipe!Refuse
  <2>5. \A s : /\ \A i \in 1..Len(promise) : Append(promise, s)[i] = promise[i]
               /\ Append(promise, s)[n] = s
    BY <1>1, <2>1
  <2>6. value'[n] = <<>> /\ \A i \in 1..Len(promise) : value'[i] = value[i]
    BY <1>1, <2>1
  <2> QED BY <2>4, <2>5, <2>6
<1>6. /\ DOMAIN sent = 1..Len(sent) /\ Len(sent) \in Nat
      /\ DOMAIN waiting = 1..Len(waiting) /\ Len(waiting) \in Nat
      /\ \A i \in DOMAIN sent : sent[i].id \in 1..Len(promise) /\ sent[i].id < n
      /\ \A i \in DOMAIN waiting : waiting[i].id \in 1..Len(promise) /\ waiting[i].id < n
      /\ \A i \in DOMAIN ran : ran[i].id \in 1..Len(promise) /\ ran[i].id < n
  <2>1. ASSUME NEW d, IsSent(calls, d)
        PROVE  d.id \in 1..Len(promise) /\ d.id < n
    <3>1. PICK i \in DOMAIN calls[d.call].ids : calls[d.call].ids[i] = d.id
      BY <2>1 DEF IsSent
    <3>2. d.id \in 1..Len(promise)
      BY <1>1, <2>1, <3>1, Shapes DEF IsSent
    <3> QED BY <1>1, <3>2
  <2> QED BY <1>1, <2>1, Shapes DEF PipeInv, RunInv
<1> HIDE DEF ids, m
<1>7. /\ \A d : IsSent(calls, d) => IsSent(calls', d)
      /\ c.id = n /\ c.call = k
  <2>1. ASSUME NEW d, IsSent(calls, d)
        PROVE  IsSent(calls', d)
    <3>1. d.call \in DOMAIN calls
      BY <2>1 DEF IsSent
    <3>2. /\ calls'[d.call].kind = calls[d.call].kind
          /\ \A i \in DOMAIN calls[d.call].ids :
               i \in DOMAIN calls'[d.call].ids /\ calls'[d.call].ids[i] = calls[d.call].ids[i]
      <4>0. \A i \in DOMAIN calls[k].ids :
              i \in DOMAIN calls'[k].ids /\ calls'[k].ids[i] = calls[k].ids[i]
        BY <1>4, SMTT(30) DEF ids
      <4>1. CASE d.call = k
        BY <1>2, <4>0, <4>1
      <4>2. CASE d.call # k
        BY <1>2, <3>1, <4>2
      <4> QED BY <4>1, <4>2
    <3> QED BY <1>2, <2>1, <3>1, <3>2, SentStays
  <2> QED BY <2>1
<1>8. IsSent(calls', c)
  <2>1. ~IsMulti(k) => c.op = OpAt(calls[k].kind, m + 1)
    <3>1. InTurn(k)
      BY <1>2 DEF InTurn
    <3>2. ~IsMulti(k) => turn[1].op = OpAt(calls[k].kind, Sent(k) + 1)
      BY <1>1, <1>2, <3>1 DEF StepInv, StepOf
    <3> QED BY <1>4, <3>2
  <2>2. m + 1 \in DOMAIN calls'[k].ids
    BY <1>4
  <2> QED BY <1>2, <1>4, <1>7, <2>1, <2>2 DEF IsSent, IsMulti
<1>9. NumberInv'
  <2>1. ASSUME NEW l \in DOMAIN calls, NEW i \in DOMAIN calls[l].ids
        PROVE  calls[l].ids[i] < n /\ calls'[l].ids[i] = calls[l].ids[i]
    <3>1. calls[l].ids[i] \in 1..Len(promise)
      BY <1>1, Shapes
    <3>2. calls'[l].ids[i] = calls[l].ids[i]
      <4>1. CASE l = k
        BY <1>4, <4>1 DEF ids
      <4>2. CASE l # k
        BY <1>2, <4>2
      <4> QED BY <4>1, <4>2
    <3> QED BY <1>1, <3>1, <3>2
  <2>2. ASSUME NEW l \in DOMAIN calls, NEW i \in DOMAIN calls'[l].ids
        PROVE  \/ i \in DOMAIN calls[l].ids /\ calls'[l].ids[i] = calls[l].ids[i]
                  /\ calls'[l].ids[i] < n
               \/ l = k /\ i = m + 1 /\ calls'[l].ids[i] = n
    <3>1. CASE l # k
      BY <1>2, <2>1, <2>2, <3>1
    <3>2. CASE l = k
      <4>1. i \in 1..m \/ i = m + 1
        BY <1>4, <2>2, <3>2
      <4> QED BY <1>4, <3>2, <4>1 DEF ids
    <3> QED BY <3>1, <3>2
  <2>3. ASSUME NEW l \in DOMAIN calls, NEW j \in DOMAIN calls,
               NEW i \in DOMAIN calls'[l].ids, NEW h \in DOMAIN calls'[j].ids,
               calls'[l].ids[i] = calls'[j].ids[h]
        PROVE  l = j
    <3>1. n \in Nat /\ ~(n < n)
      BY <1>2
    <3> QED BY <1>1, <2>2, <2>3, <3>1 DEF NumberInv
  <2>4. ASSUME NEW l \in DOMAIN calls, NEW i \in DOMAIN calls'[l].ids, NEW j \in DOMAIN calls'[l].ids,
               i < j
        PROVE  calls'[l].ids[i] < calls'[l].ids[j]
    <3>1. CASE i \in DOMAIN calls[l].ids /\ j \in DOMAIN calls[l].ids
      <4>1. calls[l].ids[i] < calls[l].ids[j]
        BY <1>1, <2>4, <3>1 DEF NumberInv
      <4>2. calls'[l].ids[i] = calls[l].ids[i] /\ calls'[l].ids[j] = calls[l].ids[j]
        BY <2>1, <3>1
      <4> QED BY <4>1, <4>2
    <3>2. CASE l = k /\ j = m + 1
      <4>1. calls'[l].ids[j] = n /\ i # m + 1
        BY <1>4, <2>4, <3>2
      <4> QED BY <2>2, <4>1
    <3>3. CASE l = k /\ i = m + 1
      BY <1>4, <2>4, <3>3
    <3> QED BY <2>2, <2>4, <3>1, <3>2, <3>3
  <2> QED BY <1>2, <2>3, <2>4 DEF NumberInv
<1>10. PipeInv'
  <2>1. \A d : IsSent(calls, d) /\ d.id \in 1..Len(promise) /\ promise[d.id] = "pending"
          => IsSent(calls', d) /\ promise'[d.id] = "pending"
    BY <1>5, <1>7
  <2>2. CASE sent' = Append(sent, c) /\ waiting' = waiting /\ promise'[n] = "pending"
    <3>1. /\ DOMAIN sent' = 1..(Len(sent) + 1) /\ sent'[Len(sent) + 1] = c
          /\ \A i \in DOMAIN sent : sent'[i] = sent[i]
      <4>1. sent \in Seq(Command)
        BY <1>1 DEF WholeInv, Types
      <4> QED BY <2>2, <4>1
    <3>2. \A i \in DOMAIN sent' : i \in DOMAIN sent \/ i = Len(sent) + 1
      BY <1>6, <3>1
    <3>3. \A i \in DOMAIN waiting : FALSE
      <4>1. ready => waiting' = <<>>
        BY <1>1, SendFacts
      <4>2. sent' # sent
        BY <1>6, <3>1
      <4>3. ready
        BY <4>2 DEF SendNext
      <4> QED BY <2>2, <4>1, <4>3
    <3>4. (\A i \in DOMAIN sent : IsSent(calls, sent[i]) /\ promise[sent[i].id] = "pending")'
      <4>1. \A i \in DOMAIN sent : IsSent(calls', sent[i]) /\ promise'[sent[i].id] = "pending"
        BY <1>1, <1>6, <2>1 DEF PipeInv
      <4> QED BY <1>7, <1>8, <2>2, <3>1, <3>2, <4>1
    <3>5. (\A i, j \in DOMAIN sent : i < j => sent[i].id < sent[j].id)'
      <4> SUFFICES ASSUME NEW i \in DOMAIN sent', NEW j \in DOMAIN sent', i < j
                   PROVE  sent'[i].id < sent'[j].id
        OBVIOUS
      <4>1. i \in DOMAIN sent
        BY <1>6, <3>1
      <4>2. CASE j \in DOMAIN sent
        BY <1>1, <3>1, <4>1, <4>2 DEF PipeInv
      <4>3. CASE j = Len(sent) + 1
        BY <1>6, <1>7, <3>1, <4>1, <4>3
      <4> QED BY <3>2, <4>2, <4>3
    <3> QED BY <2>2, <3>3, <3>4, <3>5 DEF PipeInv
  <2>3. CASE sent' = sent /\ waiting' = Append(waiting, c) /\ promise'[n] = "pending"
    <3>1. /\ DOMAIN waiting' = 1..(Len(waiting) + 1) /\ waiting'[Len(waiting) + 1] = c
          /\ \A i \in DOMAIN waiting : waiting'[i] = waiting[i]
      <4>1. waiting \in Seq(Command)
        BY <1>1 DEF WholeInv, Types
      <4> QED BY <2>3, <4>1
    <3>2. \A i \in DOMAIN waiting' : i \in DOMAIN waiting \/ i = Len(waiting) + 1
      BY <1>6, <3>1
    <3>3. (\A i \in DOMAIN sent : IsSent(calls, sent[i]) /\ promise[sent[i].id] = "pending")'
      BY <1>1, <1>6, <2>1, <2>3 DEF PipeInv
    <3>4. (\A i \in DOMAIN waiting : IsSent(calls, waiting[i]) /\ promise[waiting[i].id] = "pending")'
      <4>1. \A i \in DOMAIN waiting : IsSent(calls', waiting[i]) /\ promise'[waiting[i].id] = "pending"
        BY <1>1, <1>6, <2>1 DEF PipeInv
      <4> QED BY <1>7, <1>8, <2>3, <3>1, <3>2, <4>1
    <3>5. (\A i, j \in DOMAIN waiting : i < j => waiting[i].id < waiting[j].id)'
      <4> SUFFICES ASSUME NEW i \in DOMAIN waiting', NEW j \in DOMAIN waiting', i < j
                   PROVE  waiting'[i].id < waiting'[j].id
        OBVIOUS
      <4>1. i \in DOMAIN waiting
        BY <1>6, <3>1
      <4>2. CASE j \in DOMAIN waiting
        BY <1>1, <3>1, <4>1, <4>2 DEF PipeInv
      <4>3. CASE j = Len(waiting) + 1
        BY <1>6, <1>7, <3>1, <4>1, <4>3
      <4> QED BY <3>2, <4>2, <4>3
    <3>6. (\A i \in DOMAIN sent, j \in DOMAIN waiting : sent[i].id < waiting[j].id)'
      <4> SUFFICES ASSUME NEW i \in DOMAIN sent, NEW j \in DOMAIN waiting'
                   PROVE  sent[i].id < waiting'[j].id
        BY <2>3
      <4>1. CASE j \in DOMAIN waiting
        BY <1>1, <3>1, <4>1 DEF PipeInv
      <4>2. CASE j = Len(waiting) + 1
        BY <1>6, <1>7, <3>1, <4>2
      <4> QED BY <3>2, <4>1, <4>2
    <3> QED BY <1>1, <2>3, <3>3, <3>4, <3>5, <3>6 DEF PipeInv
  <2>4. CASE sent' = sent /\ waiting' = waiting
    <3>1. /\ \A i \in DOMAIN sent : IsSent(calls', sent[i]) /\ promise'[sent[i].id] = "pending"
          /\ \A i \in DOMAIN waiting : IsSent(calls', waiting[i]) /\ promise'[waiting[i].id] = "pending"
      BY <1>1, <1>6, <2>1 DEF PipeInv
    <3> QED BY <1>1, <2>4, <3>1 DEF PipeInv
  <2> QED BY <1>5, <2>2, <2>3, <2>4
<1>11. RunInv'
  <2>1. \A i \in DOMAIN ran : IsSent(calls', ran[i]) /\ ran[i].val <= counter
    BY <1>1, <1>7 DEF RunInv
  <2>2. /\ \A j \in DOMAIN sent' : \/ j \in DOMAIN sent /\ sent'[j] = sent[j]
                                   \/ sent'[j] = c
        /\ \A j \in DOMAIN waiting' : \/ j \in DOMAIN waiting /\ waiting'[j] = waiting[j]
                                      \/ waiting'[j] = c
    <3>1. sent \in Seq(Command) /\ waiting \in Seq(Command)
      BY <1>1 DEF WholeInv, Types
    <3>2. /\ \A j \in DOMAIN Append(sent, c) :
               (j \in DOMAIN sent /\ Append(sent, c)[j] = sent[j]) \/ Append(sent, c)[j] = c
          /\ \A j \in DOMAIN Append(waiting, c) :
               \/ j \in DOMAIN waiting /\ Append(waiting, c)[j] = waiting[j]
               \/ Append(waiting, c)[j] = c
      BY <3>1
    <3> QED BY <1>5, <3>2
  <2>3. \A i \in DOMAIN ran : ran[i].id < c.id
    BY <1>6, <1>7
  <2>4. \A i \in DOMAIN ran, j \in DOMAIN sent' : j > Len(replies) => ran[i].id < sent'[j].id
    BY <1>1, <2>2, <2>3 DEF RunInv
  <2>5. \A i \in DOMAIN ran, j \in DOMAIN waiting' : ran[i].id < waiting'[j].id
    BY <1>1, <2>2, <2>3 DEF RunInv
  <2> QED BY <1>1, <2>1, <2>4, <2>5 DEF RunInv
<1>12. Grows(ran, ran) /\ InTurn(k) /\ \A j : InTurn(j) => j = k
  BY <1>2 DEF Grows, InTurn
<1>13. ASSUME NEW j \in DOMAIN calls, NEW i, NEW vals \in Seq(Nat), Tells(calls, ran, j, i, vals)
       PROVE  Tells(calls', ran, j, i, vals)
  <2>1. calls'[j].kind = calls[j].kind
    BY <1>2
  <2>2. calls'[j].ids = calls[j].ids \/ vals = <<>> \/ calls[j].kind # "multi"
    <3>1. CASE j # k
      BY <1>2, <3>1
    <3>2. CASE j = k /\ IsMulti(k)
      BY <1>1, <1>12, <1>13, <3>2, NotTold DEF Tells, IsMulti
    <3> QED BY <3>1, <3>2 DEF IsMulti
  <2> QED BY <1>12, <1>13, <2>1, <2>2, TellsStays
<1>14. AnswerInv'
  <2>1. ASSUME NEW i \in DOMAIN replies
        PROVE  Replied(calls', ran, sent'[i], replies[i])
    <3> DEFINE j == sent[i].call
    <3>1. /\ i \in DOMAIN sent /\ replies[i] \in ReplyRecord /\ IsSent(calls, sent[i])
          /\ Replied(calls, ran, sent[i], replies[i])
      <4>1. i \in DOMAIN sent
        BY <1>1, Shapes
      <4>2. replies \in Seq(ReplyRecord)
        BY <1>1 DEF WholeInv, Types
      <4>3. IsSent(calls, sent[i]) /\ Replied(calls, ran, sent[i], replies[i])
        BY <1>1, <4>1 DEF AnswerInv, PipeInv
      <4> QED BY <4>1, <4>2, <4>3
    <3>2. replies[i].vals \in Seq(Nat) /\ j \in DOMAIN calls /\ calls'[j].kind = calls[j].kind
      BY <1>2, <3>1 DEF ReplyRecord, IsSent
    <3>3. sent'[i] = sent[i]
      <4>1. sent \in Seq(Command)
        BY <1>1 DEF WholeInv, Types
      <4>2. Append(sent, c)[i] = sent[i]
        BY <3>1, <4>1
      <4> QED BY <1>5, <4>2
    <3> QED BY <1>13, <3>1, <3>2, <3>3 DEF Replied
  <2>2. ASSUME NEW j \in DOMAIN calls, NEW i \in DOMAIN calls[j].ids
        PROVE  LET h == calls[j].ids[i] IN
               Settles(calls', ran, promise'[h], value'[h], j, h)
    <3> DEFINE h == calls[j].ids[i]
    <3>1. /\ h \in 1..Len(promise) /\ Settles(calls, ran, promise[h], value[h], j, h)
          /\ value[h] \in Seq(Nat)
      <4>1. h \in 1..Len(promise) /\ Settles(calls, ran, promise[h], value[h], j, h)
        BY <1>1, Shapes DEF AnswerInv
      <4>2. value \in Seq(Seq(Nat)) /\ DOMAIN value = 1..Len(promise)
        BY <1>1, Shapes DEF WholeInv, Types
      <4> HIDE DEF h
      <4> QED BY <4>1, <4>2
    <3>2. calls'[j].kind = calls[j].kind /\ promise'[h] = promise[h] /\ value'[h] = value[h]
      BY <1>2, <1>5, <3>1
    <3> HIDE DEF h
    <3>3. Settles(calls', ran, promise'[h], value'[h], j, h)
      BY <1>13, <3>1, <3>2 DEF Settles
    <3> QED BY <3>3 DEF h
  <2>3. Settles(calls', ran, promise'[n], value'[n], k, n)
    BY <1>5 DEF Settles
  <2>4. ASSUME NEW j \in DOMAIN calls, NEW i \in DOMAIN calls'[j].ids
        PROVE  LET h == calls'[j].ids[i] IN
               Settles(calls', ran, promise'[h], value'[h], j, h)
    <3>1. CASE j # k
      BY <1>2, <2>2, <2>4, <3>1
    <3>2. CASE j = k /\ i \in 1..m
      BY <1>4, <2>2, <3>2 DEF ids
    <3>3. CASE j = k /\ i = m + 1
      BY <1>4, <2>3, <3>3
    <3> QED BY <1>4, <2>4, <3>1, <3>2, <3>3
  <2> QED BY <1>1, <1>2, <2>1, <2>4 DEF AnswerInv
<1>15. StepInv'
  <2>1. ASSUME NEW j \in DOMAIN calls, j # k, ~IsMulti(j)
        PROVE  StepOf(j)'
    <3>1. calls'[j] = calls[j] /\ ~InTurn(j) /\ StepOf(j)
      BY <1>1, <1>2, <1>12, <2>1 DEF StepInv
    <3>2. ~InTurn(j)'
      <4>1. turn \in Seq(Step) /\ turn' = Tail(turn) /\ \A i \in DOMAIN turn : turn[i].call = k
        BY <1>1, <1>2 DEF WholeInv, Types, TurnInv
      <4>2. turn' # <<>> => turn'[1].call = k
        BY <1>2, <4>1
      <4> QED BY <2>1, <4>2 DEF InTurn
    <3>3. Sent(j)' = Sent(j) /\ (Goes(j)' <=> Goes(j)) /\ (Goes(j) => Sent(j) = 2)
      BY <3>1, <3>2 DEF Sent, Goes
    <3>4. Goes(j) => P(j, 1)' = P(j, 1)
      <4>1. Goes(j) => calls[j].ids[1] \in 1..Len(promise)
        BY <1>1, <3>3, Shapes
      <4> QED BY <1>5, <3>1, <4>1 DEF P
    <3> QED BY <1>1, <3>1, <3>2, <3>3, <3>4 DEF StepOf
  <2>2. ASSUME ~IsMulti(k)
        PROVE  StepOf(k)'
    <3>1. /\ Len(turn) = 1 /\ m < 2 /\ calls[k].state = "pending" /\ StepOf(k)
      BY <1>1, <1>2, <1>4, <1>12, <2>2 DEF StepInv, StepOf
    <3>2. ~InTurn(k)'
      <4>1. turn \in Seq(Step) /\ turn' = Tail(turn)
        BY <1>1, <1>2 DEF WholeInv, Types
      <4>2. turn' = <<>>
        BY <3>1, <4>1
      <4> QED BY <4>2 DEF InTurn
    <3>3. Goes(k)' => m = 1 /\ Goes(k)
      BY <1>4, <1>12, <3>1, <3>2 DEF Goes
    <3>4. m = 1 => calls'[k].ids[1] = calls[k].ids[1] /\ P(k, 1)' = P(k, 1)
      <4>1. m = 1 => calls'[k].ids[1] = calls[k].ids[1]
        BY <1>4 DEF ids
      <4>2. m = 1 => calls[k].ids[1] \in 1..Len(promise)
        <5>1. Sent(k) = m /\ \A i \in 1..Sent(k) : calls[k].ids[i] \in 1..Len(promise)
          BY <1>1, <1>2, <1>4, Shapes
        <5> QED BY <5>1
      <4> QED BY <1>5, <4>1, <4>2 DEF P
    <3> QED BY <1>1, <1>2, <1>4, <3>1, <3>2, <3>3, <3>4 DEF StepOf
  <2> QED BY <1>2, <2>1, <2>2 DEF StepInv, IsMulti
<1>16. ToldInv'
  <2>1. ASSUME NEW j \in DOMAIN calls
        PROVE  ToldOf(j)'
    <3>1. /\ calls'[j].vals = calls[j].vals /\ calls'[j].given = calls[j].given
          /\ calls'[j].kind = calls[j].kind /\ calls'[j].state = calls[j].state /\ ToldOf(j)
          /\ calls[j].vals \in Seq(Nat)
      BY <1>1, <1>2, <1>3, Shapes DEF ToldInv
    <3>2. \A i : Tells(calls, ran, j, i, calls[j].vals) => Tells(calls', ran, j, i, calls[j].vals)
      BY <1>13, <3>1
    <3>3. CASE IsMulti(j)
      BY <1>1, <3>1, <3>2, <3>3 DEF ToldOf, Tells, IsMulti
    <3>4. CASE ~IsMulti(j)
      <4>1. calls[j].state = "resolved" => calls'[j] = calls[j]
        <5>1. ~IsMulti(k) => calls[k].state = "pending"
          BY <1>1, <1>2, <1>12 DEF StepInv, StepOf
        <5> QED BY <1>2, <3>4, <5>1
      <4> QED BY <1>1, <3>1, <3>2, <3>4, <4>1 DEF ToldOf, IsMulti, Sent
    <3> QED BY <3>3, <3>4
  <2> QED BY <1>2, <2>1 DEF ToldInv
<1> QED BY <1>1, <1>9, <1>10, <1>11, <1>14, <1>15, <1>16 DEF Known

------------------------------------------------------------------------------
(* The server                                                              *)

\* Commands run one after the other answer no less than what was there before.
LEMMA AnswersRise ==
  ASSUME counter \in Nat, NEW cmds, NEW i \in Nat, NEW j \in Nat, i <= j
  PROVE  counter <= Answer(cmds, i) /\ Answer(cmds, i) <= Answer(cmds, j)
<1> DEFINE Writes(n) == {h \in 1..n : cmds[h].op # "get"}
<1>1. \A n \in Nat : IsFiniteSet(Writes(n))
  <2>1. \A n \in Nat : IsFiniteSet(1..n)
    BY FS_Interval
  <2>2. \A n \in Nat : Writes(n) \subseteq 1..n
    OBVIOUS
  <2> QED BY <2>1, <2>2, FS_Subset
<1>2. Writes(i) \subseteq Writes(j)
  OBVIOUS
<1>3. /\ Cardinality(Writes(i)) \in Nat /\ Cardinality(Writes(j)) \in Nat
      /\ Cardinality(Writes(i)) <= Cardinality(Writes(j))
  BY <1>1, <1>2, FS_Subset, FS_CardinalityType
<1>4. Answer(cmds, i) = counter + Cardinality(Writes(i)) /\ Answer(cmds, j) = counter + Cardinality(Writes(j))
  BY DEF Answer
<1> HIDE DEF Writes
<1> QED BY <1>3, <1>4

\* What the server runs is entered with what it answers.
LEMMA RunAnswers ==
  ASSUME Types, NEW cmds \in Seq(Command), Enters(cmds)
  PROVE  LET m == Len(ran) IN
         /\ m \in Nat /\ DOMAIN ran = 1..m /\ DOMAIN ran' = 1..(m + Len(cmds))
         /\ DOMAIN cmds = 1..Len(cmds) /\ Len(cmds) \in Nat
         /\ Grows(ran, ran') /\ counter <= counter'
         /\ \/ replies' = Append(replies, [type |-> "ok", vals |-> Answers(cmds)])
            \/ replies' = Append(replies, [type |-> "error", vals |-> <<>>])
         /\ Answers(cmds) \in Seq(Nat) /\ Len(Answers(cmds)) = Len(cmds)
         /\ \A i \in 1..Len(cmds) :
              LET e == ran'[m + i] IN
              /\ e.id = cmds[i].id /\ e.call = cmds[i].call /\ e.op = cmds[i].op
              /\ e.val = Answers(cmds)[i] /\ counter <= e.val /\ e.val <= counter'
              /\ \A j \in 1..Len(cmds) : i < j => e.val <= Answers(cmds)[j]
<1> DEFINE m == Len(ran) entry(i) == [id |-> cmds[i].id, call |-> cmds[i].call,
                                      op |-> cmds[i].op, val |-> Answer(cmds, i)]
           entries == [i \in DOMAIN cmds |-> entry(i)]
<1>1. /\ counter \in Nat /\ ran \in Seq(Entry) /\ m \in Nat /\ DOMAIN ran = 1..m
      /\ Len(cmds) \in Nat /\ DOMAIN cmds = 1..Len(cmds) /\ \A i \in 1..Len(cmds) : cmds[i] \in Command
  BY DEF Types
<1>2. \A i \in 0..Len(cmds) : Answer(cmds, i) \in Nat
  BY <1>1, AnswerType
<1>3. /\ Answers(cmds) \in Seq(Nat) /\ Len(Answers(cmds)) = Len(cmds)
      /\ \A i \in 1..Len(cmds) : Answers(cmds)[i] = Answer(cmds, i)
  BY <1>1, <1>2 DEF Answers
<1>4. /\ \/ replies' = Append(replies, [type |-> "ok", vals |-> Answers(cmds)])
         \/ replies' = Append(replies, [type |-> "error", vals |-> <<>>])
      /\ counter' = Answer(cmds, Len(cmds)) /\ ran' = ran \o entries
  BY DEF Enters, Run, RunAndFail, Executes, Reply
<1>5. entries \in Seq(Entry) /\ Len(entries) = Len(cmds)
  <2>1. \A i \in 1..Len(cmds) : entry(i) \in Entry
    BY <1>1, <1>2 DEF Entry, Command
  <2> HIDE DEF entry
  <2> QED BY <1>1, <2>1
<1>6. \A i \in 1..Len(cmds) :
        /\ entries[i].id = cmds[i].id /\ entries[i].call = cmds[i].call
        /\ entries[i].op = cmds[i].op /\ entries[i].val = Answer(cmds, i)
  BY <1>1
<1> HIDE DEF entries
<1>7. /\ DOMAIN ran' = 1..(m + Len(cmds)) /\ Grows(ran, ran')
      /\ \A i \in 1..Len(cmds) : ran'[m + i] = entries[i]
  <2>1. Len(ran \o entries) = m + Len(cmds) /\ ran \o entries \in Seq(Entry)
    BY <1>1, <1>5
  <2>2. \A i \in 1..m : (ran \o entries)[i] = ran[i]
    BY <1>1, <1>5
  <2>3. \A i \in 1..Len(cmds) : (ran \o entries)[m + i] = entries[i]
    BY <1>1, <1>5
  <2> HIDE DEF m
  <2>4. DOMAIN (ran \o entries) = 1..(m + Len(cmds))
    BY <2>1
  <2> QED BY <1>1, <1>4, <2>2, <2>3, <2>4 DEF Grows
<1> HIDE DEF m
<1>8. \A i, j \in 0..Len(cmds) :
        i <= j => counter <= Answer(cmds, i) /\ Answer(cmds, i) <= Answer(cmds, j)
  BY <1>1, AnswersRise
<1>9. counter <= counter'
  BY <1>1, <1>4, <1>8
<1>10. ASSUME NEW i \in 1..Len(cmds)
       PROVE  /\ counter <= Answer(cmds, i) /\ Answer(cmds, i) <= counter'
              /\ \A j \in 1..Len(cmds) : i < j => Answer(cmds, i) <= Answer(cmds, j)
  <2>1. i \in 0..Len(cmds) /\ i <= Len(cmds) /\ Len(cmds) \in 0..Len(cmds)
    BY <1>1
  <2>2. \A j \in 1..Len(cmds) : j \in 0..Len(cmds) /\ (i < j => i <= j)
    BY <1>1
  <2>3. counter <= Answer(cmds, i) /\ Answer(cmds, i) <= Answer(cmds, Len(cmds))
    BY <1>8, <2>1
  <2>4. \A j \in 1..Len(cmds) : i < j => Answer(cmds, i) <= Answer(cmds, j)
    BY <1>8, <2>1, <2>2
  <2> QED BY <1>4, <2>3, <2>4
<1>11. ASSUME NEW i \in 1..Len(cmds)
       PROVE  LET e == ran'[m + i] IN
              /\ e.id = cmds[i].id /\ e.call = cmds[i].call /\ e.op = cmds[i].op
              /\ e.val = Answers(cmds)[i] /\ counter <= e.val /\ e.val <= counter'
              /\ \A j \in 1..Len(cmds) : i < j => e.val <= Answers(cmds)[j]
  <2>1. ran'[m + i] = entries[i] /\ Answers(cmds)[i] = Answer(cmds, i)
    BY <1>3, <1>7
  <2> QED BY <1>3, <1>6, <1>10, <2>1
<1> QED BY <1>1, <1>3, <1>4, <1>7, <1>9, <1>11 DEF m

\* What is run was issued after all that was run, and before what comes.
LEMMA RunsInOrder ==
  ASSUME AnswersInv, Serve, NEW cmds, Runs(Taken, cmds)
  PROVE  /\ cmds \in Seq(Command) /\ Taken \in Command /\ Taken.call \in DOMAIN calls
         /\ Len(replies) + 1 \in DOMAIN sent
         /\ \A j \in DOMAIN cmds : /\ IsSent(calls, cmds[j]) /\ cmds[j].call = Taken.call
                                   /\ cmds[j].id <= Taken.id
                                   /\ \A i \in DOMAIN ran : ran[i].id < cmds[j].id
         /\ \A i, j \in DOMAIN cmds : i < j => cmds[i].id < cmds[j].id
<1> DEFINE c == Taken k == c.call ids == calls[k].ids
<1>1. /\ WholeInv /\ NumberInv /\ PipeInv /\ RunInv /\ c \in Command /\ Len(replies) < Len(sent)
      /\ InLine(c)
  BY ServeCases, ServeNext DEF AnswersInv, Known, WholeInv
<1>2. Len(replies) + 1 \in DOMAIN sent /\ Len(replies) + 1 > Len(replies)
  BY <1>1, Shapes
<1>3. /\ IsSent(calls, c) /\ k \in DOMAIN calls /\ c.id \in Nat
      /\ \A i \in DOMAIN ran : ran[i].id < c.id
  BY <1>1, <1>2 DEF PipeInv, RunInv, IsSent, Taken, Command
<1>4. /\ cmds \in Seq(Command) /\ \A j \in DOMAIN cmds : cmds[j].call = k
      /\ ~IsMulti(k) => cmds = <<c>>
  BY DEF Runs
<1>5. CASE ~IsMulti(k)
  <2>1. \A j \in DOMAIN cmds : j = 1 /\ cmds[j] = c
    BY <1>4, <1>5
  <2> HIDE DEF c
  <2> QED BY <1>1, <1>2, <1>3, <1>4, <2>1 DEF c
<1>6. CASE IsMulti(k)
  <2>1. /\ ids \in Seq(Nat) /\ Len(cmds) = Sent(k) - 2 /\ Sent(k) \in Nat /\ DOMAIN ids = 1..Sent(k)
        /\ \A j \in DOMAIN cmds : cmds[j].id = ids[j + 1]
        /\ \A i \in DOMAIN ran : ran[i].call # k
    BY <1>1, <1>3, <1>6, RunsLast, Shapes
  <2>2. DOMAIN cmds = 1..(Sent(k) - 2)
    BY <1>4, <2>1
  <2>3. /\ c.op = "exec" /\ c.id = ids[Sent(k)] /\ Sent(k) >= 1
        /\ \A i \in DOMAIN ids : ids[i] = ids[1] + i - 1 /\ ids[i] \in Nat
    <3>1. c.op = "exec" /\ ids # <<>> /\ \A i \in DOMAIN ids : ids[i] = ids[1] + i - 1
      BY <1>1, <1>3, <1>6 DEF Runs, InLine, WholeInv, CallInv
    <3>2. c.id = ids[Len(ids)]
      BY <1>1, <1>6, <3>1 DEF InLine
    <3>3. Len(ids) = Sent(k)
      BY DEF Sent
    <3> HIDE DEF ids
    <3>4. \A i \in DOMAIN ids : ids[i] \in Nat
      BY <2>1
    <3>5. Sent(k) >= 1
      BY <2>1, <3>1, <3>3
    <3> QED BY <3>1, <3>2, <3>3, <3>4, <3>5
  <2>4. ASSUME NEW i \in DOMAIN ran
        PROVE  ran[i].id < ids[1]
    <3>1. ran[i].id \in Nat /\ ran[i].id < c.id /\ IsSent(calls, ran[i]) /\ ran[i].call # k
      BY <1>1, <1>3, <2>1, Shapes DEF RunInv
    <3>2. PICK l \in DOMAIN calls : l # k /\ \E h \in DOMAIN calls[l].ids : calls[l].ids[h] = ran[i].id
      BY <3>1 DEF IsSent
    <3>3. \A h \in DOMAIN ids : ids[h] # ran[i].id
      BY <1>1, <1>3, <3>2 DEF NumberInv
    <3> HIDE DEF ids, k, c
    <3>4. SUFFICES ASSUME ran[i].id >= ids[1]
                   PROVE  FALSE
      <4>1. 1 \in DOMAIN ids
        BY <2>1, <2>3
      <4> QED BY <2>3, <3>1, <4>1
    <3>5. 1 \in DOMAIN ids /\ Sent(k) \in DOMAIN ids /\ ids[1] \in Nat
      BY <2>1, <2>3
    <3>6. ids[Sent(k)] = ids[1] + Sent(k) - 1
      BY <2>3, <3>5
    <3>7. ran[i].id - ids[1] + 1 \in 1..Sent(k)
      <4>1. /\ ran[i].id \in Nat /\ ids[1] \in Nat /\ Sent(k) \in Nat
            /\ ran[i].id >= ids[1] /\ ran[i].id < ids[1] + Sent(k) - 1
        BY <2>1, <2>3, <3>1, <3>4, <3>5, <3>6
      <4> QED BY <4>1
    <3>8. ids[ran[i].id - ids[1] + 1] = ran[i].id
      <4>1. ids[ran[i].id - ids[1] + 1] = ids[1] + (ran[i].id - ids[1] + 1) - 1
        BY <2>1, <2>3, <3>7
      <4> QED BY <3>1, <3>5, <4>1
    <3> QED BY <2>1, <3>3, <3>7, <3>8
  <2>5. ASSUME NEW j \in DOMAIN cmds
        PROVE  /\ IsSent(calls, cmds[j]) /\ cmds[j].call = k /\ cmds[j].id <= c.id
               /\ \A i \in DOMAIN ran : ran[i].id < cmds[j].id
    <3>1. cmds[j].call = k /\ cmds[j].id = ids[j + 1]
      BY <1>4, <2>1
    <3>2. j + 1 \in DOMAIN ids /\ j + 1 <= Sent(k) /\ j \in Nat /\ Sent(k) \in DOMAIN ids /\ 1 \in DOMAIN ids
      BY <2>1, <2>2
    <3>3. IsSent(calls, cmds[j])
      BY <1>3, <1>6, <3>1, <3>2 DEF IsSent, IsMulti
    <3> HIDE DEF ids, k, c
    <3>4. /\ ids[j + 1] = ids[1] + (j + 1) - 1 /\ ids[Sent(k)] = ids[1] + Sent(k) - 1 /\ ids[1] \in Nat
      BY <2>3, <3>2
    <3>5. cmds[j].id <= c.id /\ ids[1] <= cmds[j].id
      <4>1. cmds[j].id = ids[1] + j
        BY <3>1, <3>2, <3>4
      <4>2. c.id = ids[1] + Sent(k) - 1
        BY <2>3, <3>4
      <4>3. Sent(k) \in Nat /\ j \in Nat /\ j + 1 <= Sent(k) /\ ids[1] \in Nat
        BY <2>1, <3>2, <3>4
      <4>4. ids[1] + j <= ids[1] + Sent(k) - 1 /\ ids[1] <= ids[1] + j
        BY <4>3
      <4> QED BY <4>1, <4>2, <4>4
    <3>6. \A i \in DOMAIN ran : ran[i].id < cmds[j].id
      <4>1. \A i \in DOMAIN ran : ran[i].id \in Nat
        BY <1>1, Shapes
      <4>2. ids[1] \in Nat /\ cmds[j].id \in Nat
        BY <2>3, <3>1, <3>2, <3>4
      <4> QED BY <2>4, <3>5, <4>1, <4>2
    <3> QED BY <3>1, <3>3, <3>5, <3>6
  <2>6. ASSUME NEW i \in DOMAIN cmds, NEW j \in DOMAIN cmds, i < j
        PROVE  cmds[i].id < cmds[j].id
    <3>1. i + 1 \in DOMAIN ids /\ j + 1 \in DOMAIN ids /\ i + 1 < j + 1
      <4> HIDE DEF ids, k, c
      <4>1. i \in 1..(Sent(k) - 2) /\ j \in 1..(Sent(k) - 2) /\ Sent(k) \in Nat /\ DOMAIN ids = 1..Sent(k)
        BY <2>1, <2>2
      <4> QED BY <2>6, <4>1
    <3>2. ids[i + 1] < ids[j + 1]
      BY <1>1, <1>3, <3>1 DEF NumberInv
    <3>3. cmds[i].id = ids[i + 1] /\ cmds[j].id = ids[j + 1]
      BY <2>1, <2>6
    <3> HIDE DEF ids
    <3> QED BY <3>2, <3>3
  <2> QED BY <1>1, <1>2, <1>3, <1>4, <2>5, <2>6
<1> QED BY <1>5, <1>6

\* What the server answers the command it takes is what it has just run of it.
LEMMA RunsReplied ==
  ASSUME AnswersInv, Serve, NEW cmds, Runs(Taken, cmds), Enters(cmds)
  PROVE  \E r : replies' = Append(replies, r) /\ Replied(calls, ran', Taken, r)
<1> DEFINE m == Len(ran) vals == Answers(cmds) k == Taken.call
<1>1. Types /\ cmds \in Seq(Command) /\ k \in DOMAIN calls /\ Taken \in Command
  BY RunsInOrder DEF AnswersInv, WholeInv
<1>2. /\ m \in Nat /\ DOMAIN ran = 1..m /\ DOMAIN ran' = 1..(m + Len(cmds))
      /\ DOMAIN cmds = 1..Len(cmds) /\ Len(cmds) \in Nat
      /\ vals \in Seq(Nat) /\ Len(vals) = Len(cmds)
      /\ \A i \in 1..Len(cmds) : /\ ran'[m + i].id = cmds[i].id /\ ran'[m + i].call = cmds[i].call
                                 /\ ran'[m + i].val = vals[i]
      /\ \/ replies' = Append(replies, [type |-> "ok", vals |-> vals])
         \/ replies' = Append(replies, [type |-> "error", vals |-> <<>>])
  BY <1>1, RunAnswers
<1> HIDE DEF m, vals
<1>3. \A i \in 1..Len(cmds) : RanTo(ran', cmds[i].call, cmds[i].id, vals[i])
  <2>1. \A i \in 1..Len(cmds) : m + i \in DOMAIN ran'
    BY <1>2
  <2> QED BY <1>2, <2>1 DEF RanTo
<1>4. ASSUME IsMulti(k)
      PROVE  Tells(calls, ran', k, Taken.id, vals)
  <2>1. /\ Len(cmds) = Sent(k) - 2 /\ \A i \in DOMAIN cmds : cmds[i].id = calls[k].ids[i + 1]
        /\ \A i \in DOMAIN cmds : cmds[i].call = k
    BY <1>4, RunsLast DEF AnswersInv, Runs
  <2>2. DOMAIN vals = 1..Len(cmds)
    BY <1>2
  <2>3. TellsAll(calls, ran', k, vals)
    BY <1>2, <1>3, <2>1, <2>2 DEF TellsAll, Sent
  <2> QED BY <1>4, <2>3 DEF Tells, IsMulti
<1>5. ASSUME ~IsMulti(k)
      PROVE  Tells(calls, ran', k, Taken.id, vals)
  <2>1. cmds = <<Taken>>
    BY <1>5 DEF Runs
  <2>2. Len(cmds) = 1 /\ cmds[1] = Taken
    BY <2>1
  <2>3. Len(vals) = 1 /\ vals[1] \in Nat /\ vals = <<vals[1]>>
    <3>1. vals \in Seq(Nat) /\ Len(vals) = 1
      BY <1>2, <2>2
    <3> QED BY <3>1
  <2>4. RanTo(ran', k, Taken.id, vals[1])
    BY <1>3, <2>2
  <2> QED BY <1>5, <2>3, <2>4 DEF Tells, IsMulti
<1>6. Tells(calls, ran', k, Taken.id, vals)
  BY <1>4, <1>5
<1>7. /\ Replied(calls, ran', Taken, [type |-> "ok", vals |-> vals])
      /\ Replied(calls, ran', Taken, [type |-> "error", vals |-> <<>>])
  BY <1>6 DEF Replied
<1> QED BY <1>2, <1>7

\* Nothing is run: the reply says so, or is of a multi that has more to come.
LEMMA NotRunReplied ==
  ASSUME AnswersInv, Serve, RunsNot(Taken)
  PROVE  /\ UNCHANGED <<counter, ran>>
         /\ \E r : replies' = Append(replies, r) /\ Replied(calls, ran, Taken, r)
<1>1. PICK type : RunNothing(type) /\ (type = "error" \/ IsMulti(Taken.call))
  BY DEF RunsNot
<1> DEFINE r == [type |-> type, vals |-> <<>>]
<1>2. UNCHANGED <<counter, ran>> /\ replies' = Append(replies, r)
  BY <1>1 DEF RunNothing, Reply
<1>3. r.type = type /\ r.vals = <<>>
  OBVIOUS
<1>4. Replied(calls, ran, Taken, r)
  <2> HIDE DEF r
  <2>1. CASE type = "error"
    BY <1>3, <2>1 DEF Replied
  <2>2. CASE type # "error"
    BY <1>1, <1>3, <2>2 DEF Replied, Tells, TellsAll, IsMulti
  <2> QED BY <2>1, <2>2
<1> QED BY <1>2, <1>4

\* What the server does with the command it takes.
Served ==
  /\ Grows(ran, ran') /\ counter <= counter'
  /\ \E r : replies' = Append(replies, r) /\ Replied(calls, ran', Taken, r)
  /\ \A i \in DOMAIN ran' : /\ IsSent(calls, ran'[i]) /\ ran'[i].val <= counter'
                            /\ ran'[i].id <= Taken.id
  /\ \A i, j \in DOMAIN ran' : i < j => ran'[i].id < ran'[j].id /\ ran'[i].val <= ran'[j].val

\* Whatever the server does with the command it takes, the reply tells what was run.
LEMMA ServeOutcome ==
  ASSUME AnswersInv, Serve
  PROVE  Served
<1> DEFINE c == Taken m == Len(ran)
<1>1. /\ WholeInv /\ PipeInv /\ RunInv /\ Types /\ c \in Command
      /\ Len(replies) + 1 \in DOMAIN sent /\ c = sent[Len(replies) + 1]
      /\ Len(replies) + 1 > Len(replies)
  <2>1. Len(replies) < Len(sent) /\ c \in Command
    BY ServeCases DEF AnswersInv, WholeInv
  <2> QED BY <2>1, Shapes DEF AnswersInv, Known, WholeInv, Taken
<1>2. /\ m \in Nat /\ DOMAIN ran = 1..m /\ c.id \in Nat /\ counter \in Nat
      /\ \A i \in DOMAIN ran : ran[i].id \in Nat /\ ran[i].val \in Nat
  BY <1>1, Shapes DEF Command
<1>3. /\ \A i \in DOMAIN ran : /\ IsSent(calls, ran[i]) /\ ran[i].val <= counter
                               /\ ran[i].id < c.id
      /\ \A i, j \in DOMAIN ran : i < j => ran[i].id < ran[j].id /\ ran[i].val <= ran[j].val
  BY <1>1 DEF RunInv
<1> HIDE DEF c, m
<1>4. CASE RunsNot(Taken)
  <2>1. UNCHANGED <<counter, ran>> /\ \E r : replies' = Append(replies, r) /\ Replied(calls, ran, Taken, r)
    BY <1>4, NotRunReplied
  <2>2. Grows(ran, ran') /\ counter <= counter'
    BY <1>2, <2>1 DEF Grows
  <2>3. \A i \in DOMAIN ran' : /\ IsSent(calls, ran'[i]) /\ ran'[i].val <= counter'
                               /\ ran'[i].id <= Taken.id
    BY <1>2, <1>3, <2>1 DEF c
  <2> QED BY <1>3, <2>1, <2>2, <2>3 DEF Served
<1>5. ASSUME NEW cmds, Runs(Taken, cmds), Enters(cmds)
      PROVE  Served
  <2> DEFINE vals == Answers(cmds)
  <2>1. /\ cmds \in Seq(Command)
        /\ \A j \in DOMAIN cmds : /\ IsSent(calls, cmds[j]) /\ cmds[j].id <= Taken.id
                                  /\ \A i \in DOMAIN ran : ran[i].id < cmds[j].id
        /\ \A i, j \in DOMAIN cmds : i < j => cmds[i].id < cmds[j].id
    BY <1>5, RunsInOrder
  <2>2. /\ DOMAIN ran' = 1..(m + Len(cmds)) /\ DOMAIN cmds = 1..Len(cmds) /\ Len(cmds) \in Nat
        /\ Grows(ran, ran') /\ counter <= counter'
        /\ \A i \in 1..Len(cmds) :
             LET e == ran'[m + i] IN
             /\ e.id = cmds[i].id /\ e.call = cmds[i].call /\ e.op = cmds[i].op
             /\ e.val = vals[i] /\ counter <= e.val /\ e.val <= counter'
             /\ \A j \in 1..Len(cmds) : i < j => e.val <= vals[j]
    BY <1>1, <1>5, <2>1, RunAnswers DEF m
  <2>3. \A i \in 1..Len(cmds) : vals[i] \in Nat
    <3>1. vals \in Seq(Nat) /\ Len(vals) = Len(cmds)
      BY <1>1, <1>5, <2>1, RunAnswers
    <3> HIDE DEF vals
    <3> QED BY <3>1
  <2>4. counter' \in Nat
    BY <1>1, <1>5, <2>1, RunEntries
  <2>5. \E r : replies' = Append(replies, r) /\ Replied(calls, ran', Taken, r)
    BY <1>5, RunsReplied
  <2> HIDE DEF vals
  <2>7. ASSUME NEW i \in DOMAIN ran'
        PROVE  (i \in DOMAIN ran /\ ran'[i] = ran[i]) \/ \E j \in 1..Len(cmds) : i = m + j
    <3>1. CASE i \in 1..m
      BY <1>2, <2>2, <3>1 DEF Grows
    <3>2. CASE i \notin 1..m
      <4>1. i - m \in 1..Len(cmds) /\ i = m + (i - m)
        BY <1>2, <2>2, <3>2
      <4> QED BY <4>1
    <3> QED BY <3>1, <3>2
  <2>8. ASSUME NEW i \in DOMAIN ran'
        PROVE  IsSent(calls, ran'[i]) /\ ran'[i].val <= counter' /\ ran'[i].id <= Taken.id
    <3>1. CASE i \in DOMAIN ran /\ ran'[i] = ran[i]
      BY <1>2, <1>3, <2>2, <2>4, <3>1 DEF c
    <3>2. ASSUME NEW j \in 1..Len(cmds), i = m + j
          PROVE  IsSent(calls, ran'[i]) /\ ran'[i].val <= counter' /\ ran'[i].id <= Taken.id
      <4>1. /\ ran'[i].id = cmds[j].id /\ ran'[i].call = cmds[j].call /\ ran'[i].op = cmds[j].op
            /\ ran'[i].val <= counter'
        BY <2>2, <3>2
      <4>2. IsSent(calls, ran'[i])
        BY <2>1, <2>2, <4>1 DEF IsSent
      <4> QED BY <2>1, <2>2, <4>1, <4>2
    <3> QED BY <2>7, <3>1, <3>2
  <2>9. ASSUME NEW i \in DOMAIN ran', NEW j \in DOMAIN ran', i < j
        PROVE  ran'[i].id < ran'[j].id /\ ran'[i].val <= ran'[j].val
    <3>1. CASE i \in DOMAIN ran /\ ran'[i] = ran[i] /\ j \in DOMAIN ran /\ ran'[j] = ran[j]
      BY <1>3, <2>9, <3>1
    <3>2. ASSUME NEW h \in 1..Len(cmds), j = m + h, i \in DOMAIN ran, ran'[i] = ran[i]
          PROVE  ran'[i].id < ran'[j].id /\ ran'[i].val <= ran'[j].val
      <4>1. ran'[j].id = cmds[h].id /\ counter <= ran'[j].val /\ ran'[j].val = vals[h]
        BY <2>2, <3>2
      <4>2. ran[i].id < cmds[h].id /\ ran[i].val <= counter /\ ran[i].val \in Nat
        BY <1>2, <1>3, <2>1, <2>2, <3>2
      <4> QED BY <1>2, <2>3, <3>2, <4>1, <4>2
    <3>3. ASSUME NEW g \in 1..Len(cmds), i = m + g, NEW h \in 1..Len(cmds), j = m + h
          PROVE  ran'[i].id < ran'[j].id /\ ran'[i].val <= ran'[j].val
      <4>1. g < h
        BY <1>2, <2>9, <3>3
      <4>2. ran'[i].id = cmds[g].id /\ ran'[j].id = cmds[h].id /\ cmds[g].id < cmds[h].id
        BY <2>1, <2>2, <3>3, <4>1
      <4>3. ran'[i].val <= vals[h] /\ ran'[j].val = vals[h]
        BY <2>2, <3>3, <4>1
      <4> QED BY <4>2, <4>3
    <3>4. ~(j \in DOMAIN ran /\ \E g \in 1..Len(cmds) : i = m + g)
      BY <1>2, <2>2, <2>9
    <3> QED BY <2>7, <3>1, <3>2, <3>3, <3>4
  <2> QED BY <2>2, <2>5, <2>8, <2>9 DEF Served
<1> QED BY <1>1, <1>4, <1>5, ServeKeepsServer

\* What the server answers tells what it has run, and what was told stays true.
LEMMA ServeTells ==
  ASSUME AnswersInv, Serve, WholeInv'
  PROVE  Known' /\ StepInv' /\ ToldInv'
<1> DEFINE c == Taken m == Len(replies)
<1>1. /\ WholeInv /\ Known /\ NumberInv /\ PipeInv /\ RunInv /\ AnswerInv /\ StepInv /\ ToldInv
      /\ UNCHANGED <<sent, waiting, promise, calls, turn, value>>
  BY DEF AnswersInv, Known, Serve, pipe, client
<1>2. /\ c \in Command /\ m \in Nat /\ m + 1 \in DOMAIN sent /\ c = sent[m + 1]
      /\ DOMAIN replies = 1..m /\ replies \in Seq(ReplyRecord)
  <2>1. Len(replies) < Len(sent) /\ c \in Command
    BY <1>1, ServeCases DEF WholeInv
  <2> QED BY <1>1, <2>1, Shapes DEF Taken, WholeInv, Types
<1>3. cached' \in BOOLEAN
  <2>1. cached \in BOOLEAN
    BY <1>1 DEF Known
  <2>2. UNCHANGED cached \/ \E d : cached' = (cached \/ d.op = "eval")
    BY DEF Serve, ServeExec, ServeQueued, ServeAtOnce
  <2> QED BY <2>1, <2>2, Zenon
<1>4. Served
  BY ServeOutcome
<1>5. PICK r : replies' = Append(replies, r) /\ Replied(calls, ran', c, r)
  BY <1>4 DEF Served
<1>6. /\ DOMAIN replies' = 1..(m + 1) /\ replies'[m + 1] = r /\ Len(replies') = m + 1
      /\ \A i \in 1..m : replies'[i] = replies[i]
  BY <1>2, <1>5
<1> HIDE DEF c, m
<1>7. /\ IsSent(calls, c) /\ promise[c.id] = "pending" /\ c.id \in Nat
      /\ \A i \in 1..m : sent[i].id < c.id
      /\ \A j \in DOMAIN sent : j > m + 1 => c.id < sent[j].id
      /\ \A j \in DOMAIN waiting : c.id < waiting[j].id
  <2>1. \A i \in 1..m : i \in DOMAIN sent /\ i < m + 1
    BY <1>1, <1>2, Shapes
  <2>2. \A j \in DOMAIN sent : j > m + 1 => m + 1 < j
    BY <1>1, <1>2, Shapes
  <2>3. c.id \in Nat
    BY <1>2 DEF Command
  <2> QED BY <1>1, <1>2, <2>1, <2>2, <2>3 DEF PipeInv
<1>8. NumberInv' /\ PipeInv'
  BY <1>1 DEF NumberInv, PipeInv
<1>9. RunInv'
  <2>1. \A i \in DOMAIN ran' : ran'[i].id \in Nat /\ ran'[i].id <= c.id
    <3>1. \A i \in DOMAIN ran' : ran'[i].id <= c.id
      BY <1>4 DEF Served, c
    <3>2. ran' \in Seq(Entry)
      BY DEF WholeInv, Types
    <3>3. \A i \in DOMAIN ran' : ran'[i] \in Entry
      BY <3>2
    <3> QED BY <3>1, <3>3 DEF Entry
  <2>2. ASSUME NEW i \in DOMAIN ran', NEW j \in DOMAIN sent, j > Len(replies')
        PROVE  ran'[i].id < sent[j].id
    <3>1. ran'[i].id \in Nat /\ ran'[i].id <= c.id /\ c.id < sent[j].id /\ sent[j].id \in Nat
      BY <1>1, <1>6, <1>7, <2>1, <2>2, Shapes
    <3> QED BY <1>7, <3>1
  <2>3. ASSUME NEW i \in DOMAIN ran', NEW j \in DOMAIN waiting
        PROVE  ran'[i].id < waiting[j].id
    <3>1. ran'[i].id \in Nat /\ ran'[i].id <= c.id /\ c.id < waiting[j].id /\ waiting[j].id \in Nat
      BY <1>1, <1>7, <2>1, Shapes
    <3> QED BY <1>7, <3>1
  <2> QED BY <1>1, <1>4, <2>2, <2>3 DEF RunInv, Served
<1>10. Grows(ran, ran')
  BY <1>4 DEF Served
<1>11. AnswerInv'
  <2>1. ASSUME NEW i \in 1..m
        PROVE  Replied(calls, ran', sent[i], replies[i])
    <3> DEFINE k == sent[i].call n == sent[i].id
    <3>1. Replied(calls, ran, sent[i], replies[i]) /\ n < c.id /\ n \in Nat
      <4>1. i \in DOMAIN sent
        BY <1>1, <1>2, Shapes DEF m
      <4> QED BY <1>1, <1>2, <1>7, <4>1, Shapes DEF AnswerInv
    <3>2. \A vals : Tells(calls, ran, k, n, vals) => Tells(calls, ran', k, n, vals)
      BY <1>10, TellsStays
    <3> QED BY <3>1, <3>2 DEF Replied
  <2>2. ASSUME NEW i \in DOMAIN replies'
        PROVE  Replied(calls, ran', sent[i], replies'[i])
    <3>1. CASE i \in 1..m
      BY <1>6, <2>1, <3>1
    <3>2. CASE i = m + 1
      BY <1>2, <1>5, <1>6, <3>2
    <3> QED BY <1>2, <1>6, <2>2, <3>1, <3>2
  <2>3. ASSUME NEW k \in DOMAIN calls, NEW i \in DOMAIN calls[k].ids
        PROVE  LET n == calls[k].ids[i] IN
               Settles(calls, ran', promise[n], value[n], k, n)
    <3> DEFINE n == calls[k].ids[i]
    <3>1. Settles(calls, ran, promise[n], value[n], k, n)
      BY <1>1 DEF AnswerInv
    <3> HIDE DEF n
    <3>2. Settles(calls, ran', promise[n], value[n], k, n)
      BY <1>10, <3>1, SettlesStays
    <3> QED BY <3>2 DEF n
  <2> QED BY <1>1, <2>2, <2>3 DEF AnswerInv
<1>12. StepInv' /\ ToldInv'
  BY <1>1, <1>10, SameSteps
<1> QED BY <1>3, <1>8, <1>9, <1>11, <1>12 DEF Known

------------------------------------------------------------------------------
(* The theorems                                                            *)

\* The invariant holds of the initial state.
LEMMA AnswersInit ==
  ASSUME Init
  PROVE  AnswersInv
<1>1. /\ sent = <<>> /\ waiting = <<>> /\ promise = <<>> /\ calls = <<>>
      /\ replies = <<>> /\ ran = <<>> /\ cached = FALSE
  BY DEF Init, Pipe!Init
<1>2. Known
  <2>1. DOMAIN sent = {} /\ DOMAIN waiting = {} /\ DOMAIN calls = {} /\ DOMAIN ran = {} /\ DOMAIN replies = {}
    BY <1>1
  <2>2. cached \in BOOLEAN
    BY <1>1
  <2>3. NumberInv /\ PipeInv
    BY <2>1, Zenon DEF NumberInv, PipeInv
  <2>4. RunInv
    BY <2>1, Zenon DEF RunInv
  <2>5. AnswerInv
    BY <2>1, Zenon DEF AnswerInv
  <2> QED BY <2>2, <2>3, <2>4, <2>5 DEF Known
<1>3. StepInv /\ ToldInv
  BY <1>1 DEF StepInv, ToldInv
<1> QED BY <1>2, <1>3, WholeInit DEF AnswersInv

\* Every step keeps it.
LEMMA AnswersStep ==
  ASSUME AnswersInv, [Next]_vars
  PROVE  AnswersInv'
<1>1. WholeInv /\ WholeInv'
  BY WholeStep, WholeStutter DEF AnswersInv
<1>2. CASE NewCall
  BY <1>1, <1>2, NewCallTells DEF AnswersInv
<1>3. ASSUME NEW k \in DOMAIN calls, Queue(k) \/ Exec(k)
      PROVE  AnswersInv'
  BY <1>1, <1>3, MultiTells DEF AnswersInv
<1>4. CASE SendNext
  BY <1>1, <1>4, SendTells DEF AnswersInv
<1>5. CASE Replay
  BY <1>1, <1>5, ReplayTells DEF AnswersInv
<1>6. CASE Deliver
  BY <1>1, <1>6, DeliverTells DEF AnswersInv
<1>7. ASSUME NEW k \in DOMAIN calls, React(k)
      PROVE  AnswersInv'
  BY <1>1, <1>7, ReactTells DEF AnswersInv
<1>8. CASE Lose
  BY <1>1, <1>8, LoseTells DEF AnswersInv
<1>9. CASE Serve
  BY <1>1, <1>9, ServeTells DEF AnswersInv
<1>10. CASE BecomeReady \/ OtherWrites \/ UNCHANGED vars
  BY <1>1, <1>10, OthersTell DEF AnswersInv
<1> QED
  BY <1>2, <1>3, <1>4, <1>5, <1>6, <1>7, <1>8, <1>9, <1>10 DEF Next, User, EventLoop

\* The replies a transaction hands out are for its queued commands, all but the last.
LEMMA GivenPlaces ==
  ASSUME NEW vals \in Seq(Nat), NEW n \in Nat, vals # <<>> => Len(vals) = n - 2
  PROVE  /\ vals # <<>> => {g.at : g \in Given(vals)} = 2..(n - 2)
         /\ \A g \in Given(vals) : /\ g.at \in 2..(n - 2) /\ g.at - 1 \in DOMAIN vals
                                   /\ g.val = vals[g.at - 1]
<1> DEFINE l == Len(vals)
<1>1. l \in Nat /\ DOMAIN vals = 1..l /\ (vals = <<>> <=> l = 0)
  OBVIOUS
<1> HIDE DEF l
<1>2. \A g \in Given(vals) : \E i \in 1..(l - 1) : g.at = i + 1 /\ g.val = vals[i]
  <2> SUFFICES ASSUME NEW g \in Given(vals)
               PROVE  \E i \in 1..(l - 1) : g.at = i + 1 /\ g.val = vals[i]
    OBVIOUS
  <2>1. PICK i \in 1..(l - 1) : g = [at |-> i + 1, val |-> vals[i]]
    BY DEF Given, l
  <2> QED BY <2>1
<1>3. \A i \in 1..(l - 1) : \E g \in Given(vals) : g.at = i + 1
  <2> SUFFICES ASSUME NEW i \in 1..(l - 1)
               PROVE  \E g \in Given(vals) : g.at = i + 1
    OBVIOUS
  <2>1. [at |-> i + 1, val |-> vals[i]] \in Given(vals)
    BY DEF Given, l
  <2> QED BY <2>1
<1>4. l # 0 => l = n - 2
  BY <1>1 DEF l
<1>5. ASSUME NEW g \in Given(vals)
      PROVE  g.at \in 2..(n - 2) /\ g.at - 1 \in DOMAIN vals /\ g.val = vals[g.at - 1]
  <2>1. PICK i \in 1..(l - 1) : g.at = i + 1 /\ g.val = vals[i]
    BY <1>2
  <2>2. g.at - 1 = i /\ g.at \in 2..(n - 2) /\ i \in 1..l
    BY <1>1, <1>4, <2>1
  <2> QED BY <1>1, <2>1, <2>2
<1>6. ASSUME vals # <<>>, NEW at \in 2..(n - 2)
      PROVE  \E g \in Given(vals) : g.at = at
  <2>1. at - 1 \in 1..(l - 1) /\ (at - 1) + 1 = at
    BY <1>1, <1>4, <1>6
  <2>2. PICK g \in Given(vals) : g.at = (at - 1) + 1
    BY <1>3, <2>1
  <2> QED BY <2>1, <2>2
<1> QED BY <1>5, <1>6

\* A command of call k that was run stands at a place of the call.
LEMMA RanPlace ==
  ASSUME AnswersInv, NEW k \in DOMAIN calls, ~IsMulti(k), NEW i \in DOMAIN ran, ran[i].call = k
  PROVE  /\ Sent(k) \in Nat /\ Sent(k) <= 2 /\ calls[k].kind \in {"incr", "eval"}
         /\ \E n \in {1, 2} : /\ n <= Sent(k) /\ ran[i].id = calls[k].ids[n]
                              /\ ran[i].op = OpAt(calls[k].kind, n)
<1>1. /\ WholeInv /\ RunInv /\ StepInv
  BY DEF AnswersInv, Known
<1>2. /\ Sent(k) \in Nat /\ calls[k].kind \in {"multi", "incr", "eval"}
      /\ DOMAIN calls[k].ids = 1..Sent(k)
  BY <1>1, Shapes
<1>3. Sent(k) <= 2
  BY <1>1 DEF StepInv, StepOf
<1>4. PICK n \in DOMAIN calls[k].ids : /\ ran[i].id = calls[k].ids[n]
                                       /\ ran[i].op = OpAt(calls[k].kind, n)
  BY <1>1 DEF RunInv, IsSent, IsMulti
<1>5. n \in {1, 2} /\ n <= Sent(k)
  BY <1>2, <1>3
<1> QED BY <1>2, <1>3, <1>4, <1>5 DEF IsMulti


\* TypeOK: types of the pipe, the client and the server, and of a transaction
\* only the commands between MULTI and EXEC are handed a reply.
LEMMA AnswersTyped ==
  ASSUME AnswersInv
  PROVE  TypeOK
<1>1. WholeInv /\ Types /\ PipeInv /\ ToldInv /\ cached \in BOOLEAN
  BY DEF AnswersInv, Known, WholeInv
<1>2. ASSUME NEW i \in DOMAIN sent
      PROVE  sent[i] \in [id : 1..Len(promise), call : DOMAIN calls, op : Ops]
  <2>1. IsSent(calls, sent[i])
    BY <1>1 DEF PipeInv
  <2>2. sent[i].call \in DOMAIN calls /\ sent[i].id \in 1..Len(promise)
    BY <1>1, <2>1, Shapes DEF IsSent
  <2>3. sent[i] \in [id : Nat, call : Nat, op : Ops]
    <3>1. sent \in Seq(Command)
      BY <1>1 DEF Types
    <3>2. sent[i] \in Command
      BY <1>2, <3>1
    <3> QED BY <3>2 DEF Command
  <2> QED BY <2>2, <2>3
<1>3. ASSUME NEW i \in DOMAIN waiting
      PROVE  waiting[i].id \in 1..Len(promise)
  <2>1. IsSent(calls, waiting[i])
    BY <1>1 DEF PipeInv
  <2> QED BY <1>1, <2>1, Shapes DEF IsSent
<1>4. ASSUME NEW k \in DOMAIN calls, NEW g \in calls[k].given
      PROVE  g.at \in 2..(Sent(k) - 1)
  <2>1. CASE IsMulti(k)
    <3> DEFINE vals == calls[k].vals
    <3>1. /\ calls[k].given = Given(vals) /\ vals \in Seq(Nat) /\ Sent(k) \in Nat
          /\ vals # <<>> => Len(vals) = Sent(k) - 2
      BY <1>1, <2>1, Shapes DEF ToldInv, ToldOf, TellsAll, Sent
    <3> HIDE DEF vals
    <3>2. g.at \in 2..(Sent(k) - 2)
      BY <1>4, <3>1, GivenPlaces
    <3> QED BY <3>1, <3>2
  <2>2. CASE ~IsMulti(k)
    BY <1>1, <1>4, <2>2 DEF ToldInv, ToldOf
  <2> QED BY <2>1, <2>2
<1>5. /\ promise \in Seq({"pending", "resolved", "rejected"}) /\ counter \in Nat
      /\ Len(value) = Len(promise) /\ Len(replies) <= Len(sent) /\ ready \in BOOLEAN
  BY <1>1, Shapes DEF Types, Status
<1>6. ASSUME NEW k \in DOMAIN calls
      PROVE  /\ calls[k].kind \in {"multi", "incr", "eval"}
             /\ calls[k].state \in {"open", "pending", "resolved", "rejected"}
  BY <1>1, Shapes DEF CallRecord, Status
<1> QED BY <1>1, <1>2, <1>3, <1>4, <1>5, <1>6 DEF TypeOK

\* The replies of a transaction are those of the commands at their places.
LEMMA AnswersOwn ==
  ASSUME AnswersInv
  PROVE  OwnReplies
<1>1. SUFFICES ASSUME NEW k \in DOMAIN calls, IsMulti(k)
               PROVE  \A g \in calls[k].given : \E i \in DOMAIN ran :
                        ran[i].id = calls[k].ids[g.at] /\ ran[i].val = g.val
  BY DEF OwnReplies, Calls, IsMulti
<1> DEFINE vals == calls[k].vals
<1>2. /\ calls[k].given = Given(vals) /\ vals \in Seq(Nat) /\ Sent(k) \in Nat
      /\ TellsAll(calls, ran, k, vals)
  BY <1>1, Shapes DEF AnswersInv, ToldInv, ToldOf
<1> HIDE DEF vals
<1>3. /\ vals # <<>> => Len(vals) = Sent(k) - 2
      /\ \A i \in DOMAIN vals : RanTo(ran, k, calls[k].ids[i + 1], vals[i])
  <2>1. CASE vals = <<>>
    BY <2>1
  <2>2. CASE vals # <<>>
    BY <1>2, <2>2 DEF TellsAll, Sent
  <2> QED BY <2>1, <2>2
<1>4. \A g \in Given(vals) : /\ g.at \in 2..(Sent(k) - 2) /\ g.at - 1 \in DOMAIN vals
                             /\ g.val = vals[g.at - 1]
  BY <1>2, <1>3, GivenPlaces
<1>5. ASSUME NEW g \in Given(vals)
      PROVE  \E i \in DOMAIN ran : ran[i].id = calls[k].ids[g.at] /\ ran[i].val = g.val
  <2>1. /\ g.at - 1 \in DOMAIN vals /\ (g.at - 1) + 1 = g.at /\ g.val = vals[g.at - 1]
    BY <1>4
  <2>2. RanTo(ran, k, calls[k].ids[(g.at - 1) + 1], vals[g.at - 1])
    BY <1>3, <2>1
  <2> QED BY <2>1, <2>2 DEF RanTo
<1> QED BY <1>2, <1>4, <1>5 DEF vals

\* Of what was run, a later number stands at a later place.
LEMMA RanOrder ==
  ASSUME AnswersInv, NEW i \in DOMAIN ran, NEW j \in DOMAIN ran
  PROVE  /\ ran[i].id = ran[j].id => i = j
         /\ ran[i].id <= ran[j].id => i <= j /\ ran[i].val <= ran[j].val
<1>1. /\ i \in Nat /\ j \in Nat /\ ran[i].id \in Nat /\ ran[j].id \in Nat
      /\ ran[i].val \in Nat /\ ran[j].val \in Nat
  BY Shapes DEF AnswersInv
<1>2. /\ i < j => ran[i].id < ran[j].id /\ ran[i].val <= ran[j].val
      /\ j < i => ran[j].id < ran[i].id
  BY DEF AnswersInv, Known, RunInv
<1> QED BY <1>1, <1>2

\* A call of one or two commands has numbered the second after the first.
LEMMA TwoNumbers ==
  ASSUME AnswersInv, NEW k \in DOMAIN calls, Sent(k) = 2
  PROVE  calls[k].ids[1] \in Nat /\ calls[k].ids[2] \in Nat /\ calls[k].ids[1] < calls[k].ids[2]
<1>1. /\ DOMAIN calls[k].ids = 1..Sent(k) /\ \A i \in 1..Sent(k) : calls[k].ids[i] \in 1..Len(promise)
      /\ Len(promise) \in Nat
  BY Shapes DEF AnswersInv
<1>2. 1 \in DOMAIN calls[k].ids /\ 2 \in DOMAIN calls[k].ids /\ 1 < 2
  BY <1>1
<1>3. calls[k].ids[1] < calls[k].ids[2]
  BY <1>2 DEF AnswersInv, Known, NumberInv
<1> QED BY <1>1, <1>2, <1>3

\* A call of incr has one increment run at the most, and reads it or a later value.
LEMMA AnswersCount ==
  ASSUME AnswersInv
  PROVE  IncrCountsOwn
<1>1. SUFFICES ASSUME NEW k \in DOMAIN calls, calls[k].kind = "incr"
               PROVE  LET own == {i \in Ran(k) : ran[i].op = "incr"} IN
                      /\ \A i, j \in own : i = j
                      /\ calls[k].state = "resolved" =>
                           \E i \in own : \E v \in ToSet(calls[k].vals) : v >= ran[i].val
  BY DEF IncrCountsOwn, Calls
<1> DEFINE own == {i \in Ran(k) : ran[i].op = "incr"} ids == calls[k].ids
<1>2. ~IsMulti(k) /\ WholeInv /\ StepInv /\ ToldInv
  BY <1>1 DEF IsMulti, AnswersInv
<1>3. \A i \in own : i \in DOMAIN ran /\ ran[i].call = k /\ ran[i].op = "incr"
  BY DEF Ran
<1>4. ASSUME NEW i \in own
      PROVE  ran[i].id = ids[1]
  <2>1. PICK n \in {1, 2} : n <= Sent(k) /\ ran[i].id = ids[n] /\ ran[i].op = OpAt("incr", n)
    BY <1>1, <1>2, <1>3, <1>4, RanPlace
  <2>2. n = 1
    BY <1>3, <1>4, <2>1 DEF OpAt
  <2> QED BY <2>1, <2>2
<1>5. \A i, j \in own : i = j
  BY <1>3, <1>4, RanOrder
<1>6. ASSUME calls[k].state = "resolved"
      PROVE  \E i \in own : \E v \in ToSet(calls[k].vals) : v >= ran[i].val
  <2>1. Sent(k) = 2 /\ Tells(calls, ran, k, ids[2], calls[k].vals)
    BY <1>1, <1>2, <1>6 DEF ToldInv, ToldOf
  <2>2. HasRun(ran, k, ids[1])
    BY <1>1, <1>2, <2>1 DEF StepInv, StepOf, Goes
  <2>3. PICK i \in DOMAIN ran : ran[i].call = k /\ ran[i].id = ids[1]
    BY <2>2 DEF HasRun
  <2>4. PICK v \in Nat : calls[k].vals = <<v>> /\ RanTo(ran, k, ids[2], v)
    BY <1>1, <2>1 DEF Tells
  <2>5. PICK j \in DOMAIN ran : ran[j].call = k /\ ran[j].id = ids[2] /\ ran[j].val = v
    BY <2>4 DEF RanTo
  <2>6. ids[1] \in Nat /\ ids[2] \in Nat /\ ids[1] < ids[2]
    BY <2>1, TwoNumbers
  <2>7. ran[i].val <= v
    <3>1. ran[i].id <= ran[j].id
      BY <2>3, <2>5, <2>6
    <3> QED BY <2>5, <3>1, RanOrder
  <2>8. ran[i].op = "incr"
    <3>1. PICK n \in {1, 2} : ran[i].id = ids[n] /\ ran[i].op = OpAt("incr", n)
      BY <1>1, <1>2, <2>3, RanPlace
    <3>2. n = 1
      BY <2>3, <2>6, <3>1
    <3> QED BY <3>1, <3>2 DEF OpAt
  <2>9. i \in own
    BY <2>3, <2>8 DEF Ran
  <2>10. v \in ToSet(calls[k].vals)
    <3>1. v \in ToSet(<<v>>)
      <4>1. 1 \in DOMAIN <<v>> /\ <<v>>[1] = v
        OBVIOUS
      <4> QED BY <4>1 DEF ToSet
    <3> QED BY <2>4, <3>1
  <2>11. v >= ran[i].val
    <3>1. ran[i].val \in Nat
      BY <1>2, Shapes
    <3> QED BY <2>7, <3>1
  <2> QED BY <2>9, <2>10, <2>11
<1> QED BY <1>5, <1>6

\* A script that has run twice was first run by EVALSHA, which was rejected.
LEMMA AnswersOnce ==
  ASSUME AnswersInv
  PROVE  EvalOnceUnlessRejected
<1>1. SUFFICES ASSUME NEW k \in DOMAIN calls, calls[k].kind = "eval"
               PROVE  /\ \A i, j \in Ran(k) :
                           i # j => P(k, 1) = "rejected" /\ Ran(k) = {i, j}
                      /\ calls[k].state = "resolved" =>
                           \E i \in Ran(k) : calls[k].vals = <<ran[i].val>> /\ \A j \in Ran(k) : j <= i
  BY DEF EvalOnceUnlessRejected, Calls
<1> DEFINE ids == calls[k].ids
<1>2. ~IsMulti(k) /\ WholeInv /\ StepInv /\ ToldInv
  BY <1>1 DEF IsMulti, AnswersInv
<1>3. \A i \in Ran(k) : i \in DOMAIN ran /\ ran[i].call = k
  BY DEF Ran
<1>4. \A i \in Ran(k) : /\ Sent(k) \in Nat /\ Sent(k) <= 2
                        /\ \E n \in {1, 2} : n <= Sent(k) /\ ran[i].id = ids[n]
  BY <1>2, <1>3, RanPlace
<1>5. ASSUME NEW i \in Ran(k), NEW j \in Ran(k), i # j
      PROVE  P(k, 1) = "rejected" /\ Ran(k) = {i, j}
  <2>1. PICK m \in {1, 2} : m <= Sent(k) /\ ran[i].id = ids[m]
    BY <1>4
  <2>2. PICK n \in {1, 2} : n <= Sent(k) /\ ran[j].id = ids[n]
    BY <1>4
  <2>3. m # n
    BY <1>3, <1>5, <2>1, <2>2, RanOrder
  <2>4. Sent(k) = 2 /\ {m, n} = {1, 2}
    BY <1>4, <2>1, <2>2, <2>3
  <2>5. HasRun(ran, k, ids[1])
    <3>1. CASE m = 1
      BY <1>3, <2>1, <3>1 DEF HasRun
    <3>2. CASE n = 1
      BY <1>3, <2>2, <3>2 DEF HasRun
    <3> QED BY <2>4, <3>1, <3>2
  <2>6. P(k, 1) = "rejected"
    BY <1>1, <1>2, <2>4, <2>5 DEF StepInv, StepOf, Goes
  <2>7. ASSUME NEW h \in Ran(k)
        PROVE  h \in {i, j}
    <3>1. PICK l \in {m, n} : ran[h].id = ids[l]
      BY <1>4, <2>4
    <3>2. ran[h].id = ran[i].id \/ ran[h].id = ran[j].id
      BY <2>1, <2>2, <3>1
    <3> QED BY <1>3, <3>2, RanOrder
  <2>8. Ran(k) = {i, j}
    BY <2>7
  <2> QED BY <2>6, <2>8
<1>6. ASSUME calls[k].state = "resolved"
      PROVE  \E i \in Ran(k) : calls[k].vals = <<ran[i].val>> /\ \A j \in Ran(k) : j <= i
  <2>1. Sent(k) \in {1, 2} /\ Tells(calls, ran, k, ids[Sent(k)], calls[k].vals)
    BY <1>1, <1>2, <1>6 DEF ToldInv, ToldOf
  <2>2. PICK v \in Nat : calls[k].vals = <<v>> /\ RanTo(ran, k, ids[Sent(k)], v)
    BY <1>1, <2>1 DEF Tells
  <2>3. PICK i \in DOMAIN ran : ran[i].call = k /\ ran[i].id = ids[Sent(k)] /\ ran[i].val = v
    BY <2>2 DEF RanTo
  <2>4. i \in Ran(k) /\ calls[k].vals = <<ran[i].val>>
    BY <2>2, <2>3 DEF Ran
  <2>5. ASSUME NEW j \in Ran(k)
        PROVE  j <= i
    <3>1. PICK n \in {1, 2} : n <= Sent(k) /\ ran[j].id = ids[n]
      BY <1>4
    <3>2. ids[n] <= ids[Sent(k)]
      <4>1. CASE n = Sent(k)
        <5>1. ran[j].id \in Nat
          BY <1>2, <1>3, Shapes
        <5> QED BY <3>1, <4>1, <5>1
      <4>2. CASE n # Sent(k)
        <5>1. n = 1 /\ Sent(k) = 2
          BY <2>1, <3>1, <4>2
        <5>2. ids[1] \in Nat /\ ids[2] \in Nat /\ ids[1] < ids[2]
          BY <5>1, TwoNumbers
        <5> QED BY <5>1, <5>2
      <4> QED BY <4>1, <4>2
    <3> QED BY <1>3, <2>3, <3>1, <3>2, RanOrder
  <2> QED BY <2>4, <2>5
<1> QED BY <1>5, <1>6

\* TypeOK holds of every run: every variable has a value of its kind, and the
\* replies of EXEC go to commands between MULTI and EXEC (multi.js:125-137).
THEOREM Typed == Spec => []TypeOK
<1>1. Init => AnswersInv
  BY AnswersInit
<1>2. AnswersInv /\ [Next]_vars => AnswersInv'
  BY AnswersStep
<1>3. AnswersInv => TypeOK
  BY AnswersTyped
<1> QED BY <1>1, <1>2, <1>3, PTL DEF Spec

\* OwnReplies holds of every run: whatever replies multiExecResolve hands to the
\* queued commands, each is handed the reply to itself, however many transactions
\* are interleaved and connections lost (multi.js:125-137).  That each queued
\* command is handed one is not claimed: the last is not.
THEOREM RepliesAreOwn == Spec => []OwnReplies
<1>1. Init => AnswersInv
  BY AnswersInit
<1>2. AnswersInv /\ [Next]_vars => AnswersInv'
  BY AnswersStep
<1>3. AnswersInv => OwnReplies
  BY AnswersOwn
<1> QED BY <1>1, <1>2, <1>3, PTL DEF Spec

\* IncrCountsOwn holds of every run: incr adds at most one, and when it resolves
\* it has added one and tells a value that is not older (client.js:871-877).
THEOREM IncrCounts == Spec => []IncrCountsOwn
<1>1. Init => AnswersInv
  BY AnswersInit
<1>2. AnswersInv /\ [Next]_vars => AnswersInv'
  BY AnswersStep
<1>3. AnswersInv => IncrCountsOwn
  BY AnswersCount
<1> QED BY <1>1, <1>2, <1>3, PTL DEF Spec

\* EvalOnceUnlessRejected holds of every run: eval runs its script at most once, or
\* twice when EVALSHA was rejected after it had run, by an error of the script or
\* with its connection; when it resolves it tells what the last run answered
\* (client.js:862-867).
THEOREM EvalRunsOnce == Spec => []EvalOnceUnlessRejected
<1>1. Init => AnswersInv
  BY AnswersInit
<1>2. AnswersInv /\ [Next]_vars => AnswersInv'
  BY AnswersStep
<1>3. AnswersInv => EvalOnceUnlessRejected
  BY AnswersOnce
<1> QED BY <1>1, <1>2, <1>3, PTL DEF Spec
==============================================================================
