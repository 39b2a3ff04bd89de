------------------------------ MODULE CallProofs ------------------------------
(***************************************************************************)
(* A transaction is run as a whole, for any number of calls, of commands   *)
(* in a multi, of lost connections and of writes of other clients.  The    *)
(* argument follows the line of the commands the server has yet to take:   *)
(* in it the commands of a multi stand together and in order, a multi that *)
(* is incomplete is the last of the line and the callback that is running  *)
(* sends the rest, and what MULTI has queued is what the line has lost of  *)
(* the transaction at its head.                                            *)
(***************************************************************************)
EXTENDS ClientCalls, FiniteSetTheorems, TLAPS

Status == {"pending", "resolved", "rejected"}

CallRecord ==
  [kind : {"multi", "incr", "eval"}, queue : Seq(Ops), ids : Seq(Nat),
   state : Status \union {"open"}, vals : Seq(Nat), given : SUBSET [at : Nat, val : Nat]]

Step == [call : Nat, op : Ops]

ReplyRecord == [type : {"ok", "null", "error"}, vals : Seq(Nat)]

Entry == [id : Nat, call : Nat, op : Ops, val : Nat]

Types ==
  /\ sent \in Seq(Command) /\ waiting \in Seq(Command) /\ promise \in Seq(Status)
  /\ ready \in BOOLEAN /\ calls \in Seq(CallRecord) /\ turn \in Seq(Step)
  /\ value \in Seq(Seq(Nat)) /\ Len(value) = Len(promise)
  /\ replies \in Seq(ReplyRecord) /\ queued \in Transaction \union {NotInMulti}
  /\ counter \in Nat /\ ran \in Seq(Entry)

------------------------------------------------------------------------------
(* The line                                                                *)

IsMulti(k) == calls[k].kind = "multi"

\* A command after which another call's may come, and one that may come then.
Ends(c) == ~IsMulti(c.call) \/ c.op = "exec"

Starts(c) == ~IsMulti(c.call) \/ c.op = "multi"

Unserved == Len(sent) - Len(replies)

LineSize == Unserved + Len(waiting)

\* The commands the server has yet to take, in order.
Line ==
  [i \in 1..LineSize |->
     IF i <= Unserved THEN sent[Len(replies) + i] ELSE waiting[i - Unserved]]

Refusing == ~ready /\ ~EnableOfflineQueue

InTurn(k) == turn # <<>> /\ turn[1].call = k

------------------------------------------------------------------------------
(* The invariant                                                           *)

CallInv ==
  \A k \in DOMAIN calls :
    LET ids == calls[k].ids IN
    /\ \A i \in DOMAIN ids : ids[i] \in 1..Len(promise)
    /\ calls[k].state = "pending" /\ turn = <<>> => ids # <<>>
    /\ IsMulti(k) => \A i \in DOMAIN ids : ids[i] = ids[1] + i - 1
    /\ calls[k].state = "open" =>
         /\ IsMulti(k) /\ ids = <<>> /\ calls[k].queue # <<>> /\ calls[k].queue[1] = "multi"
         /\ \A i \in DOMAIN calls[k].queue : i > 1 => calls[k].queue[i] \in Queueable

\* What is left to send is of one call, and of a multi the end.
TurnInv ==
  turn # <<>> =>
    LET k == turn[1].call IN
    /\ k \in DOMAIN calls /\ \A i \in DOMAIN turn : turn[i].call = k
    /\ ready => waiting = <<>>
    /\ \A j \in DOMAIN calls : calls[j].state = "pending" /\ j # k => calls[j].ids # <<>>
    /\ IF IsMulti(k)
       THEN /\ calls[k].state # "open"
            /\ turn[1].op = "multi" <=> calls[k].ids = <<>>
            /\ calls[k].ids # <<>> => calls[k].ids[Len(calls[k].ids)] = Len(promise)
            /\ \A i \in DOMAIN turn :
                 /\ i > 1 => turn[i].op # "multi"
                 /\ turn[i].op = "exec" <=> i = Len(turn)
       ELSE \A i \in DOMAIN turn : turn[i].op \notin {"multi", "exec"}

\* EXEC is the last command of its call.
InLine(c) ==
  /\ c.call \in DOMAIN calls /\ c.id \in 1..Len(promise)
  /\ IF IsMulti(c.call)
     THEN LET ids == calls[c.call].ids IN
          /\ ids # <<>> /\ c.id \in ids[1]..ids[Len(ids)]
          /\ calls[c.call].state # "open"
          /\ c.op = "multi" <=> c.id = ids[1]
          /\ c.op = "exec" => c.id = ids[Len(ids)] /\ ~InTurn(c.call)
     ELSE c.op \notin {"multi", "exec"}

Follows(c, d) == IF Ends(c) THEN Starts(d) ELSE d.call = c.call /\ d.id = c.id + 1

LineInv(U) ==
  /\ \A i \in DOMAIN U : InLine(U[i])
  /\ \A i, j \in DOMAIN U : i < j => U[i].id < U[j].id
  /\ \A i \in DOMAIN U : i + 1 \in DOMAIN U => Follows(U[i], U[i + 1])

\* Only the callback that is running leaves the line with a multi incomplete.
EndInv(U) ==
  /\ Refusing => U = <<>>
  /\ U = <<>> => turn = <<>> \/ Starts(turn[1]) \/ Refusing
  /\ U # <<>> =>
       LET c == U[Len(U)] IN
       IF Ends(c) THEN turn = <<>> \/ Starts(turn[1])
       ELSE InTurn(c.call) /\ c.id = Len(promise) /\ ~Starts(turn[1])

\* The transaction at the head of the line, and what MULTI has queued of it.
ServerInv(U) ==
  IF queued = NotInMulti THEN U # <<>> => Starts(U[1])
  ELSE /\ U # <<>> /\ ~Starts(U[1])
       /\ ~queued.aborts =>
            LET b == calls[U[1].call].ids[1] IN
            /\ Len(queued.cmds) = U[1].id - b - 1
            /\ \A i \in DOMAIN queued.cmds :
                 queued.cmds[i].id = b + i /\ queued.cmds[i].call = U[1].call

\* Of a multi that has run nothing is left, neither in the line nor to send.
RanInv(U) ==
  \A i \in DOMAIN ran :
    LET k == ran[i].call IN
    /\ k \in DOMAIN calls
    /\ IsMulti(k) => calls[k].state # "open" /\ ~InTurn(k) /\ \A j \in DOMAIN U : U[j].call # k

DownInv ==
  /\ ~ready => sent = <<>> /\ replies = <<>> /\ queued = NotInMulti
  /\ ~EnableOfflineQueue => waiting = <<>>
  /\ Len(replies) <= Len(sent)

LinesInv == LineInv(Line) /\ EndInv(Line) /\ ServerInv(Line) /\ RanInv(Line)

WholeInv ==
  Types /\ CallInv /\ TurnInv /\ LinesInv /\ DownInv /\ TransactionsWhole

------------------------------------------------------------------------------
(* How the line changes                                                    *)

\* The line is a sequence of LineSize commands.
LEMMA LineShape ==
  ASSUME Types, DownInv
  PROVE  /\ Len(sent) \in Nat /\ Len(replies) \in Nat /\ Len(waiting) \in Nat
         /\ Len(replies) <= Len(sent)
         /\ Unserved \in Nat /\ LineSize \in Nat
         /\ Line \in Seq(Command) /\ Len(Line) = LineSize /\ DOMAIN Line = 1..LineSize
         /\ \A i \in 1..LineSize :
              Line[i] = IF i <= Unserved THEN sent[Len(replies) + i] ELSE waiting[i - Unserved]
<1>1. /\ Len(sent) \in Nat /\ Len(replies) \in Nat /\ Len(waiting) \in Nat
      /\ Len(replies) <= Len(sent)
      /\ \A i \in 1..Len(sent) : sent[i] \in Command
      /\ \A i \in 1..Len(waiting) : waiting[i] \in Command
  BY DEF Types, DownInv
<1>2. Unserved \in Nat /\ LineSize \in Nat /\ Unserved = Len(sent) - Len(replies)
      /\ LineSize = Unserved + Len(waiting)
  BY <1>1 DEF Unserved, LineSize
<1>3. \A i \in 1..LineSize :
        (IF i <= Unserved THEN sent[Len(replies) + i] ELSE waiting[i - Unserved]) \in Command
  <2> SUFFICES ASSUME NEW i \in 1..LineSize
               PROVE  (IF i <= Unserved THEN sent[Len(replies) + i] ELSE waiting[i - Unserved])
                        \in Command
    OBVIOUS
  <2>1. CASE i <= Unserved
    <3>1. Len(replies) + i \in 1..Len(sent)
      BY <1>1, <1>2, <2>1
    <3> QED BY <1>1, <2>1, <3>1
  <2>2. CASE ~(i <= Unserved)
    <3>1. i - Unserved \in 1..Len(waiting)
      BY <1>1, <1>2, <2>2
    <3> QED BY <1>1, <2>2, <3>1
  <2> QED BY <2>1, <2>2
<1>4. Line \in Seq(Command)
  BY <1>2, <1>3 DEF Line
<1>5. Len(Line) = LineSize
  BY <1>2, <1>4 DEF Line
<1> QED BY <1>1, <1>2, <1>4, <1>5 DEF Line

\* What was written and kept stays, and something is added at the end.
LEMMA LineAppend ==
  ASSUME Types, Types', DownInv, DownInv', replies' = replies, NEW c \in Command,
         \/ waiting = <<>> /\ waiting' = <<>> /\ sent' = Append(sent, c)
         \/ sent' = sent /\ waiting' = Append(waiting, c)
  PROVE  /\ LineSize' = LineSize + 1
         /\ \A i \in 1..LineSize : Line'[i] = Line[i]
         /\ Line'[LineSize + 1] = c
<1>a. /\ Len(sent) \in Nat /\ Len(replies) \in Nat /\ Len(waiting) \in Nat
      /\ Len(replies) <= Len(sent)
  BY LineShape
<1>b. /\ Unserved = Len(sent) - Len(replies) /\ LineSize = Unserved + Len(waiting)
      /\ Unserved' = Len(sent') - Len(replies') /\ LineSize' = Unserved' + Len(waiting')
  BY DEF Unserved, LineSize
<1>1. /\ Len(sent) \in Nat /\ Len(replies) \in Nat /\ Len(waiting) \in Nat
      /\ Len(replies) <= Len(sent)
      /\ Unserved = Len(sent) - Len(replies) /\ LineSize = Unserved + Len(waiting)
      /\ Unserved' = Len(sent') - Len(replies') /\ LineSize' = Unserved' + Len(waiting')
  BY <1>a, <1>b
<1>2. CASE waiting = <<>> /\ waiting' = <<>> /\ sent' = Append(sent, c)
  <2>1. /\ Len(sent') = Len(sent) + 1 /\ sent'[Len(sent) + 1] = c
        /\ \A i \in 1..Len(sent) : sent'[i] = sent[i]
    BY <1>2 DEF Types
  <2>2. LineSize = Unserved /\ LineSize' = LineSize + 1 /\ Unserved' = LineSize'
    BY <1>1, <1>2, <2>1
  <2>3. ASSUME NEW i \in 1..LineSize
        PROVE  Line'[i] = Line[i]
    <3>1. i \in 1..LineSize' /\ i <= Unserved /\ i <= Unserved' /\ Len(replies) + i \in 1..Len(sent)
      BY <1>1, <2>2, <2>3
    <3>2. Line[i] = sent[Len(replies) + i] /\ Line'[i] = sent'[Len(replies) + i]
      BY <1>1, <2>2, <3>1, LineShape DEF Line
    <3> QED BY <2>1, <3>1, <3>2
  <2>4. Line'[LineSize + 1] = c
    <3>1. /\ LineSize + 1 \in 1..LineSize' /\ LineSize + 1 <= Unserved'
          /\ Len(replies) + LineSize + 1 = Len(sent) + 1
      BY <1>1, <2>2
    <3> QED BY <1>1, <2>1, <2>2, <3>1 DEF Line
  <2> QED BY <2>2, <2>3, <2>4
<1>3. CASE sent' = sent /\ waiting' = Append(waiting, c)
  <2>1. /\ Len(waiting') = Len(waiting) + 1 /\ waiting'[Len(waiting) + 1] = c
        /\ \A i \in 1..Len(waiting) : waiting'[i] = waiting[i]
    BY <1>3 DEF Types
  <2>2. Unserved' = Unserved /\ LineSize' = LineSize + 1
    BY <1>1, <1>3, <2>1
  <2>3. ASSUME NEW i \in 1..LineSize
        PROVE  Line'[i] = Line[i]
    <3>1. i \in 1..LineSize' /\ (~(i <= Unserved) => i - Unserved \in 1..Len(waiting))
      BY <1>1, <2>2, <2>3
    <3> QED BY <1>3, <2>1, <2>2, <3>1 DEF Line
  <2>4. Line'[LineSize + 1] = c
    <3>1. /\ LineSize + 1 \in 1..LineSize' /\ ~(LineSize + 1 <= Unserved')
          /\ LineSize + 1 - Unserved' = Len(waiting) + 1
      BY SMTT(30), <1>1, <2>2
    <3>2. PICK n \in 1..LineSize' : n = LineSize + 1
      BY <3>1
    <3>a. Unserved' \in Int /\ LineSize \in Int /\ Len(waiting) \in Int
      BY <1>1, <2>2
    <3>3. ~(n <= Unserved') /\ n - Unserved' = Len(waiting) + 1
      BY <3>1, <3>2, <3>a
    <3>4. Line'[n] = waiting'[n - Unserved']
      BY <3>3 DEF Line
    <3> QED BY <2>1, <3>2, <3>3, <3>4
  <2> QED BY <2>2, <2>3, <2>4
<1> QED BY <1>2, <1>3

\* The server takes the command at the head.
LEMMA LineTail ==
  ASSUME Types, Types', DownInv, DownInv', Len(replies) < Len(sent), sent' = sent,
         waiting' = waiting, Len(replies') = Len(replies) + 1
  PROVE  /\ LineSize \in Nat \ {0} /\ LineSize' = LineSize - 1
         /\ Line[1] = sent[Len(replies) + 1]
         /\ \A i \in 1..LineSize' : Line'[i] = Line[i + 1]
<1>1. /\ Len(sent) \in Nat /\ Len(replies) \in Nat /\ Len(waiting) \in Nat
      /\ Unserved = Len(sent) - Len(replies) /\ LineSize = Unserved + Len(waiting)
      /\ Unserved' = Len(sent) - (Len(replies) + 1) /\ LineSize' = Unserved' + Len(waiting)
  BY DEF Types, DownInv, Unserved, LineSize
<1>2. LineSize \in Nat \ {0} /\ LineSize' = LineSize - 1 /\ Unserved' = Unserved - 1 /\ Unserved >= 1
  BY <1>1
<1>3. Line[1] = sent[Len(replies) + 1]
  BY <1>1, <1>2 DEF Line
<1>4. ASSUME NEW i \in 1..LineSize'
      PROVE  Line'[i] = Line[i + 1]
  <2>1. /\ i + 1 \in 1..LineSize /\ (i <= Unserved' <=> i + 1 <= Unserved)
        /\ Len(replies') + i = Len(replies) + (i + 1) /\ i - Unserved' = i + 1 - Unserved
    BY <1>1, <1>2, <1>4
  <2>2. Line[i + 1] = IF i + 1 <= Unserved THEN sent[Len(replies) + (i + 1)]
                      ELSE waiting[i + 1 - Unserved]
    BY <1>1, <1>4, <2>1 DEF Line
  <2>3. Line'[i] = IF i <= Unserved' THEN sent[Len(replies') + i] ELSE waiting[i - Unserved']
    BY <1>4 DEF Line
  <2> QED BY <2>1, <2>2, <2>3
<1> QED BY <1>2, <1>3, <1>4

\* A reply is taken with its command, or a kept command is written: the server
\* has the same commands to take.
LEMMA LineSame ==
  ASSUME Types, Types', DownInv, DownInv',
         \/ /\ sent # <<>> /\ replies # <<>> /\ sent' = Tail(sent) /\ replies' = Tail(replies)
            /\ waiting' = waiting
         \/ /\ waiting # <<>> /\ replies' = replies /\ waiting' = Tail(waiting)
            /\ sent' = Append(sent, Head(waiting))
         \/ sent' = sent /\ waiting' = waiting /\ replies' = replies
  PROVE  Line' = Line
<1>a. /\ Len(sent) \in Nat /\ Len(replies) \in Nat /\ Len(waiting) \in Nat
      /\ Len(replies) <= Len(sent)
  BY LineShape
<1>b. /\ Unserved = Len(sent) - Len(replies) /\ LineSize = Unserved + Len(waiting)
      /\ Unserved' = Len(sent') - Len(replies') /\ LineSize' = Unserved' + Len(waiting')
  BY DEF Unserved, LineSize
<1>1. /\ Len(sent) \in Nat /\ Len(replies) \in Nat /\ Len(waiting) \in Nat
      /\ Len(replies) <= Len(sent)
      /\ Unserved = Len(sent) - Len(replies) /\ LineSize = Unserved + Len(waiting)
      /\ Unserved' = Len(sent') - Len(replies') /\ LineSize' = Unserved' + Len(waiting')
  BY <1>a, <1>b
<1>2. CASE /\ sent # <<>> /\ replies # <<>> /\ sent' = Tail(sent) /\ replies' = Tail(replies)
           /\ waiting' = waiting
  <2>1. /\ Len(sent') = Len(sent) - 1 /\ Len(replies') = Len(replies) - 1 /\ Len(replies) >= 1
        /\ \A i \in 1..Len(sent') : sent'[i] = sent[i + 1]
    BY <1>2 DEF Types
  <2>2. Unserved' = Unserved /\ LineSize' = LineSize
    <3>1. Unserved' = Len(sent) - 1 - (Len(replies) - 1)
      BY <1>1, <2>1
    <3> QED BY <1>1, <1>2, <3>1
  <2>3. ASSUME NEW i \in 1..LineSize, i <= Unserved
        PROVE  sent'[Len(replies') + i] = sent[Len(replies) + i]
    <3>1. /\ Len(replies') + i \in 1..Len(sent')
          /\ (Len(replies') + i) + 1 = Len(replies) + i
      BY <1>1, <2>1, <2>2, <2>3
    <3>2. sent'[Len(replies') + i] = sent[(Len(replies') + i) + 1]
      BY <2>1, <3>1
    <3> QED BY <3>1, <3>2
  <2> QED BY <1>2, <2>2, <2>3 DEF Line
<1>3. CASE /\ waiting # <<>> /\ replies' = replies /\ waiting' = Tail(waiting)
           /\ sent' = Append(sent, Head(waiting))
  <2>1. /\ Len(sent') = Len(sent) + 1 /\ Len(waiting') = Len(waiting) - 1 /\ Len(waiting) >= 1
        /\ sent'[Len(sent) + 1] = waiting[1]
        /\ \A i \in 1..Len(sent) : sent'[i] = sent[i]
        /\ \A i \in 1..Len(waiting') : waiting'[i] = waiting[i + 1]
    BY <1>3 DEF Types
  <2>2. Unserved' = Unserved + 1 /\ LineSize' = LineSize
    <3>0. replies' = replies
      BY <1>3
    <3>1. Unserved' = Len(sent) + 1 - Len(replies)
      BY <1>1, <2>1, <3>0
    <3>2. LineSize' = Unserved' + (Len(waiting) - 1)
      BY <1>1, <2>1
    <3>3. Unserved = Len(sent) - Len(replies) /\ LineSize = Unserved + Len(waiting)
      BY <1>1
    <3>4. Unserved' = Unserved + 1
      BY <1>a, <3>1, <3>3
    <3>5. Unserved \in Int
      BY <1>a, <3>3
    <3> QED BY <1>a, <3>2, <3>3, <3>4, <3>5
  <2>3. ASSUME NEW i \in 1..LineSize
        PROVE  (IF i <= Unserved' THEN sent'[Len(replies') + i] ELSE waiting'[i - Unserved'])
                 = (IF i <= Unserved THEN sent[Len(replies) + i] ELSE waiting[i - Unserved])
    <3>1. CASE i <= Unserved
      <4>1. i <= Unserved' /\ Len(replies) + i \in 1..Len(sent)
        BY SMTT(30), <1>1, <2>2, <2>3, <3>1
      <4> QED BY <1>3, <2>1, <3>1, <4>1
    <3>2. CASE i = Unserved + 1
      <4>1. i <= Unserved' /\ ~(i <= Unserved) /\ Len(replies) + i = Len(sent) + 1 /\ i - Unserved = 1
        BY <1>1, <2>2, <2>3, <3>2
      <4> QED BY <1>3, <2>1, <4>1
    <3>3. CASE i > Unserved + 1
      <4>0. Unserved \in Int /\ Len(waiting) \in Int
        BY <1>1
      <4>a. i \in Int /\ i <= Unserved + Len(waiting) /\ i > Unserved + 1
        BY <1>1, <2>3, <3>3
      <4>1. /\ ~(i <= Unserved') /\ ~(i <= Unserved) /\ i - Unserved' \in 1..Len(waiting')
            /\ (i - Unserved') + 1 = i - Unserved
        BY <2>1, <2>2, <4>0, <4>a
      <4>2. waiting'[i - Unserved'] = waiting[(i - Unserved') + 1]
        BY <2>1, <4>1
      <4> QED BY <4>1, <4>2
    <3>4. Unserved \in Int /\ i \in Int
      BY <1>1, <2>3
    <3>5. i <= Unserved \/ i = Unserved + 1 \/ i > Unserved + 1
      BY <3>4
    <3> QED BY <3>1, <3>2, <3>3, <3>5
  <2> QED BY <2>2, <2>3 DEF Line
<1>4. CASE sent' = sent /\ waiting' = waiting /\ replies' = replies
  BY <1>4 DEF Line, LineSize, Unserved
<1> QED BY <1>2, <1>3, <1>4

------------------------------------------------------------------------------
(* Types                                                                   *)

LEMMA AnswerType ==
  ASSUME counter \in Nat, NEW cmds, NEW i \in Nat
  PROVE  Answer(cmds, i) \in Nat
<1>1. IsFiniteSet({j \in 1..i : cmds[j].op # "get"})
  <2>1. IsFiniteSet(1..i)
    BY FS_Interval
  <2>2. {j \in 1..i : cmds[j].op # "get"} \subseteq 1..i
    OBVIOUS
  <2> QED BY <2>1, <2>2, FS_Subset
<1> QED BY <1>1, FS_CardinalityType DEF Answer

\* The commands are executed, whether or not the last of them then fails.
Enters(cmds) == Run(cmds) \/ RunAndFail(cmds)

\* What the server runs is entered, and nothing else of what it ran changes.
LEMMA RunEntries ==
  ASSUME Types, NEW cmds \in Seq(Command), Enters(cmds)
  PROVE  /\ replies' \in Seq(ReplyRecord) /\ Len(replies') = Len(replies) + 1
         /\ counter' \in Nat /\ ran' \in Seq(Entry)
         /\ Len(ran') = Len(ran) + Len(cmds)
         /\ \A i \in 1..Len(ran) : ran'[i] = ran[i]
         /\ \A i \in 1..Len(cmds) :
              ran'[Len(ran) + i].id = cmds[i].id /\ ran'[Len(ran) + i].call = cmds[i].call
<1> DEFINE entries == [i \in DOMAIN cmds |->
                         [id |-> cmds[i].id, call |-> cmds[i].call, op |-> cmds[i].op,
                          val |-> Answer(cmds, i)]]
<1>1. /\ counter \in Nat /\ replies \in Seq(ReplyRecord) /\ ran \in Seq(Entry)
      /\ Len(cmds) \in Nat /\ DOMAIN cmds = 1..Len(cmds)
      /\ \A i \in 1..Len(cmds) : cmds[i] \in Command
  BY DEF Types
<1>2. \A i \in 0..Len(cmds) : Answer(cmds, i) \in Nat
  BY <1>1, AnswerType
<1>3. Answers(cmds) \in Seq(Nat)
  BY <1>1, <1>2 DEF Answers
<1>4. /\ \/ replies' = Append(replies, [type |-> "ok", vals |-> Answers(cmds)])
         \/ replies' = Append(replies, [type |-> "error", vals |-> <<>>])
      /\ counter' = Answer(cmds, Len(cmds)) /\ ran' = ran \o entries
  BY DEF Enters, Run, RunAndFail, Executes, Reply
<1>5. \A i \in 1..Len(cmds) : entries[i] \in Entry
  BY <1>1, <1>2 DEF Entry, Command
<1>6. entries \in Seq(Entry) /\ Len(entries) = Len(cmds)
  BY <1>1, <1>5
<1>7. \A i \in 1..Len(cmds) : entries[i].id = cmds[i].id /\ entries[i].call = cmds[i].call
  BY <1>1
<1> HIDE DEF entries
<1>8. /\ [type |-> "ok", vals |-> Answers(cmds)] \in ReplyRecord
      /\ [type |-> "error", vals |-> <<>>] \in ReplyRecord
  BY <1>3 DEF ReplyRecord
<1>9. replies' \in Seq(ReplyRecord) /\ Len(replies') = Len(replies) + 1
  <2>1. PICK r \in ReplyRecord : replies' = Append(replies, r)
    BY <1>4, <1>8
  <2> QED BY <1>1, <2>1
<1>10. /\ ran' \in Seq(Entry) /\ Len(ran') = Len(ran) + Len(cmds)
       /\ \A i \in 1..Len(ran) : ran'[i] = ran[i]
       /\ \A i \in 1..Len(cmds) : ran'[Len(ran) + i] = entries[i]
  <2>1. ran \o entries \in Seq(Entry)
    BY <1>1, <1>6
  <2>2. Len(ran \o entries) = Len(ran) + Len(entries)
    BY <1>1, <1>6
  <2>3. \A i \in 1..Len(ran) : (ran \o entries)[i] = ran[i]
    BY <1>1, <1>6
  <2>4. \A i \in 1..Len(cmds) : (ran \o entries)[Len(ran) + i] = entries[i]
    BY <1>1, <1>6
  <2> QED BY <1>4, <1>6, <2>1, <2>2, <2>3, <2>4
<1>11. counter' \in Nat
  BY <1>1, <1>2, <1>4
<1> QED BY <1>7, <1>9, <1>10, <1>11

\* Or nothing is run, and the reply has no values.
LEMMA NoEntries ==
  ASSUME Types, NEW type \in {"ok", "null", "error"}, RunNothing(type)
  PROVE  /\ replies' \in Seq(ReplyRecord) /\ Len(replies') = Len(replies) + 1
         /\ counter' = counter /\ ran' = ran
<1>1. [type |-> type, vals |-> <<>>] \in ReplyRecord
  BY DEF ReplyRecord
<1>2. replies \in Seq(ReplyRecord)
  BY DEF Types
<1>3. replies' = Append(replies, [type |-> type, vals |-> <<>>]) /\ counter' = counter /\ ran' = ran
  BY DEF RunNothing, Reply
<1> QED BY <1>1, <1>2, <1>3

Taken == sent[Len(replies) + 1]

\* What the server may do with it: run the transaction, run nothing, queue the
\* command, begin a transaction or run the command alone.
TakesExec(c) ==
  /\ c.op = "exec" /\ queued' = NotInMulti
  /\ \/ queued # NotInMulti /\ ~queued.aborts /\ Enters(queued.cmds)
     \/ RunNothing("null") \/ RunNothing("error")

TakesQueued(c) ==
  /\ c.op # "exec" /\ queued # NotInMulti
  /\ \/ /\ c.op \in {"bad", "multi"} /\ RunNothing("error")
        /\ queued' = [queued EXCEPT !.aborts = @ \/ c.op = "bad"]
     \/ /\ c.op \notin {"bad", "multi"} /\ RunNothing("ok")
        /\ queued' = [queued EXCEPT !.cmds = Append(@, c)]

TakesAlone(c) ==
  /\ c.op # "exec" /\ queued = NotInMulti
  /\ \/ c.op = "multi" /\ queued' = [cmds |-> <<>>, aborts |-> FALSE] /\ RunNothing("ok")
     \/ c.op # "multi" /\ queued' = NotInMulti /\ (Enters(<<c>>) \/ RunNothing("error"))

LEMMA ServeCases ==
  ASSUME Types, Serve
  PROVE  /\ Taken \in Command /\ Len(replies) < Len(sent)
         /\ TakesExec(Taken) \/ TakesQueued(Taken) \/ TakesAlone(Taken)
<1>1. Len(replies) < Len(sent)
  BY DEF Serve
<1>2. Taken \in Command
  <2>1. Len(replies) \in Nat /\ Len(sent) \in Nat /\ sent \in Seq(Command)
    BY DEF Types
  <2> QED BY <1>1, <2>1 DEF Taken
<1> DEFINE c == Taken
<1>3. \/ c.op = "exec" /\ ServeExec
      \/ c.op # "exec" /\ InMulti /\ ServeQueued(c)
      \/ c.op # "exec" /\ ~InMulti /\ ServeAtOnce(c)
  BY DEF Serve, Taken
<1> HIDE DEF c
<1>4. ASSUME c.op = "exec", ServeExec
      PROVE  TakesExec(c)
  <2>1. CASE InMulti /\ ~queued.aborts
    BY <1>4, <2>1, Zenon DEF ServeExec, InMulti, TakesExec, Enters
  <2>2. CASE ~(InMulti /\ ~queued.aborts)
    BY <1>4, <2>2, Zenon DEF ServeExec, InMulti, TakesExec, Enters
  <2> QED BY <2>1, <2>2, Zenon
<1>5. ASSUME c.op # "exec", InMulti, ServeQueued(c)
      PROVE  TakesQueued(c)
  <2>1. CASE c.op \in {"bad", "multi"}
    BY <1>5, <2>1, Zenon DEF ServeQueued, InMulti, TakesQueued
  <2>2. CASE ~(c.op \in {"bad", "multi"})
    BY <1>5, <2>2, Zenon DEF ServeQueued, InMulti, TakesQueued
  <2> QED BY <2>1, <2>2, Zenon
<1>6. ASSUME c.op # "exec", ~InMulti, ServeAtOnce(c)
      PROVE  TakesAlone(c)
  <2>1. queued = NotInMulti
    BY <1>6 DEF InMulti
  <2>2. CASE c.op = "multi"
    <3>1. RunNothing("ok") /\ queued' = [cmds |-> <<>>, aborts |-> FALSE]
      BY <1>6, <2>2, Zenon DEF ServeAtOnce
    <3> QED BY <1>6, <2>1, <2>2, <3>1, Zenon DEF TakesAlone
  <2>3. CASE c.op # "multi"
    <3>1. queued' = NotInMulti
      BY <1>6, <2>3, Zenon DEF ServeAtOnce
    <3>2. Enters(<<c>>) \/ RunNothing("error")
      <4>1. CASE c.op = "bad" \/ (c.op = "evalsha" /\ ~cached)
        BY <1>6, <2>3, <4>1, Zenon DEF ServeAtOnce, Enters
      <4>2. CASE (c.op = "evalsha" /\ cached) \/ c.op = "eval"
        BY <1>6, <2>3, <4>2, Zenon DEF ServeAtOnce, Enters
      <4>3. CASE c.op \notin {"bad", "evalsha", "eval"}
        BY <1>6, <2>3, <4>3, Zenon DEF ServeAtOnce, Enters
      <4> QED BY <4>1, <4>2, <4>3, Zenon
    <3> QED BY <1>6, <2>1, <2>3, <3>1, <3>2, Zenon DEF TakesAlone
  <2> QED BY <2>2, <2>3
<1> QED BY <1>1, <1>2, <1>3, <1>4, <1>5, <1>6, Zenon DEF c

LEMMA ServeTypes ==
  ASSUME Types, Serve
  PROVE  Types' /\ Len(replies') = Len(replies) + 1
<1> DEFINE c == Taken
<1>1. c \in Command /\ (TakesExec(c) \/ TakesQueued(c) \/ TakesAlone(c))
  BY ServeCases
<1> HIDE DEF c
<1>2. UNCHANGED <<sent, waiting, promise, ready, calls, turn, value>>
  BY DEF Serve, pipe, client
<1> DEFINE Entered == /\ replies' \in Seq(ReplyRecord) /\ Len(replies') = Len(replies) + 1
                      /\ counter' \in Nat /\ ran' \in Seq(Entry)
           Queues  == queued' \in Transaction \union {NotInMulti}
<1>3. /\ counter \in Nat /\ ran \in Seq(Entry)
      /\ queued # NotInMulti => queued \in Transaction /\ queued.cmds \in Seq(Command)
  BY DEF Types, Transaction
<1>4. ASSUME NEW cmds \in Seq(Command), Enters(cmds)
      PROVE  Entered
  BY <1>4, RunEntries
<1>5. ASSUME NEW type \in {"ok", "null", "error"}, RunNothing(type)
      PROVE  Entered
  <2>1. replies' \in Seq(ReplyRecord) /\ Len(replies') = Len(replies) + 1
        /\ counter' = counter /\ ran' = ran
    BY <1>5, NoEntries
  <2> QED BY <1>3, <2>1
<1> HIDE DEF Entered
<1>6. ASSUME TakesExec(c)
      PROVE  Entered /\ Queues
  <2>1. Queues
    BY <1>6 DEF TakesExec
  <2>2. CASE queued # NotInMulti /\ Enters(queued.cmds)
    BY <1>3, <1>4, <2>1, <2>2
  <2>3. CASE RunNothing("null") \/ RunNothing("error")
    BY <1>5, <2>1, <2>3
  <2> QED BY <1>6, <2>2, <2>3, Zenon DEF TakesExec
<1>7. ASSUME TakesQueued(c)
      PROVE  Entered /\ Queues
  <2>1. queued \in Transaction /\ queued.cmds \in Seq(Command)
    BY <1>3, <1>7, Zenon DEF TakesQueued
  <2>2. RunNothing("error") \/ RunNothing("ok")
    BY <1>7, Zenon DEF TakesQueued
  <2>3. \/ queued' = [queued EXCEPT !.aborts = @ \/ c.op = "bad"]
        \/ queued' = [queued EXCEPT !.cmds = Append(@, c)]
    BY <1>7, Zenon DEF TakesQueued
  <2>4. Append(queued.cmds, c) \in Seq(Command) /\ queued.aborts \in BOOLEAN
    BY <1>1, <2>1 DEF Transaction
  <2>5. Queues
    BY <2>1, <2>3, <2>4 DEF Transaction
  <2> QED BY <1>5, <2>2, <2>5
<1>8. ASSUME TakesAlone(c)
      PROVE  Entered /\ Queues
  <2>1. queued' = NotInMulti \/ queued' = [cmds |-> <<>>, aborts |-> FALSE]
    BY <1>8, Zenon DEF TakesAlone
  <2>2. [cmds |-> <<>>, aborts |-> FALSE] \in Transaction
    BY DEF Transaction
  <2>3. Queues
    BY <2>1, <2>2
  <2>4. <<c>> \in Seq(Command)
    BY <1>1
  <2>5. Enters(<<c>>) \/ RunNothing("ok") \/ RunNothing("error")
    BY <1>8, Zenon DEF TakesAlone
  <2> QED BY <1>4, <1>5, <2>3, <2>4, <2>5
<1>9. Entered /\ Queues
  BY <1>1, <1>6, <1>7, <1>8
<1> QED BY <1>2, <1>9 DEF Types, Entered

------------------------------------------------------------------------------
(* Callbacks that change what is known of the calls and begin a turn       *)

\* The calls there were are of the same kind and have the same commands, and
\* none is open again.
CallsKept ==
  \A k \in DOMAIN calls :
    /\ k \in DOMAIN calls' /\ calls'[k].kind = calls[k].kind /\ calls'[k].ids = calls[k].ids
    /\ calls'[k].state = "open" => calls[k].state = "open"

\* A turn of a multi begins with MULTI, and the multi has been open until then.
Begins ==
  turn' # <<>> =>
    LET k == turn'[1].call IN
    calls'[k].kind = "multi" =>
      /\ k \in DOMAIN calls => calls[k].state = "open"
      /\ turn'[1].op = "multi"

LEMMA Callback ==
  ASSUME WholeInv, Idle, CallsKept, Begins, Types',
         UNCHANGED <<sent, waiting, promise, ready, replies, queued, ran>>
  PROVE  LinesInv' /\ DownInv' /\ TransactionsWhole'
<1>1. DownInv'
  BY DEF WholeInv, DownInv
<1>2. Line' = Line
  BY <1>1, LineSame DEF WholeInv
<1>3. /\ Line \in Seq(Command) /\ DOMAIN Line = 1..Len(Line) /\ Len(Line) \in Nat
      /\ turn = <<>>
  BY LineShape DEF WholeInv, Idle
<1>4. ASSUME NEW c, InLine(c)
      PROVE  InLine(c)' /\ (Ends(c)' <=> Ends(c)) /\ (Starts(c)' <=> Starts(c))
  <2>0. promise' = promise
    OBVIOUS
  <2>1. c.call \in DOMAIN calls
    BY <1>4 DEF InLine
  <2>2. c.call \in DOMAIN calls' /\ calls'[c.call].kind = calls[c.call].kind
        /\ calls'[c.call].ids = calls[c.call].ids
        /\ (calls'[c.call].state = "open" => calls[c.call].state = "open")
    BY <2>1 DEF CallsKept
  <2>3. (Ends(c)' <=> Ends(c)) /\ (Starts(c)' <=> Starts(c))
    BY <2>2 DEF Ends, Starts, IsMulti
  <2>4. CASE ~IsMulti(c.call)
    <3>1. c.id \in 1..Len(promise) /\ c.op \notin {"multi", "exec"}
      BY <1>4, <2>4 DEF InLine
    <3>2. ~IsMulti(c.call)'
      BY <2>2, <2>4 DEF IsMulti
    <3>3. InLine(c)'
      BY <2>0, <2>2, <3>1, <3>2 DEF InLine
    <3> QED BY <2>3, <3>3
  <2>5. CASE IsMulti(c.call)
    <3>1. calls[c.call].state # "open"
      BY <1>4, <2>5 DEF InLine
    <3>2. ~InTurn(c.call)'
      BY <2>1, <2>2, <2>5, <3>1 DEF InTurn, Begins, IsMulti
    <3>3. /\ c.id \in 1..Len(promise)
          /\ calls[c.call].ids # <<>>
          /\ c.id \in calls[c.call].ids[1]..calls[c.call].ids[Len(calls[c.call].ids)]
          /\ c.op = "multi" <=> c.id = calls[c.call].ids[1]
          /\ c.op = "exec" => c.id = calls[c.call].ids[Len(calls[c.call].ids)]
      BY <1>4, <2>5 DEF InLine
    <3>4. IsMulti(c.call)' /\ calls'[c.call].state # "open"
      BY <2>2, <2>5, <3>1 DEF IsMulti
    <3>5. InLine(c)'
      BY <2>0, <2>2, <3>2, <3>3, <3>4 DEF InLine
    <3> QED BY <2>3, <3>5
  <2> QED BY <2>3, <2>4, <2>5
<1>5. LineInv(Line) /\ EndInv(Line) /\ ServerInv(Line) /\ RanInv(Line)
  BY DEF WholeInv, LinesInv
<1>6. \A i \in DOMAIN Line : InLine(Line[i])
  BY <1>5 DEF LineInv
<1>7. LineInv(Line)'
  <2>1. (\A i \in DOMAIN Line : InLine(Line[i]))'
    <3>1. ASSUME NEW i \in DOMAIN Line
          PROVE  InLine(Line[i])'
      BY <1>2, <1>4, <1>6, <3>1
    <3> QED BY <1>2, <3>1
  <2>2. \A i, j \in DOMAIN Line' : i < j => Line'[i].id < Line'[j].id
    BY <1>2, <1>5 DEF LineInv
  <2>3. ASSUME NEW i \in DOMAIN Line, i + 1 \in DOMAIN Line
        PROVE  Follows(Line[i], Line[i + 1])'
    <3>1. Follows(Line[i], Line[i + 1])
      BY <1>5, <2>3 DEF LineInv
    <3>2. (Ends(Line[i])' <=> Ends(Line[i])) /\ (Starts(Line[i + 1])' <=> Starts(Line[i + 1]))
      BY <1>2, <1>4, <1>6, <2>3
    <3> QED BY <1>2, <3>1, <3>2 DEF Follows
  <2>4. (\A i \in DOMAIN Line : i + 1 \in DOMAIN Line => Follows(Line[i], Line[i + 1]))'
    BY <1>2, <2>3
  <2> QED BY <2>1, <2>2, <2>4 DEF LineInv
<1>8. EndInv(Line)'
  <2>1. turn' = <<>> \/ Starts(turn[1])'
    BY DEF Begins, Starts, IsMulti
  <2>2. Refusing' <=> Refusing
    BY DEF Refusing
  <2>3. ASSUME Line # <<>>
        PROVE  Ends(Line[Len(Line)])'
    <3>1. Len(Line) \in DOMAIN Line
      BY <1>3, <2>3
    <3>2. Ends(Line[Len(Line)])
      BY <1>3, <1>5, <2>3 DEF EndInv, InTurn
    <3> QED BY <1>2, <1>4, <1>6, <3>1, <3>2
  <2> QED BY <1>2, <1>5, <2>1, <2>2, <2>3 DEF EndInv
<1>9. ServerInv(Line)'
  <2>1. CASE Line = <<>>
    BY <1>2, <1>5, <2>1 DEF ServerInv
  <2>2. CASE Line # <<>>
    <3>1. 1 \in DOMAIN Line
      BY <1>3, <2>2
    <3>2. (Starts(Line[1])' <=> Starts(Line[1])) /\ Line[1].call \in DOMAIN calls
      BY <1>2, <1>4, <1>6, <3>1 DEF InLine
    <3>3. calls'[Line[1].call].ids = calls[Line[1].call].ids
      BY <3>2 DEF CallsKept
    <3> QED BY <1>2, <1>5, <2>2, <3>2, <3>3 DEF ServerInv
  <2> QED BY <2>1, <2>2
<1>10. RanInv(Line)'
  <2> SUFFICES ASSUME NEW i \in DOMAIN ran
               PROVE  LET k == ran[i].call IN
                      /\ k \in DOMAIN calls'
                      /\ calls'[k].kind = "multi" =>
                           /\ calls'[k].state # "open" /\ ~InTurn(k)'
                           /\ \A j \in DOMAIN Line : Line[j].call # k
    BY <1>2 DEF RanInv, IsMulti
  <2> DEFINE k == ran[i].call
  <2>1. k \in DOMAIN calls /\ (calls[k].kind = "multi" => calls[k].state # "open"
          /\ \A j \in DOMAIN Line : Line[j].call # k)
    BY <1>5 DEF RanInv, IsMulti
  <2>2. k \in DOMAIN calls' /\ calls'[k].kind = calls[k].kind
        /\ (calls'[k].state = "open" => calls[k].state = "open")
    BY <2>1 DEF CallsKept
  <2>3. calls'[k].kind = "multi" => ~InTurn(k)'
    BY <2>1, <2>2 DEF InTurn, Begins
  <2> QED BY <2>1, <2>2, <2>3
<1>11. TransactionsWhole'
  <2> SUFFICES ASSUME NEW k \in DOMAIN calls', calls'[k].kind = "multi",
                      {i \in DOMAIN ran : ran[i].call = k} # {}
               PROVE  LET places == {i \in DOMAIN ran : ran[i].call = k} IN
                      \E a \in DOMAIN ran :
                        /\ places = a..(a + Len(calls'[k].ids) - 3)
                        /\ \A i \in places : ran[i].id = calls'[k].ids[i - a + 2]
    BY DEF TransactionsWhole, Calls, Sent
  <2>1. k \in DOMAIN calls
    BY <1>5 DEF RanInv
  <2>2. calls'[k].ids = calls[k].ids /\ calls[k].kind = "multi"
    BY <2>1 DEF CallsKept
  <2> QED BY <2>1, <2>2 DEF WholeInv, TransactionsWhole, Calls, Sent
<1> QED BY <1>1, <1>7, <1>8, <1>9, <1>10, <1>11 DEF LinesInv

\* What a turn has to send.
LEMMA TurnOf ==
  ASSUME NEW k \in Nat, NEW ops \in Seq(Ops), Sends(k, ops)
  PROVE  /\ turn' \in Seq(Step) /\ Len(turn') = Len(ops) /\ DOMAIN turn' = 1..Len(ops)
         /\ \A i \in 1..Len(ops) : turn'[i].call = k /\ turn'[i].op = ops[i]
<1> DEFINE steps == [i \in DOMAIN ops |-> [call |-> k, op |-> ops[i]]]
<1>1. Len(ops) \in Nat /\ DOMAIN ops = 1..Len(ops) /\ \A i \in 1..Len(ops) : ops[i] \in Ops
  OBVIOUS
<1>2. \A i \in 1..Len(ops) : steps[i] \in Step
  BY <1>1 DEF Step
<1>3. steps \in Seq(Step) /\ Len(steps) = Len(ops) /\ DOMAIN steps = 1..Len(ops)
  BY <1>1, <1>2
<1>4. \A i \in 1..Len(ops) : steps[i].call = k /\ steps[i].op = ops[i]
  BY <1>1
<1>5. turn' = steps
  BY DEF Sends
<1> QED BY <1>3, <1>4, <1>5

\* In the callbacks of this part the connection and the server do nothing.
Still == UNCHANGED <<sent, waiting, promise, ready, replies, queued, ran>>

\* With no turn pending, the calls there were keep what CallInv says of them.
LEMMA CallsStay ==
  ASSUME WholeInv, Idle, NEW k \in DOMAIN calls, promise' = promise,
         k \in DOMAIN calls', calls'[k].kind = calls[k].kind, calls'[k].ids = calls[k].ids,
         calls'[k].state = "pending" => calls[k].state = "pending" \/ turn' # <<>>,
         calls'[k].state # "open" \/ calls'[k] = calls[k]
  PROVE  LET ids == calls'[k].ids IN
         /\ \A i \in DOMAIN ids : ids[i] \in 1..Len(promise')
         /\ calls'[k].state = "pending" /\ turn' = <<>> => ids # <<>>
         /\ calls'[k].kind = "multi" => \A i \in DOMAIN ids : ids[i] = ids[1] + i - 1
         /\ calls'[k].state = "open" =>
              /\ calls'[k].kind = "multi" /\ ids = <<>>
              /\ calls'[k].queue # <<>> /\ calls'[k].queue[1] = "multi"
              /\ \A i \in DOMAIN calls'[k].queue : i > 1 => calls'[k].queue[i] \in Queueable
BY DEF WholeInv, CallInv, IsMulti, Idle

LEMMA NewCallStep ==
  ASSUME WholeInv, NewCall
  PROVE  WholeInv'
<1> DEFINE n == Len(calls) + 1
<1>1. /\ Types /\ CallInv /\ Idle /\ turn = <<>> /\ (ready => waiting = <<>>)
      /\ UNCHANGED <<sent, waiting, promise, ready, value, replies, queued, counter, ran>>
  BY DEF WholeInv, NewCall, Idle, pipe, server
<1>2. /\ calls \in Seq(CallRecord) /\ Len(calls) \in Nat /\ DOMAIN calls = 1..Len(calls)
      /\ n \in Nat /\ n \notin DOMAIN calls
  BY <1>1 DEF Types
<1>3. ASSUME NEW rec \in CallRecord, calls' = Append(calls, rec)
      PROVE  /\ calls' \in Seq(CallRecord) /\ DOMAIN calls' = DOMAIN calls \union {n}
             /\ calls'[n] = rec /\ \A k \in DOMAIN calls : calls'[k] = calls[k]
  BY <1>2, <1>3
<1>4. ASSUME NEW rec \in CallRecord, calls' = Append(calls, rec), rec.ids = <<>>,
             turn' \in Seq(Step), turn' = <<>> \/ rec.kind # "multi",
             rec.kind = "multi" => rec.state = "open" /\ rec.queue = <<"multi">>,
             rec.state = "open" => rec.kind = "multi", rec.state = "pending" => turn' # <<>>,
             turn' # <<>> =>
               \A i \in DOMAIN turn' : turn'[i].call = n /\ turn'[i].op \notin {"multi", "exec"}
      PROVE  WholeInv'
  <2>1. /\ calls' \in Seq(CallRecord) /\ DOMAIN calls' = DOMAIN calls \union {n}
        /\ calls'[n] = rec /\ \A k \in DOMAIN calls : calls'[k] = calls[k]
    BY <1>3, <1>4
  <2>2. Types'
    BY <1>1, <1>4, <2>1 DEF Types
  <2>3. turn' # <<>> => turn'[1].call = n /\ 1 \in DOMAIN turn'
    BY <1>4
  <2>4. CallsKept /\ Begins
    BY <1>2, <1>4, <2>1, <2>3 DEF CallsKept, Begins
  <2>5. CallInv'
    <3> DEFINE Says(k) ==
          LET ids == calls'[k].ids IN
          /\ \A i \in DOMAIN ids : ids[i] \in 1..Len(promise')
          /\ calls'[k].state = "pending" /\ turn' = <<>> => ids # <<>>
          /\ calls'[k].kind = "multi" => \A i \in DOMAIN ids : ids[i] = ids[1] + i - 1
          /\ calls'[k].state = "open" =>
               /\ calls'[k].kind = "multi" /\ ids = <<>>
               /\ calls'[k].queue # <<>> /\ calls'[k].queue[1] = "multi"
               /\ \A i \in DOMAIN calls'[k].queue : i > 1 => calls'[k].queue[i] \in Queueable
    <3>1. ASSUME NEW k \in DOMAIN calls
          PROVE  Says(k)
      BY <1>1, <2>1, <3>1, CallsStay
    <3>2. Says(n)
      <4>1. calls'[n].ids = <<>> /\ (calls'[n].state = "pending" => turn' # <<>>)
            /\ (calls'[n].state = "open" => calls'[n].kind = "multi")
        BY <1>4, <2>1
      <4>2. calls'[n].kind = "multi" => calls'[n].queue = <<"multi">>
        BY <1>4, <2>1
      <4>3. /\ <<"multi">> # <<>> /\ <<"multi">>[1] = "multi"
            /\ \A i \in DOMAIN <<"multi">> : ~(i > 1)
        OBVIOUS
      <4>4. \A i \in DOMAIN calls'[n].ids : FALSE
        BY <4>1
      <4> QED BY <4>1, <4>2, <4>3, <4>4
    <3>3. \A k \in DOMAIN calls' : Says(k)
      BY <2>1, <3>1, <3>2
    <3> QED BY <3>3 DEF CallInv, IsMulti
  <2>6. TurnInv'
    <3> SUFFICES ASSUME turn' # <<>>
                 PROVE  TurnInv'
      BY DEF TurnInv
    <3>1. calls'[n].kind # "multi" /\ n \in DOMAIN calls'
      BY <1>4, <2>1
    <3>2. ready' => waiting' = <<>>
      BY <1>1
    <3>3. \A j \in DOMAIN calls' : calls'[j].state = "pending" /\ j # n => calls'[j].ids # <<>>
      BY <1>1, <2>1 DEF CallInv
    <3> QED BY <1>4, <2>3, <3>1, <3>2, <3>3 DEF TurnInv, IsMulti
  <2>7. LinesInv' /\ DownInv' /\ TransactionsWhole'
    BY <1>1, <2>2, <2>4, Callback
  <2> QED BY <2>2, <2>5, <2>6, <2>7 DEF WholeInv
<1>5. CASE MultiCall
  <2> DEFINE rec == Call("multi", "open", <<"multi">>)
  <2>1. rec \in CallRecord /\ rec.kind = "multi" /\ rec.ids = <<>> /\ rec.state = "open"
        /\ rec.queue = <<"multi">>
    <3>1. <<"multi">> \in Seq(Ops)
      BY DEF Ops
    <3> QED BY <3>1 DEF Call, CallRecord
  <2>2. calls' = Append(calls, rec) /\ turn' = <<>>
    BY <1>1, <1>5 DEF MultiCall
  <2> HIDE DEF rec
  <2> QED BY <1>4, <2>1, <2>2
<1>6. ASSUME NEW kind \in {"incr", "eval"}, NEW op \in {"incr", "evalsha"},
             calls' = Append(calls, Call(kind, "pending", <<>>)), Sends(n, <<op>>)
      PROVE  WholeInv'
  <2> DEFINE rec == Call(kind, "pending", <<>>)
  <2>1. rec \in CallRecord /\ rec.kind # "multi" /\ rec.ids = <<>> /\ rec.state = "pending"
    BY DEF Call, CallRecord, Status
  <2>2. <<op>> \in Seq(Ops) /\ Len(<<op>>) = 1 /\ <<op>>[1] = op
    BY DEF Ops
  <2>3. /\ turn' \in Seq(Step) /\ DOMAIN turn' = 1..1
        /\ \A i \in 1..1 : turn'[i].call = n /\ turn'[i].op = op
    <3>1. \A i \in 1..1 : <<op>>[i] = op
      BY <2>2
    <3> DEFINE ops == <<op>>
    <3>2. n \in Nat /\ ops \in Seq(Ops) /\ Len(ops) = 1 /\ Sends(n, ops)
      BY <1>2, <1>6, <2>2
    <3> HIDE DEF ops
    <3>3. /\ turn' \in Seq(Step) /\ Len(turn') = Len(ops) /\ DOMAIN turn' = 1..Len(ops)
          /\ \A i \in 1..Len(ops) : turn'[i].call = n /\ turn'[i].op = ops[i]
      BY <3>2, TurnOf, Zenon
    <3>4. \A i \in 1..1 : ops[i] = op
      BY <3>1 DEF ops
    <3> QED BY <3>2, <3>3, <3>4
  <2>4. turn' # <<>>
    BY SMTT(30), <2>3
  <2>5. \A i \in DOMAIN turn' : turn'[i].call = n /\ turn'[i].op \notin {"multi", "exec"}
    BY <2>3
  <2> HIDE DEF rec
  <2>6. calls' = Append(calls, rec)
    BY <1>6 DEF rec
  <2> QED BY <1>4, <2>1, <2>3, <2>4, <2>5, <2>6
<1>7. CASE IncrCall
  BY <1>6, <1>7 DEF IncrCall
<1>8. CASE EvalCall
  BY <1>6, <1>8 DEF EvalCall
<1> QED BY <1>5, <1>7, <1>8 DEF NewCall

\* A callback that changes what is known of one call, but not its commands.
LEMMA CallChanges ==
  ASSUME WholeInv, Idle, Still, UNCHANGED <<value, counter>>, NEW k \in DOMAIN calls,
         calls' \in Seq(CallRecord), DOMAIN calls' = DOMAIN calls,
         \A j \in DOMAIN calls : j # k => calls'[j] = calls[j],
         calls'[k].kind = calls[k].kind, calls'[k].ids = calls[k].ids,
         calls'[k].state = "pending" => calls[k].state = "pending" \/ turn' # <<>>,
         calls'[k].state = "open" =>
           /\ calls[k].state = "open"
           /\ calls'[k].queue # <<>> /\ calls'[k].queue[1] = "multi"
           /\ \A i \in DOMAIN calls'[k].queue : i > 1 => calls'[k].queue[i] \in Queueable,
         turn' \in Seq(Step), TurnInv', Begins
  PROVE  WholeInv'
<1>1. UNCHANGED <<sent, waiting, promise, ready, replies, queued, ran>>
  BY DEF Still
<1>2. Types'
  BY <1>1 DEF WholeInv, Types
<1>3. CallsKept
  BY DEF CallsKept
<1>4. LinesInv' /\ DownInv' /\ TransactionsWhole'
  BY <1>1, <1>2, <1>3, Callback
<1>5. CallInv'
  <2> DEFINE Says(j) ==
        LET ids == calls'[j].ids IN
        /\ \A i \in DOMAIN ids : ids[i] \in 1..Len(promise')
        /\ calls'[j].state = "pending" /\ turn' = <<>> => ids # <<>>
        /\ calls'[j].kind = "multi" => \A i \in DOMAIN ids : ids[i] = ids[1] + i - 1
        /\ calls'[j].state = "open" =>
             /\ calls'[j].kind = "multi" /\ ids = <<>>
             /\ calls'[j].queue # <<>> /\ calls'[j].queue[1] = "multi"
             /\ \A i \in DOMAIN calls'[j].queue : i > 1 => calls'[j].queue[i] \in Queueable
  <2>1. ASSUME NEW j \in DOMAIN calls, j # k
        PROVE  Says(j)
    <3>1. promise' = promise /\ calls'[j] = calls[j]
      BY <1>1, <2>1
    <3> QED BY <2>1, <3>1, CallsStay
  <2>2. Says(k)
    <3>1. /\ \A i \in DOMAIN calls[k].ids : calls[k].ids[i] \in 1..Len(promise)
          /\ calls[k].state = "pending" /\ turn = <<>> => calls[k].ids # <<>>
          /\ IsMulti(k) =>
               \A i \in DOMAIN calls[k].ids : calls[k].ids[i] = calls[k].ids[1] + i - 1
          /\ calls[k].state = "open" => IsMulti(k) /\ calls[k].ids = <<>>
      BY DEF WholeInv, CallInv
    <3>2. promise' = promise /\ turn = <<>>
      BY <1>1 DEF Idle
    <3> QED BY <3>1, <3>2 DEF IsMulti
  <2>3. \A j \in DOMAIN calls' : Says(j)
    BY <2>1, <2>2
  <2> QED BY <2>3 DEF CallInv, IsMulti
<1> QED BY <1>2, <1>4, <1>5 DEF WholeInv

LEMMA PutCall ==
  ASSUME Types, NEW k \in DOMAIN calls, NEW rec \in CallRecord,
         calls' = [calls EXCEPT ![k] = rec]
  PROVE  /\ calls' \in Seq(CallRecord) /\ DOMAIN calls' = DOMAIN calls
         /\ calls'[k] = rec /\ \A j \in DOMAIN calls : j # k => calls'[j] = calls[j]
<1>1. calls \in Seq(CallRecord)
  BY DEF Types
<1> QED BY <1>1

LEMMA QueueStep ==
  ASSUME WholeInv, NEW k \in DOMAIN calls, Queue(k)
  PROVE  WholeInv'
<1>1. /\ Types /\ Idle /\ turn' = turn /\ turn' = <<>>
      /\ calls \in Seq(CallRecord) /\ turn \in Seq(Step)
      /\ Queueable \subseteq Ops
  BY CallsAssumption DEF WholeInv, Types, Queue, Idle, Ops
<1>2. Still /\ UNCHANGED <<value, counter>>
  BY DEF Queue, Still, pipe, server
<1>3. PICK op \in Queueable : calls' = [calls EXCEPT ![k].queue = Append(@, op)]
  BY DEF Queue
<1> DEFINE q   == calls[k].queue
           rec == [calls[k] EXCEPT !.queue = Append(q, op)]
<1>4. calls[k] \in CallRecord /\ q \in Seq(Ops) /\ Append(q, op) \in Seq(Ops)
  <2>1. calls[k] \in CallRecord
    BY <1>1
  <2>2. q \in Seq(Ops)
    BY <2>1 DEF CallRecord
  <2>3. op \in Ops
    BY <1>1
  <2> QED BY <2>1, <2>2, <2>3
<1>a. /\ rec \in CallRecord /\ rec.kind = calls[k].kind /\ rec.ids = calls[k].ids
      /\ rec.state = calls[k].state /\ rec.queue = Append(q, op)
  BY <1>4 DEF CallRecord
<1>b. calls' = [calls EXCEPT ![k] = rec]
  BY <1>3
<1> HIDE DEF rec
<1>5. /\ calls' \in Seq(CallRecord) /\ DOMAIN calls' = DOMAIN calls
      /\ calls'[k] = rec /\ \A j \in DOMAIN calls : j # k => calls'[j] = calls[j]
  BY <1>1, <1>a, <1>b, PutCall
<1>6. /\ calls'[k].kind = calls[k].kind /\ calls'[k].ids = calls[k].ids
      /\ calls'[k].state = calls[k].state /\ calls'[k].queue = Append(q, op)
  BY <1>5, <1>a
<1>7. ASSUME calls[k].state = "open"
      PROVE  /\ calls'[k].queue # <<>> /\ calls'[k].queue[1] = "multi"
             /\ \A i \in DOMAIN calls'[k].queue : i > 1 => calls'[k].queue[i] \in Queueable
  <2>1. /\ q # <<>> /\ q[1] = "multi" /\ q \in Seq(Ops)
        /\ \A i \in DOMAIN q : i > 1 => q[i] \in Queueable
    BY <1>4, <1>7 DEF WholeInv, CallInv
  <2> HIDE DEF q
  <2>2. /\ Append(q, op) # <<>> /\ Append(q, op)[1] = "multi"
        /\ \A i \in DOMAIN Append(q, op) : i > 1 => Append(q, op)[i] \in Queueable
    <3> DEFINE r == Append(q, op)
    <3>1. /\ Len(q) \in Nat /\ Len(q) >= 1 /\ DOMAIN q = 1..Len(q)
          /\ DOMAIN r = 1..(Len(q) + 1) /\ r[Len(q) + 1] = op
          /\ \A i \in 1..Len(q) : r[i] = q[i]
      BY <1>4, <2>1
    <3>2. r # <<>>
      BY <3>1
    <3> HIDE DEF r
    <3> QED BY <1>3, <2>1, <3>1, <3>2 DEF r
  <2> QED BY <1>6, <2>2 DEF q
<1>8. TurnInv' /\ Begins
  BY <1>1 DEF TurnInv, Begins
<1> QED BY <1>1, <1>2, <1>5, <1>6, <1>7, <1>8, CallChanges

LEMMA ExecStep ==
  ASSUME WholeInv, NEW k \in DOMAIN calls, Exec(k)
  PROVE  WholeInv'
<1> DEFINE q == calls[k].queue
           r == Append(q, "exec")
           rec == [calls[k] EXCEPT !.queue = r, !.state = "pending"]
<1>1. /\ Types /\ CallInv /\ Idle /\ turn = <<>> /\ (ready => waiting = <<>>)
      /\ calls \in Seq(CallRecord) /\ calls[k].state = "open" /\ k \in Nat
      /\ Queueable \subseteq Ops \ {"multi", "exec"}
  BY CallsAssumption DEF WholeInv, Types, Exec, Idle, Ops
<1>2. Still /\ UNCHANGED <<value, counter>>
  BY DEF Exec, Still, pipe, server
<1>2a. calls[k] \in CallRecord /\ q \in Seq(Ops)
  <2>1. calls[k] \in CallRecord
    BY <1>1
  <2> QED BY <2>1 DEF CallRecord
<1>3. r \in Seq(Ops) /\ Len(r) = Len(q) + 1 /\ Len(q) \in Nat
  <2>1. "exec" \in Ops
    BY DEF Ops
  <2> QED BY <1>2a, <2>1
<1>4. calls' = [calls EXCEPT ![k] = rec] /\ Sends(k, r)
  BY DEF Exec
<1>4a. /\ rec \in CallRecord /\ rec.kind = calls[k].kind /\ rec.ids = calls[k].ids
       /\ rec.state = "pending"
  BY <1>2a, <1>3 DEF CallRecord, Status
<1> HIDE DEF r, rec
<1>5. /\ calls' \in Seq(CallRecord) /\ DOMAIN calls' = DOMAIN calls
      /\ calls'[k] = rec /\ \A j \in DOMAIN calls : j # k => calls'[j] = calls[j]
  BY <1>1, <1>4, <1>4a, PutCall
<1>6. /\ calls'[k].kind = calls[k].kind /\ calls'[k].ids = calls[k].ids
      /\ calls'[k].state = "pending"
  BY <1>4a, <1>5
<1>7. /\ turn' \in Seq(Step) /\ Len(turn') = Len(r) /\ DOMAIN turn' = 1..Len(r)
      /\ \A i \in 1..Len(r) : turn'[i].call = k /\ turn'[i].op = r[i]
  BY <1>1, <1>3, <1>4, TurnOf
<1>8. turn' # <<>> /\ 1 \in 1..Len(r)
  BY <1>3, <1>7
<1>9. /\ IsMulti(k) /\ calls[k].ids = <<>> /\ r[1] = "multi"
      /\ \A i \in 1..Len(r) : /\ i > 1 => r[i] # "multi"
                              /\ r[i] = "exec" <=> i = Len(r)
  <2>1. /\ IsMulti(k) /\ calls[k].ids = <<>> /\ q # <<>> /\ q[1] = "multi"
        /\ \A i \in DOMAIN q : i > 1 => q[i] \in Queueable
    BY <1>1 DEF CallInv
  <2> HIDE DEF q
  <2>2. /\ Len(q) >= 1 /\ DOMAIN q = 1..Len(q) /\ r[Len(q) + 1] = "exec"
        /\ \A i \in 1..Len(q) : r[i] = q[i]
    BY <1>2a, <1>3, <2>1 DEF r
  <2>3. \A i \in 1..Len(q) : (q[i] = "multi" /\ i = 1) \/ q[i] \in Queueable
    BY <1>3, <2>1, <2>2
  <2> QED BY <1>1, <1>3, <2>1, <2>2, <2>3
<1>10. TurnInv'
  <2>1. k \in DOMAIN calls' /\ turn'[1].call = k /\ \A i \in DOMAIN turn' : turn'[i].call = k
    BY <1>5, <1>7, <1>8
  <2>2. ready' => waiting' = <<>>
    BY <1>1, <1>2 DEF Still
  <2>3. \A j \in DOMAIN calls' : calls'[j].state = "pending" /\ j # k => calls'[j].ids # <<>>
    BY <1>1, <1>5 DEF CallInv
  <2>4. /\ calls'[k].kind = "multi" /\ calls'[k].state # "open" /\ calls'[k].ids = <<>>
        /\ turn'[1].op = "multi"
        /\ \A i \in DOMAIN turn' : /\ i > 1 => turn'[i].op # "multi"
                                   /\ turn'[i].op = "exec" <=> i = Len(turn')
    <3>1. \A i \in DOMAIN turn' : i \in 1..Len(r) /\ turn'[i].op = r[i]
      BY <1>7
    <3>2. turn'[1].op = "multi" /\ Len(turn') = Len(r)
      BY <1>7, <1>8, <1>9
    <3>3. calls'[k].kind = "multi" /\ calls'[k].state # "open" /\ calls'[k].ids = <<>>
      BY <1>6, <1>9 DEF IsMulti
    <3> QED BY <1>9, <3>1, <3>2, <3>3
  <2> QED BY <2>1, <2>2, <2>3, <2>4 DEF TurnInv, IsMulti
<1>11. Begins
  BY <1>1, <1>5, <1>6, <1>7, <1>8, <1>9 DEF Begins, IsMulti
<1> QED BY <1>1, <1>2, <1>5, <1>6, <1>7, <1>8, <1>10, <1>11, CallChanges

\* A handler that sends one more command of its call.
LEMMA HandlerSends ==
  ASSUME WholeInv, Idle, Still, UNCHANGED <<value, counter, calls>>, NEW k \in DOMAIN calls,
         ~IsMulti(k), NEW op \in {"get", "eval"}, Sends(k, <<op>>)
  PROVE  WholeInv'
<1>1. /\ Types /\ CallInv /\ turn = <<>> /\ (ready => waiting = <<>>) /\ calls' = calls
      /\ calls \in Seq(CallRecord) /\ k \in Nat
  BY DEF WholeInv, Types, Idle
<1>2. <<op>> \in Seq(Ops) /\ Len(<<op>>) = 1 /\ \A i \in 1..1 : <<op>>[i] = op
  BY DEF Ops
<1>3. /\ turn' \in Seq(Step) /\ Len(turn') = 1 /\ DOMAIN turn' = 1..1
      /\ \A i \in 1..1 : turn'[i].call = k /\ turn'[i].op = op
  <2>1. /\ turn' \in Seq(Step) /\ Len(turn') = 1 /\ DOMAIN turn' = 1..1
        /\ \A i \in 1..1 : turn'[i].call = k /\ turn'[i].op = <<op>>[i]
    BY <1>1, <1>2, TurnOf
  <2> QED BY <1>2, <2>1
<1>4. turn' # <<>> /\ turn'[1].call = k
  <2>1. turn' # <<>>
    <3>1. Len(turn') = 1
      BY <1>3
    <3> QED BY <3>1
  <2>2. 1 \in 1..1
    OBVIOUS
  <2>3. turn'[1].call = k
    BY <1>3, <2>2
  <2> QED BY <2>1, <2>3
<1>5. TurnInv'
  <2>1. ready' => waiting' = <<>>
    BY <1>1 DEF Still
  <2>2. \A j \in DOMAIN calls' : calls'[j].state = "pending" => calls'[j].ids # <<>>
    BY <1>1 DEF CallInv
  <2>3. \A i \in DOMAIN turn' : turn'[i].call = k /\ turn'[i].op \notin {"multi", "exec"}
    BY <1>3
  <2> QED BY <1>1, <1>4, <2>1, <2>2, <2>3 DEF TurnInv, IsMulti
<1>6. Begins
  BY <1>1, <1>4 DEF Begins, IsMulti
<1>7. calls[k].state = "open" => IsMulti(k)
  BY <1>1 DEF CallInv
<1> QED BY <1>1, <1>3, <1>5, <1>6, <1>7, CallChanges

\* A handler that settles the promise of its call.
LEMMA HandlerSettles ==
  ASSUME WholeInv, Idle, Still, UNCHANGED <<value, counter>>, NEW k \in DOMAIN calls,
         NEW how \in {"resolved", "rejected"}, NEW vals \in Seq(Nat),
         NEW given \in SUBSET [at : Nat, val : Nat], SettlesCall(k, how, vals, given)
  PROVE  WholeInv'
<1> DEFINE rec == [calls[k] EXCEPT !.state = how, !.vals = vals, !.given = given]
<1>1. /\ Types /\ turn = <<>> /\ turn' = <<>> /\ turn' \in Seq(Step)
      /\ calls' = [calls EXCEPT ![k] = rec]
  BY DEF WholeInv, Types, Idle, SettlesCall
<1>2. calls[k] \in CallRecord
  BY <1>1 DEF Types
<1>3. /\ rec \in CallRecord /\ rec.kind = calls[k].kind /\ rec.ids = calls[k].ids
      /\ rec.state = how
  BY <1>2 DEF CallRecord, Status
<1> HIDE DEF rec
<1>4. /\ calls' \in Seq(CallRecord) /\ DOMAIN calls' = DOMAIN calls
      /\ calls'[k] = rec /\ \A j \in DOMAIN calls : j # k => calls'[j] = calls[j]
  BY <1>1, <1>3, PutCall
<1>5. TurnInv' /\ Begins
  BY <1>1 DEF TurnInv, Begins
<1>6. /\ calls'[k].kind = calls[k].kind /\ calls'[k].ids = calls[k].ids
      /\ calls'[k].state # "pending" /\ calls'[k].state # "open"
  BY <1>3, <1>4
<1> QED BY <1>1, <1>4, <1>5, <1>6, CallChanges

LEMMA LastValueType ==
  ASSUME WholeInv, Idle, NEW k \in DOMAIN calls, calls[k].state = "pending"
  PROVE  LastValue(k) \in Seq(Nat)
<1>1. /\ calls \in Seq(CallRecord) /\ value \in Seq(Seq(Nat)) /\ Len(value) = Len(promise)
      /\ turn = <<>>
  BY DEF WholeInv, Types, Idle
<1>2. calls[k].ids \in Seq(Nat) /\ calls[k].ids # <<>>
      /\ \A i \in DOMAIN calls[k].ids : calls[k].ids[i] \in 1..Len(promise)
  <2>1. calls[k] \in CallRecord
    BY <1>1
  <2> QED BY <1>1, <2>1 DEF WholeInv, CallInv, CallRecord
<1>3. Len(calls[k].ids) \in DOMAIN calls[k].ids
  BY <1>2
<1> QED BY <1>1, <1>2, <1>3 DEF LastValue, Sent

LEMMA ReactStep ==
  ASSUME WholeInv, NEW k \in DOMAIN calls, React(k)
  PROVE  WholeInv'
<1>1. Still /\ UNCHANGED <<value, counter>>
  BY DEF React, Still, pipe, server
<1>2. Idle /\ calls[k].state = "pending"
  BY DEF React, IncrReply, EvalShaRejected, ExecResolve, ExecReject, IncrSettles, EvalSettles, Waits
<1>3. LastValue(k) \in Seq(Nat)
  BY <1>2, LastValueType
<1>4. <<>> \in Seq(Nat) /\ {} \in SUBSET [at : Nat, val : Nat]
  OBVIOUS
<1>5. Given(LastValue(k)) \in SUBSET [at : Nat, val : Nat]
  <2> DEFINE vals == LastValue(k)
  <2>1. Len(vals) \in Nat /\ \A i \in 1..Len(vals) : vals[i] \in Nat
    BY <1>3
  <2> HIDE DEF vals
  <2>2. \A i \in 1..(Len(vals) - 1) : i + 1 \in Nat /\ vals[i] \in Nat
    BY <2>1
  <2> QED BY <2>2 DEF Given, vals
<1>6. CASE IncrReply(k)
  BY <1>1, <1>2, <1>6, HandlerSends DEF IncrReply, Waits, IsMulti
<1>7. CASE EvalShaRejected(k)
  BY <1>1, <1>2, <1>7, HandlerSends DEF EvalShaRejected, Waits, IsMulti
<1>8. CASE ExecResolve(k) \/ ExecReject(k) \/ IncrSettles(k) \/ EvalSettles(k)
  <2>1. \/ SettlesCall(k, "resolved", LastValue(k), Given(LastValue(k)))
        \/ SettlesCall(k, "resolved", LastValue(k), {})
        \/ SettlesCall(k, "rejected", <<>>, {})
    BY <1>8, Zenon DEF ExecResolve, ExecReject, IncrSettles, EvalSettles
  <2> QED BY <1>1, <1>2, <1>3, <1>4, <1>5, <2>1, HandlerSettles
<1> QED BY <1>6, <1>7, <1>8 DEF React

------------------------------------------------------------------------------
(* The connection and the server                                           *)

\* Between turns, when the line stays as it is.
LEMMA LineStays ==
  ASSUME WholeInv, turn = <<>>, Types', DownInv', Line' = Line, Len(promise') = Len(promise),
         UNCHANGED <<calls, turn, queued, ran>>, Refusing' => Refusing
  PROVE  WholeInv'
<1>1. CallInv' /\ TurnInv'
  BY DEF WholeInv, CallInv, TurnInv, IsMulti
<1>2. LineInv(Line) /\ EndInv(Line) /\ ServerInv(Line) /\ RanInv(Line)
  BY DEF WholeInv, LinesInv
<1>3. LineInv(Line)'
  <2>1. (\A i \in DOMAIN Line : InLine(Line[i]))'
    BY <1>2 DEF LineInv, InLine, IsMulti, InTurn
  <2>2. (\A i, j \in DOMAIN Line : i < j => Line[i].id < Line[j].id)'
    BY <1>2 DEF LineInv
  <2>3. (\A i \in DOMAIN Line : i + 1 \in DOMAIN Line => Follows(Line[i], Line[i + 1]))'
    BY <1>2 DEF LineInv, Follows, Ends, Starts, IsMulti
  <2> QED BY <2>1, <2>2, <2>3 DEF LineInv
<1>4. EndInv(Line)'
  BY <1>2 DEF EndInv, Ends, IsMulti, InTurn
<1>5. ServerInv(Line)'
  BY <1>2 DEF ServerInv, Starts, IsMulti
<1>6. RanInv(Line)'
  BY <1>2 DEF RanInv, IsMulti, InTurn
<1>7. TransactionsWhole'
  BY DEF WholeInv, TransactionsWhole, Calls, Sent
<1> QED BY <1>1, <1>3, <1>4, <1>5, <1>6, <1>7 DEF WholeInv, LinesInv

LEMMA BecomeReadyStep ==
  ASSUME WholeInv, BecomeReady
  PROVE  WholeInv'
<1>1. /\ Types /\ DownInv /\ turn = <<>> /\ ready'
      /\ UNCHANGED <<sent, waiting, promise, calls, turn, value, replies, queued, counter, ran>>
      /\ ready' \in BOOLEAN
  BY DEF WholeInv, BecomeReady, Idle, pipe, server
<1>2. Types' /\ DownInv'
  BY <1>1 DEF Types, DownInv
<1>3. Line' = Line
  BY <1>1, <1>2, LineSame
<1>4. ~Refusing'
  BY <1>1 DEF Refusing
<1> QED BY <1>1, <1>2, <1>3, <1>4, LineStays

LEMMA OtherWritesStep ==
  ASSUME WholeInv, OtherWrites
  PROVE  WholeInv'
<1>1. /\ Types /\ DownInv /\ turn = <<>> /\ counter' = counter + 1
      /\ UNCHANGED <<sent, waiting, promise, ready, calls, turn, value, replies, queued, ran>>
  BY DEF WholeInv, OtherWrites, Idle, pipe, client
<1>2. Types' /\ DownInv'
  BY <1>1 DEF Types, DownInv
<1>3. Line' = Line
  BY <1>1, <1>2, LineSame
<1> QED BY <1>1, <1>2, <1>3, LineStays DEF Refusing

LEMMA ReplayStep ==
  ASSUME WholeInv, Replay
  PROVE  WholeInv'
<1>1. /\ Types /\ DownInv /\ TurnInv /\ ready
      /\ UNCHANGED <<ready, calls, turn, value, replies, queued, counter, ran>>
  BY DEF WholeInv, Replay, client, server
<1>2. /\ waiting # <<>> /\ sent' = Append(sent, Head(waiting)) /\ waiting' = Tail(waiting)
      /\ promise' = promise
  BY DEF Replay, Pipe!Replay, Pipe!Write, Pipe!Keep, Pipe!Refuse
<1>3. turn = <<>>
  BY <1>1, <1>2 DEF TurnInv
<1>4. sent \in Seq(Command) /\ waiting \in Seq(Command)
  BY <1>1 DEF Types
<1>5. sent' \in Seq(Command) /\ waiting' \in Seq(Command) /\ Len(sent') = Len(sent) + 1
  BY <1>2, <1>4
<1>6. Types'
  BY <1>1, <1>2, <1>5 DEF Types
<1>7. DownInv'
  <2>1. EnableOfflineQueue
    BY <1>1, <1>2, CallsAssumption DEF DownInv
  <2>2. Len(replies) \in Nat /\ Len(sent) \in Nat /\ Len(replies) <= Len(sent)
    BY <1>1, LineShape
  <2>3. Len(replies') <= Len(sent')
    BY <1>1, <1>5, <2>2
  <2> QED BY <1>1, <2>1, <2>3 DEF DownInv
<1>8. Line' = Line
  BY <1>1, <1>2, <1>6, <1>7, LineSame
<1> QED BY <1>1, <1>2, <1>3, <1>6, <1>7, <1>8, LineStays DEF Refusing

LEMMA PutAnywhere ==
  ASSUME NEW S, NEW s \in Seq(S), NEW x, NEW e \in S
  PROVE  [s EXCEPT ![x] = e] \in Seq(S) /\ Len([s EXCEPT ![x] = e]) = Len(s)
<1> DEFINE t == [s EXCEPT ![x] = e]
<1>1. /\ Len(s) \in Nat /\ DOMAIN s = 1..Len(s) /\ \A i \in 1..Len(s) : s[i] \in S
  OBVIOUS
<1>2. t = [i \in 1..Len(s) |-> IF i = x THEN e ELSE s[i]]
  BY <1>1
<1>3. \A i \in 1..Len(s) : (IF i = x THEN e ELSE s[i]) \in S
  BY <1>1
<1> HIDE DEF t
<1>4. t \in Seq(S)
  BY <1>1, <1>2, <1>3
<1>5. Len(t) = Len(s)
  BY <1>1, <1>2, <1>4
<1> QED BY <1>4, <1>5 DEF t

LEMMA SettledType ==
  ASSUME Types, NEW c, NEW how \in Status
  PROVE  Pipe!Settled(c, how) \in Seq(Status) /\ Len(Pipe!Settled(c, how)) = Len(promise)
<1>1. promise \in Seq(Status)
  BY DEF Types
<1> DEFINE p == [promise EXCEPT ![c.id] = how]
<1>3. p \in Seq(Status) /\ Len(p) = Len(promise)
  BY <1>1, PutAnywhere
<1> QED BY <1>1, <1>3 DEF Pipe!Settled

LEMMA DeliverStep ==
  ASSUME WholeInv, Deliver
  PROVE  WholeInv'
<1>1. /\ Types /\ DownInv /\ turn = <<>> /\ replies # <<>>
      /\ UNCHANGED <<ready, calls, turn, queued, counter, ran>>
      /\ replies' = Tail(replies)
  BY DEF WholeInv, Deliver, Idle
<1>2. /\ sent # <<>> /\ sent' = Tail(sent) /\ waiting' = waiting
      /\ value' = [value EXCEPT ![Head(sent).id] = Head(replies).vals]
      /\ \E how \in Status : promise' = Pipe!Settled(Head(sent), how)
  BY DEF Deliver, Pipe!Answer, Status
<1>3. promise' \in Seq(Status) /\ Len(promise') = Len(promise)
  BY <1>1, <1>2, SettledType
<1>4. /\ sent \in Seq(Command) /\ replies \in Seq(ReplyRecord) /\ value \in Seq(Seq(Nat))
      /\ Len(value) = Len(promise)
  BY <1>1 DEF Types
<1>5. /\ sent' \in Seq(Command) /\ Len(sent') = Len(sent) - 1
      /\ replies' \in Seq(ReplyRecord) /\ Len(replies') = Len(replies) - 1
  BY <1>1, <1>2, <1>4
<1>6. value' \in Seq(Seq(Nat)) /\ Len(value') = Len(value)
  <2>1. Head(replies) \in ReplyRecord
    BY <1>1, <1>4
  <2>2. Head(replies).vals \in Seq(Nat)
    BY <2>1 DEF ReplyRecord
  <2> DEFINE x == Head(sent).id
             v == Head(replies).vals
  <2> HIDE DEF x, v
  <2>3. v \in Seq(Nat)
    BY <2>2 DEF v
  <2>4. /\ [value EXCEPT ![x] = v] \in Seq(Seq(Nat))
        /\ Len([value EXCEPT ![x] = v]) = Len(value)
    BY <1>4, <2>3, PutAnywhere
  <2> QED BY <1>2, <2>4 DEF x, v
<1>7. Types'
  BY <1>1, <1>2, <1>3, <1>4, <1>5, <1>6 DEF Types
<1>8. DownInv'
  <2>1. Len(replies) \in Nat /\ Len(sent) \in Nat /\ Len(replies) <= Len(sent)
    BY <1>1, LineShape
  <2>2. Len(replies') <= Len(sent')
    BY <1>5, <2>1
  <2>3. ready
    BY <1>1, <1>2 DEF DownInv
  <2> QED BY <1>1, <1>2, <2>2, <2>3 DEF DownInv
<1>9. Line' = Line
  BY <1>1, <1>2, <1>7, <1>8, LineSame
<1> QED BY <1>1, <1>3, <1>7, <1>8, <1>9, LineStays DEF Refusing

LEMMA LoseStep ==
  ASSUME WholeInv, Lose
  PROVE  WholeInv'
<1>1. /\ Types /\ DownInv /\ CallInv /\ turn = <<>> /\ ~ready' /\ ready' \in BOOLEAN
      /\ UNCHANGED <<calls, turn, value, counter, ran>>
      /\ replies' = <<>> /\ queued' = NotInMulti
  BY DEF WholeInv, Lose, Idle, Pipe!Lose
<1>2. /\ sent' = <<>> /\ waiting' = <<>>
      /\ promise' = promise \/ \E c : promise' = Pipe!Settled(c, "rejected")
  BY DEF Lose, Pipe!Lose
<1>3. promise' \in Seq(Status) /\ Len(promise') = Len(promise)
  BY <1>1, <1>2, SettledType DEF Types, Status
<1>4. Types'
  BY <1>1, <1>2, <1>3 DEF Types
<1>5. DownInv'
  BY <1>1, <1>2 DEF DownInv
<1>6. CallInv' /\ TurnInv'
  BY <1>1, <1>3 DEF CallInv, TurnInv, IsMulti
<1>7. Line' = <<>>
  <2>1. LineSize' = 0
    BY <1>1, <1>2 DEF LineSize, Unserved
  <2> QED BY <2>1 DEF Line
<1>8. LineInv(Line)' /\ EndInv(Line)' /\ ServerInv(Line)'
  BY <1>1, <1>7 DEF LineInv, EndInv, ServerInv
<1>9. RanInv(Line)'
  BY <1>1, <1>7 DEF WholeInv, LinesInv, RanInv, IsMulti, InTurn
<1>10. TransactionsWhole'
  BY <1>1 DEF WholeInv, TransactionsWhole, Calls, Sent
<1> QED BY <1>4, <1>5, <1>6, <1>8, <1>9, <1>10 DEF WholeInv, LinesInv

LineGood ==
  /\ Line \in Seq(Command) /\ Len(Line) = LineSize /\ LineSize \in Nat
  /\ DOMAIN Line = 1..LineSize

LEMMA LineIsGood == Types /\ DownInv => LineGood
BY LineShape DEF LineGood

LEMMA LineGoodNext ==
  ASSUME Types', DownInv'
  PROVE  LineGood'
BY LineIsGood, PTL

\* The transaction of c is run by EXEC, or c is a command of no transaction.
Runs(c, cmds) ==
  /\ cmds \in Seq(Command) /\ \A i \in DOMAIN cmds : cmds[i].call = c.call
  /\ ~IsMulti(c.call) => cmds = <<c>>
  /\ IsMulti(c.call) =>
       LET b == calls[c.call].ids[1] IN
       /\ c.op = "exec" /\ Len(cmds) = c.id - b - 1
       /\ \A i \in DOMAIN cmds : cmds[i].id = b + i

\* Nothing is run: it is refused, or it is of a multi and has to wait for EXEC.
RunsNot(c) ==
  RunNothing("error") \/ (IsMulti(c.call) /\ (RunNothing("ok") \/ RunNothing("null")))

\* The server moves between turns and takes the head of the line.
LEMMA ServeLine ==
  ASSUME WholeInv, Serve
  PROVE  /\ Types' /\ DownInv' /\ LineGood /\ LineGood' /\ turn = <<>>
         /\ UNCHANGED <<sent, waiting, promise, ready, calls, turn, value>>
         /\ LineSize >= 1 /\ LineSize' = LineSize - 1 /\ Taken = Line[1]
         /\ \A i \in 1..LineSize' : i + 1 \in 1..LineSize /\ Line'[i] = Line[i + 1]
<1>1. /\ Types /\ DownInv /\ turn = <<>>
      /\ UNCHANGED <<sent, waiting, promise, ready, calls, turn, value>>
  BY DEF WholeInv, Serve, Idle, pipe, client
<1>2. Types' /\ Len(replies') = Len(replies) + 1 /\ Len(replies) < Len(sent)
  BY <1>1, ServeTypes, ServeCases
<1>3. Len(replies) \in Nat /\ Len(sent) \in Nat
  BY <1>1, LineShape
<1>4. ready
  <2>1. sent # <<>>
    BY <1>2, <1>3
  <2> QED BY <1>1, <2>1 DEF DownInv
<1>5. DownInv'
  <2>1. Len(replies') <= Len(sent')
    BY <1>1, <1>2, <1>3
  <2> QED BY <1>1, <1>4, <2>1 DEF DownInv
<1>6. LineGood /\ LineGood'
  BY <1>1, <1>2, <1>5, LineIsGood, LineGoodNext
<1>7. /\ LineSize \in Nat \ {0} /\ LineSize' = LineSize - 1
      /\ Line[1] = sent[Len(replies) + 1]
      /\ \A i \in 1..LineSize' : Line'[i] = Line[i + 1]
  BY <1>1, <1>2, <1>5, LineTail
<1>8. \A i \in 1..LineSize' : i + 1 \in 1..LineSize
  BY <1>7
<1> QED BY <1>1, <1>2, <1>5, <1>6, <1>7, <1>8 DEF Taken

\* What is behind the command at the head of the line.
LEMMA ServeNext ==
  ASSUME WholeInv, Serve
  PROVE  /\ InLine(Taken)
         /\ ~Ends(Taken) => LineSize >= 2
         /\ LineSize >= 2 => /\ Line'[1] = Line[2] /\ InLine(Line[2])
                             /\ Follows(Taken, Line[2]) /\ Taken.id < Line[2].id
<1>1. /\ LineGood /\ LineGood' /\ turn = <<>> /\ LineSize >= 1 /\ LineSize' = LineSize - 1
      /\ Taken = Line[1] /\ \A i \in 1..LineSize' : Line'[i] = Line[i + 1]
  BY ServeLine
<1>2. LineSize \in Nat /\ DOMAIN Line = 1..LineSize /\ Len(Line) = LineSize
  BY <1>1 DEF LineGood
<1>3. LineInv(Line) /\ EndInv(Line)
  BY DEF WholeInv, LinesInv
<1>4. InLine(Taken)
  <2>1. 1 \in DOMAIN Line
    BY <1>1, <1>2
  <2> QED BY <1>1, <1>3, <2>1 DEF LineInv
<1>5. ASSUME ~Ends(Taken), ~(LineSize >= 2)
      PROVE  FALSE
  <2>1. LineSize = 1
    BY <1>1, <1>2, <1>5
  <2>2. Line # <<>> /\ Line[Len(Line)] = Taken
    BY <1>1, <1>2, <2>1
  <2> QED BY <1>1, <1>3, <1>5, <2>2 DEF EndInv, InTurn
<1>6. ASSUME LineSize >= 2
      PROVE  /\ Line'[1] = Line[2] /\ InLine(Line[2])
             /\ Follows(Taken, Line[2]) /\ Taken.id < Line[2].id
  <2>1. 1 \in DOMAIN Line /\ 2 \in DOMAIN Line /\ 1 + 1 = 2 /\ 1 \in 1..LineSize' /\ 1 < 2
    BY <1>1, <1>2, <1>6
  <2>2. Line'[1] = Line[2]
    BY <1>1, <2>1
  <2>3. InLine(Line[2]) /\ Line[1].id < Line[2].id
    BY <1>3, <2>1 DEF LineInv
  <2>4. Follows(Line[1], Line[1 + 1])
    BY <1>3, <2>1 DEF LineInv
  <2>5. Follows(Line[1], Line[2])
    BY <2>1, <2>4
  <2> QED BY <1>1, <2>2, <2>3, <2>5
<1> QED BY <1>4, <1>5, <1>6

\* What MULTI has queued stays what the line has lost, and only a whole
\* transaction or a command of no transaction is run.
LEMMA ServeKeepsServer ==
  ASSUME WholeInv, Serve
  PROVE  /\ ServerInv(Line)'
         /\ RunsNot(Taken) \/ \E cmds : Runs(Taken, cmds) /\ Enters(cmds)
<1> DEFINE c == Taken
           d == Line[2]
           b == calls[c.call].ids[1]
<1>1. /\ Types /\ LineGood /\ LineGood' /\ turn = <<>> /\ calls' = calls
      /\ LineSize >= 1 /\ LineSize' = LineSize - 1 /\ c = Line[1]
  BY ServeLine DEF WholeInv
<1>2. /\ InLine(c) /\ (~Ends(c) => LineSize >= 2)
      /\ LineSize >= 2 => Line'[1] = d /\ InLine(d) /\ Follows(c, d) /\ c.id < d.id
  BY ServeNext
<1>3. c \in Command /\ (TakesExec(c) \/ TakesQueued(c) \/ TakesAlone(c))
  BY <1>1, ServeCases
<1>4. /\ LineSize \in Nat /\ Line # <<>> /\ (Line' # <<>> <=> LineSize >= 2)
      /\ LineSize >= 2 => d \in Command
  <2>1. LineSize \in Nat /\ Line \in Seq(Command) /\ Len(Line) = LineSize
        /\ Line' \in Seq(Command) /\ Len(Line') = LineSize'
    BY <1>1 DEF LineGood
  <2> QED BY <1>1, <2>1
<1>5. ServerInv(Line)
  BY DEF WholeInv, LinesInv
<1>6. queued # NotInMulti =>
        /\ queued \in Transaction /\ ~Starts(c)
        /\ ~queued.aborts =>
             /\ Len(queued.cmds) = c.id - b - 1
             /\ \A i \in DOMAIN queued.cmds :
                  queued.cmds[i].id = b + i /\ queued.cmds[i].call = c.call
  BY <1>1, <1>5 DEF ServerInv, Types
<1>7. queued = NotInMulti => Starts(c)
  BY <1>1, <1>4, <1>5 DEF ServerInv
<1> HIDE DEF c, d
<1>8. ASSUME queued' = NotInMulti, LineSize >= 2 => Starts(d)
      PROVE  ServerInv(Line)'
  BY <1>1, <1>2, <1>4, <1>8 DEF ServerInv, Starts, IsMulti
<1>9. ASSUME queued' \in Transaction, LineSize >= 2, ~Starts(d), d.call = c.call,
             ~queued'.aborts =>
               /\ Len(queued'.cmds) = d.id - b - 1
               /\ \A i \in DOMAIN queued'.cmds :
                    queued'.cmds[i].id = b + i /\ queued'.cmds[i].call = c.call
      PROVE  ServerInv(Line)'
  <2>1. queued' # NotInMulti
    BY <1>9, CallsAssumption
  <2>2. Line' # <<>> /\ Line'[1] = d /\ ~Starts(Line[1])'
    BY <1>1, <1>2, <1>4, <1>9 DEF Starts, IsMulti
  <2> QED BY <1>1, <1>9, <2>1, <2>2 DEF ServerInv
<1>10. ASSUME ~Ends(c)
       PROVE  /\ LineSize >= 2 /\ IsMulti(c.call) /\ d.call = c.call /\ d.id = c.id + 1
              /\ ~Starts(d) /\ b \in Nat /\ c.id \in Nat /\ b <= c.id
              /\ c.op = "multi" => c.id = b
  <2>1. LineSize >= 2 /\ IsMulti(c.call) /\ d.call = c.call /\ d.id = c.id + 1 /\ InLine(d)
    BY <1>2, <1>10 DEF Follows, Ends
  <2>2. /\ c.call \in DOMAIN calls /\ calls[c.call].ids # <<>>
        /\ c.id \in b..calls[c.call].ids[Len(calls[c.call].ids)]
        /\ c.op = "multi" => c.id = b
    BY <1>2, <2>1 DEF InLine
  <2>3. b \in Nat
    <3>1. calls[c.call] \in CallRecord
      BY <1>1, <2>2 DEF Types
    <3>2. calls[c.call].ids \in Seq(Nat)
      BY <3>1 DEF CallRecord
    <3> QED BY <2>2, <3>2
  <2>4. c.id \in Nat
    BY <1>3 DEF Command
  <2>5. b <= c.id /\ d.id # b
    BY <2>1, <2>2, <2>3, <2>4
  <2>6. d.op # "multi"
    BY <2>1, <2>5 DEF InLine
  <2> QED BY <2>1, <2>2, <2>3, <2>4, <2>5, <2>6 DEF Starts
<1> HIDE DEF b
<1>11. ASSUME TakesExec(c)
       PROVE  ServerInv(Line)' /\ (RunsNot(c) \/ \E cmds : Runs(c, cmds) /\ Enters(cmds))
  <2>1. queued' = NotInMulti /\ c.op = "exec"
    BY <1>11 DEF TakesExec
  <2>2. LineSize >= 2 => Starts(d)
    BY <1>2, <2>1 DEF Follows, Ends
  <2>3. ServerInv(Line)'
    BY <1>8, <2>1, <2>2
  <2>4. CASE RunNothing("null") \/ RunNothing("error")
    <3>1. IsMulti(c.call)
      BY <1>2, <2>1 DEF InLine
    <3> QED BY <2>3, <2>4, <3>1 DEF RunsNot
  <2>5. CASE queued # NotInMulti /\ ~queued.aborts /\ Enters(queued.cmds)
    <3>1. queued.cmds \in Seq(Command)
      BY <1>6, <2>5 DEF Transaction
    <3>2. IsMulti(c.call)
      BY <1>2, <2>1 DEF InLine
    <3>3. Runs(c, queued.cmds)
      BY <1>6, <2>1, <2>5, <3>1, <3>2 DEF Runs, b
    <3> QED BY <2>3, <2>5, <3>3
  <2> QED BY <1>11, <2>4, <2>5, Zenon DEF TakesExec
<1>12. ASSUME TakesQueued(c)
       PROVE  ServerInv(Line)' /\ RunsNot(c)
  <2>1. queued # NotInMulti /\ c.op # "exec" /\ queued \in Transaction /\ ~Starts(c)
    BY <1>6, <1>12, Zenon DEF TakesQueued
  <2>2. ~Ends(c) /\ c.op # "multi" /\ IsMulti(c.call)
    BY <2>1 DEF Starts, Ends
  <2>3. RunsNot(c)
    BY <1>12, <2>2, Zenon DEF TakesQueued, RunsNot
  <2>4. queued.cmds \in Seq(Command) /\ queued.aborts \in BOOLEAN
    BY <2>1 DEF Transaction
  <2>5. CASE c.op = "bad" /\ queued' = [queued EXCEPT !.aborts = @ \/ c.op = "bad"]
    <3>1. queued' \in Transaction /\ queued'.aborts
      BY <2>1, <2>5 DEF Transaction
    <3> QED BY <1>9, <1>10, <2>2, <2>3, <3>1
  <2>6. CASE queued' = [queued EXCEPT !.cmds = Append(@, c)]
    <3> DEFINE q == queued.cmds
               r == Append(q, c)
    <3>1. r \in Seq(Command)
      BY <1>3, <2>4
    <3>2. queued' \in Transaction /\ queued'.aborts = queued.aborts /\ queued'.cmds = r
      <4> HIDE DEF r
      <4>1. queued' = [queued EXCEPT !.cmds = r]
        BY <2>6 DEF r
      <4> QED BY <2>1, <3>1, <4>1 DEF Transaction
    <3>3. ASSUME ~queued.aborts
          PROVE  /\ Len(r) = d.id - b - 1
                 /\ \A i \in DOMAIN r : r[i].id = b + i /\ r[i].call = c.call
      <4>1. /\ Len(q) = c.id - b - 1 /\ DOMAIN q = 1..Len(q) /\ Len(q) \in Nat
            /\ \A i \in DOMAIN q : q[i].id = b + i /\ q[i].call = c.call
        BY <1>6, <2>1, <2>4, <3>3
      <4>2. /\ Len(r) = Len(q) + 1 /\ DOMAIN r = 1..(Len(q) + 1) /\ r[Len(q) + 1] = c
            /\ \A i \in 1..Len(q) : r[i] = q[i]
        BY <2>4
      <4>3. b \in Nat /\ c.id \in Nat /\ d.id = c.id + 1
        BY <1>10, <2>2
      <4> HIDE DEF q, r
      <4>4. Len(r) = d.id - b - 1 /\ c.id = b + (Len(q) + 1)
        <5>1. Len(q) = c.id - b - 1 /\ Len(q) \in Nat /\ Len(r) = Len(q) + 1
          BY <4>1, <4>2
        <5> QED BY <5>1, <4>3
      <4>5. ASSUME NEW i \in DOMAIN r
            PROVE  r[i].id = b + i /\ r[i].call = c.call
        <5>1. CASE i \in 1..Len(q)
          BY <4>1, <4>2, <5>1
        <5>2. CASE i = Len(q) + 1
          BY <4>2, <4>4, <5>2
        <5>3. i \in 1..Len(q) \/ i = Len(q) + 1
          BY <4>1, <4>2, <4>5
        <5> QED BY <5>1, <5>2, <5>3
      <4> QED BY <4>4, <4>5
    <3> HIDE DEF r
    <3> QED BY <1>9, <1>10, <2>2, <2>3, <3>2, <3>3
  <2> QED BY <1>12, <2>2, <2>5, <2>6, Zenon DEF TakesQueued
<1>13. ASSUME TakesAlone(c)
       PROVE  ServerInv(Line)' /\ (RunsNot(c) \/ \E cmds : Runs(c, cmds) /\ Enters(cmds))
  <2>1. queued = NotInMulti /\ c.op # "exec" /\ Starts(c)
    BY <1>7, <1>13, Zenon DEF TakesAlone
  <2>2. CASE c.op = "multi" /\ queued' = [cmds |-> <<>>, aborts |-> FALSE] /\ RunNothing("ok")
    <3>1. IsMulti(c.call)
      BY <1>2, <2>2 DEF InLine
    <3>2. ~Ends(c)
      BY <2>1, <3>1 DEF Ends
    <3>3. queued' \in Transaction /\ queued'.cmds = <<>>
      BY <2>2 DEF Transaction
    <3>4. Len(<<>>) = d.id - b - 1
      BY <1>10, <2>2, <3>2
    <3>5. \A i \in DOMAIN queued'.cmds : FALSE
      BY <3>3
    <3> QED BY <1>9, <1>10, <2>2, <3>1, <3>2, <3>3, <3>4, <3>5 DEF RunsNot
  <2>3. CASE c.op # "multi" /\ queued' = NotInMulti /\ (Enters(<<c>>) \/ RunNothing("error"))
    <3>1. ~IsMulti(c.call) /\ Ends(c)
      BY <2>1, <2>3 DEF Starts, Ends
    <3>2. ServerInv(Line)'
      BY <1>2, <1>8, <2>3, <3>1 DEF Follows
    <3>3. Runs(c, <<c>>)
      BY <1>3, <3>1 DEF Runs
    <3> QED BY <2>3, <3>2, <3>3 DEF RunsNot
  <2> QED BY <1>13, <2>2, <2>3, Zenon DEF TakesAlone
<1> QED BY <1>3, <1>11, <1>12, <1>13 DEF c

\* Of the transaction that is run nothing is behind its EXEC.
LEMMA RunsLast ==
  ASSUME WholeInv, Serve, NEW cmds, Runs(Taken, cmds)
  PROVE  LET k == Taken.call IN
         /\ k \in DOMAIN calls
         /\ IsMulti(k) =>
              /\ calls[k].state # "open" /\ \A j \in 1..LineSize' : Line'[j].call # k
              /\ \A i \in DOMAIN ran : ran[i].call # k
              /\ calls[k].ids \in Seq(Nat) /\ Len(cmds) = Sent(k) - 2
              /\ \A i \in DOMAIN cmds : cmds[i].id = calls[k].ids[i + 1]
<1> DEFINE c   == Taken
           k   == c.call
           ids == calls[k].ids
<1>1. /\ LineGood /\ LineSize >= 1 /\ c = Line[1] /\ calls \in Seq(CallRecord)
      /\ \A i \in 1..LineSize' : i + 1 \in 1..LineSize /\ Line'[i] = Line[i + 1]
  BY ServeLine DEF WholeInv, Types
<1>2. LineSize \in Nat /\ DOMAIN Line = 1..LineSize /\ Line \in Seq(Command) /\ 1 \in DOMAIN Line
  BY <1>1 DEF LineGood
<1>3. LineInv(Line) /\ RanInv(Line) /\ CallInv
  BY DEF WholeInv, LinesInv
<1>4. InLine(c)
  BY ServeNext
<1>5. k \in DOMAIN calls
  BY <1>4 DEF InLine
<1>6. ASSUME IsMulti(k)
      PROVE  /\ calls[k].state # "open" /\ \A j \in 1..LineSize' : Line'[j].call # k
             /\ \A i \in DOMAIN ran : ran[i].call # k
             /\ ids \in Seq(Nat) /\ Len(cmds) = Sent(k) - 2
             /\ \A i \in DOMAIN cmds : cmds[i].id = ids[i + 1]
  <2>1. /\ calls[k].state # "open" /\ ids # <<>> /\ c.op = "exec" /\ c.id = ids[Len(ids)]
        /\ cmds \in Seq(Command) /\ Len(cmds) = c.id - ids[1] - 1
        /\ \A i \in DOMAIN cmds : cmds[i].id = ids[1] + i
    BY <1>4, <1>6 DEF InLine, Runs
  <2>2. ids \in Seq(Nat) /\ \A i \in DOMAIN ids : ids[i] = ids[1] + i - 1
    <3>1. calls[k] \in CallRecord
      BY <1>1, <1>5
    <3> QED BY <1>3, <1>5, <1>6, <3>1 DEF CallInv, CallRecord
  <2> HIDE DEF ids
  <2>3. /\ Len(ids) \in Nat /\ Len(ids) >= 1 /\ DOMAIN ids = 1..Len(ids)
        /\ ids[1] \in Nat /\ ids[Len(ids)] = ids[1] + Len(ids) - 1
    <3>1. Len(ids) \in Nat /\ Len(ids) >= 1 /\ DOMAIN ids = 1..Len(ids)
      BY <2>1, <2>2
    <3>2. 1 \in DOMAIN ids /\ Len(ids) \in DOMAIN ids
      BY <3>1
    <3> QED BY <2>2, <3>1, <3>2
  <2>4. Len(cmds) = Len(ids) - 2
    BY <2>1, <2>3
  <2>5. \A i \in DOMAIN cmds : cmds[i].id = ids[i + 1]
    <3> SUFFICES ASSUME NEW i \in DOMAIN cmds
                 PROVE  cmds[i].id = ids[i + 1]
      OBVIOUS
    <3>1. i \in Nat /\ i + 1 \in DOMAIN ids
      BY <2>1, <2>3, <2>4
    <3>2. ids[i + 1] = ids[1] + (i + 1) - 1
      BY <2>2, <3>1
    <3>3. cmds[i].id = ids[1] + i
      BY <2>1
    <3> QED BY <2>3, <3>1, <3>2, <3>3
  <2>6. ASSUME NEW j \in 1..LineSize', Line'[j].call = k
        PROVE  FALSE
    <3> DEFINE d == Line[j + 1]
    <3>1. /\ j + 1 \in DOMAIN Line /\ d.call = k /\ 1 < j + 1
      BY <1>1, <1>2, <2>6
    <3>2. InLine(d) /\ c.id < d.id /\ c \in Command /\ d \in Command
      BY <1>1, <1>2, <1>3, <3>1 DEF LineInv
    <3>3. d.id \in ids[1]..ids[Len(ids)] /\ c.id \in Nat /\ d.id \in Nat
      BY <1>6, <3>1, <3>2 DEF InLine, Command, ids
    <3> HIDE DEF d, c
    <3> QED BY <2>1, <2>3, <3>2, <3>3
  <2>7. \A i \in DOMAIN ran : ran[i].call # k
    BY <1>1, <1>2, <1>3, <1>6 DEF RanInv
  <2> QED BY <2>1, <2>2, <2>4, <2>5, <2>6, <2>7 DEF Sent, ids
<1> QED BY <1>5, <1>6

LEMMA ServeStep ==
  ASSUME WholeInv, Serve
  PROVE  WholeInv'
<1>1. /\ Types' /\ DownInv' /\ LineGood /\ LineGood' /\ turn = <<>> /\ Types
      /\ UNCHANGED <<promise, ready, calls, turn>>
      /\ LineSize >= 1 /\ LineSize' = LineSize - 1
      /\ \A i \in 1..LineSize' : i + 1 \in 1..LineSize /\ Line'[i] = Line[i + 1]
  BY ServeLine DEF WholeInv
<1>2. /\ LineSize \in Nat /\ DOMAIN Line = 1..LineSize /\ Len(Line) = LineSize
      /\ Line' \in Seq(Command) /\ DOMAIN Line' = 1..LineSize' /\ Len(Line') = LineSize'
  BY <1>1 DEF LineGood
<1>3. LineInv(Line) /\ EndInv(Line) /\ RanInv(Line) /\ TransactionsWhole
  BY DEF WholeInv, LinesInv
<1>4. CallInv' /\ TurnInv'
  BY <1>1 DEF WholeInv, CallInv, TurnInv, IsMulti
<1>5. LineInv(Line)'
  <2>1. (\A i \in DOMAIN Line : InLine(Line[i]))'
    <3>1. ASSUME NEW i \in 1..LineSize'
          PROVE  InLine(Line[i])'
      <4>1. InLine(Line[i + 1]) /\ Line'[i] = Line[i + 1]
        BY <1>1, <1>2, <1>3, <3>1 DEF LineInv
      <4> QED BY <1>1, <4>1 DEF InLine, IsMulti, InTurn
    <3> QED BY <1>2, <3>1
  <2>2. (\A i, j \in DOMAIN Line : i < j => Line[i].id < Line[j].id)'
    <3>1. ASSUME NEW i \in 1..LineSize', NEW j \in 1..LineSize', i < j
          PROVE  Line'[i].id < Line'[j].id
      <4>1. i + 1 \in DOMAIN Line /\ j + 1 \in DOMAIN Line /\ i + 1 < j + 1
        BY <1>1, <1>2, <3>1
      <4>2. Line[i + 1].id < Line[j + 1].id
        BY <1>3, <4>1 DEF LineInv
      <4> QED BY <1>1, <3>1, <4>2
    <3> QED BY <1>2, <3>1
  <2>3. (\A i \in DOMAIN Line : i + 1 \in DOMAIN Line => Follows(Line[i], Line[i + 1]))'
    <3>1. ASSUME NEW i \in 1..LineSize', i + 1 \in 1..LineSize'
          PROVE  Follows(Line[i], Line[i + 1])'
      <4>1. i + 1 \in DOMAIN Line /\ (i + 1) + 1 \in DOMAIN Line
        BY <1>1, <1>2, <3>1
      <4>2. Follows(Line[i + 1], Line[(i + 1) + 1])
        BY <1>3, <4>1 DEF LineInv
      <4>3. Line'[i] = Line[i + 1] /\ Line'[i + 1] = Line[(i + 1) + 1]
        BY <1>1, <3>1
      <4> QED BY <1>1, <4>2, <4>3 DEF Follows, Ends, Starts, IsMulti
    <3> QED BY <1>2, <3>1
  <2> QED BY <2>1, <2>2, <2>3 DEF LineInv
<1>6. EndInv(Line)'
  <2>1. ~Refusing'
    <3>1. Line # <<>>
      BY <1>1, <1>2
    <3> QED BY <1>1, <1>3, <3>1 DEF EndInv, Refusing
  <2>2. ASSUME Line' # <<>>
        PROVE  Ends(Line[Len(Line)])'
    <3>1. LineSize' \in 1..LineSize' /\ LineSize' + 1 = LineSize /\ Line # <<>>
      BY <1>1, <1>2, <2>2
    <3>2. Line'[LineSize'] = Line[LineSize]
      BY <1>1, <3>1
    <3>3. Ends(Line[LineSize])
      BY <1>1, <1>2, <1>3, <3>1 DEF EndInv, InTurn
    <3> QED BY <1>1, <1>2, <3>2, <3>3 DEF Ends, IsMulti
  <2> QED BY <1>1, <2>1, <2>2 DEF EndInv
<1>7. ServerInv(Line)' /\ (ran' = ran \/ \E cmds : Runs(Taken, cmds) /\ Enters(cmds))
  <2>1. ServerInv(Line)' /\ (RunsNot(Taken) \/ \E cmds : Runs(Taken, cmds) /\ Enters(cmds))
    BY ServeKeepsServer
  <2>2. RunsNot(Taken) => ran' = ran
    BY DEF RunsNot, RunNothing
  <2> QED BY <2>1, <2>2
<1>8. ASSUME NEW i \in DOMAIN ran
      PROVE  LET k == ran[i].call IN
             /\ k \in DOMAIN calls
             /\ IsMulti(k) => /\ calls[k].state # "open"
                              /\ \A j \in 1..LineSize' : Line'[j].call # k
  BY <1>1, <1>2, <1>3, <1>8 DEF RanInv
<1>9. CASE ran' = ran
  <2>1. RanInv(Line)'
    BY <1>1, <1>2, <1>8, <1>9 DEF RanInv, IsMulti, InTurn
  <2>2. TransactionsWhole'
    BY <1>1, <1>3, <1>9 DEF TransactionsWhole, Calls, Sent
  <2> QED BY <1>1, <1>4, <1>5, <1>6, <1>7, <2>1, <2>2 DEF WholeInv, LinesInv
<1>10. ASSUME NEW cmds, Runs(Taken, cmds), Enters(cmds)
       PROVE  WholeInv'
  <2> DEFINE k == Taken.call
             m == Len(ran)
             n == Len(cmds)
  <2>1. /\ cmds \in Seq(Command) /\ DOMAIN cmds = 1..n /\ n \in Nat
        /\ \A i \in 1..n : cmds[i].call = k
    BY <1>10 DEF Runs
  <2>2. /\ ran' \in Seq(Entry) /\ Len(ran') = m + n
        /\ \A i \in 1..m : ran'[i] = ran[i]
        /\ \A i \in 1..n : ran'[m + i].id = cmds[i].id /\ ran'[m + i].call = cmds[i].call
    BY <1>1, <1>10, <2>1, RunEntries
  <2>3. ran \in Seq(Entry) /\ m \in Nat /\ DOMAIN ran = 1..m /\ DOMAIN ran' = 1..(m + n)
    BY <1>1, <2>1, <2>2 DEF Types
  <2>4. /\ k \in DOMAIN calls
        /\ IsMulti(k) =>
             /\ calls[k].state # "open" /\ \A j \in 1..LineSize' : Line'[j].call # k
             /\ \A i \in DOMAIN ran : ran[i].call # k
             /\ calls[k].ids \in Seq(Nat) /\ n = Sent(k) - 2
             /\ \A i \in DOMAIN cmds : cmds[i].id = calls[k].ids[i + 1]
    BY <1>10, RunsLast
  <2> HIDE DEF k, m, n
  <2>5. ASSUME NEW i \in DOMAIN ran'
        PROVE  \/ i \in DOMAIN ran /\ ran'[i] = ran[i]
               \/ /\ i \notin DOMAIN ran /\ i - m \in 1..n /\ i = m + (i - m)
                  /\ ran'[i].call = k /\ ran'[i].id = cmds[i - m].id
    <3>1. CASE i \in 1..m
      BY <2>2, <2>3, <3>1
    <3>2. CASE i \notin 1..m
      <4>1. i - m \in 1..n /\ i = m + (i - m)
        BY <2>1, <2>3, <2>5, <3>2
      <4>2. PICK j \in 1..n : j = i - m
        BY <4>1
      <4>3. ran'[m + j].id = cmds[j].id /\ ran'[m + j].call = k
        BY <2>1, <2>2
      <4> QED BY <2>3, <3>2, <4>1, <4>2, <4>3
    <3> QED BY <3>1, <3>2
  <2>6. RanInv(Line)'
    <3>1. ASSUME NEW i \in DOMAIN ran'
          PROVE  LET j == ran'[i].call IN
                 /\ j \in DOMAIN calls
                 /\ IsMulti(j) => /\ calls[j].state # "open"
                                  /\ \A l \in 1..LineSize' : Line'[l].call # j
      <4>1. CASE i \in DOMAIN ran /\ ran'[i] = ran[i]
        BY <1>8, <4>1
      <4>2. CASE ran'[i].call = k
        BY <2>4, <4>2
      <4> QED BY <2>5, <3>1, <4>1, <4>2
    <3> QED BY <1>1, <1>2, <3>1 DEF RanInv, IsMulti, InTurn
  <2>7. TransactionsWhole'
    <3> SUFFICES ASSUME NEW j \in DOMAIN calls, IsMulti(j),
                        {i \in DOMAIN ran' : ran'[i].call = j} # {}
                 PROVE  LET places == {i \in DOMAIN ran' : ran'[i].call = j} IN
                        \E a \in DOMAIN ran' :
                          /\ places = a..(a + Sent(j) - 3)
                          /\ \A i \in places : ran'[i].id = calls[j].ids[i - a + 2]
      BY <1>1 DEF TransactionsWhole, Calls, Sent, IsMulti
    <3> DEFINE places == {i \in DOMAIN ran' : ran'[i].call = j}
    <3>1. CASE j # k
      <4>1. places = {i \in DOMAIN ran : ran[i].call = j}
        BY <2>1, <2>2, <2>3, <2>5, <3>1
      <4>2. PICK a \in DOMAIN ran :
              /\ places = a..(a + Sent(j) - 3)
              /\ \A i \in places : ran[i].id = calls[j].ids[i - a + 2]
        BY <1>3, <4>1 DEF TransactionsWhole, Calls, IsMulti
      <4>3. a \in DOMAIN ran' /\ \A i \in places : ran'[i] = ran[i]
        BY <2>1, <2>2, <2>3, <4>1
      <4> QED BY <4>2, <4>3
    <3>2. CASE j = k
      <4>1. /\ \A i \in DOMAIN ran : ran[i].call # j
            /\ calls[j].ids \in Seq(Nat) /\ n = Sent(j) - 2 /\ Sent(j) \in Nat
            /\ \A i \in 1..n : cmds[i].id = calls[j].ids[i + 1]
        <5>1. /\ \A i \in DOMAIN ran : ran[i].call # j
              /\ calls[j].ids \in Seq(Nat) /\ n = Sent(j) - 2
              /\ \A i \in DOMAIN cmds : cmds[i].id = calls[j].ids[i + 1]
          BY <2>4, <3>2
        <5>2. Sent(j) \in Nat
          BY <5>1 DEF Sent
        <5> QED BY <2>1, <5>1, <5>2
      <4>2. places = (m + 1)..(m + n)
        <5>1. ASSUME NEW i \in places
              PROVE  i \in (m + 1)..(m + n)
          <6>1. i \in DOMAIN ran' /\ ran'[i].call = j
            BY <5>1
          <6>2. i \notin DOMAIN ran
            BY <2>5, <4>1, <6>1
          <6> QED BY <2>1, <2>3, <6>1, <6>2
        <5>2. ASSUME NEW i \in (m + 1)..(m + n)
              PROVE  i \in places
          <6>1. i \in DOMAIN ran' /\ i \notin DOMAIN ran
            BY <2>1, <2>3, <5>2
          <6> QED BY <2>5, <3>2, <6>1
        <5> QED BY <5>1, <5>2
      <4>3. m + 1 \in DOMAIN ran' /\ (m + 1) + Sent(j) - 3 = m + n
        <5>1. n >= 1
          BY <2>1, <2>3, <4>2
        <5> QED BY <2>1, <2>3, <4>1, <5>1
      <4>4. ASSUME NEW i \in places
            PROVE  ran'[i].id = calls[j].ids[i - (m + 1) + 2]
        <5>1. i \in DOMAIN ran' /\ i \notin DOMAIN ran /\ i \in Int
          BY <2>1, <2>3, <4>2, <4>4
        <5>2. i - m \in 1..n /\ ran'[i].id = cmds[i - m].id
          BY <2>5, <5>1
        <5>3. cmds[i - m].id = calls[j].ids[(i - m) + 1]
          BY <4>1, <5>2
        <5>4. (i - m) + 1 = i - (m + 1) + 2
          BY <2>3, <5>1
        <5> QED BY <5>2, <5>3, <5>4
      <4>5. places = (m + 1)..((m + 1) + Sent(j) - 3)
        BY <4>2, <4>3
      <4> HIDE DEF places
      <4>6. \E a \in DOMAIN ran' :
              /\ places = a..(a + Sent(j) - 3)
              /\ \A i \in places : ran'[i].id = calls[j].ids[i - a + 2]
        <5>1. PICK a \in DOMAIN ran' : a = m + 1
          BY <4>3
        <5> QED BY <4>4, <4>5, <5>1
      <4> QED BY <4>6 DEF places
    <3> QED BY <3>1, <3>2
  <2> QED BY <1>1, <1>4, <1>5, <1>6, <1>7, <2>6, <2>7 DEF WholeInv, LinesInv
<1> QED BY <1>7, <1>9, <1>10

------------------------------------------------------------------------------
(* The next command of the callback that is running                        *)

\* It is written, kept or refused; what is already of its call is known.
LEMMA SendFacts ==
  ASSUME WholeInv, SendNext
  PROVE  LET n   == Len(promise)
             k   == turn[1].call
             c   == [id |-> n + 1, call |-> k, op |-> turn[1].op]
             ids == calls[k].ids
         IN  /\ Types' /\ DownInv' /\ c \in Command /\ LineGood /\ LineGood' /\ n \in Nat
             /\ UNCHANGED <<ready, replies, queued, ran>> /\ Len(promise') = n + 1
             /\ turn # <<>> /\ turn' = Tail(turn) /\ k \in DOMAIN calls /\ ids \in Seq(Nat)
             /\ DOMAIN calls' = DOMAIN calls /\ \A j \in DOMAIN calls : j # k => calls'[j] = calls[j]
             /\ calls'[k].kind = calls[k].kind /\ calls'[k].state = calls[k].state
             /\ calls'[k].queue = calls[k].queue /\ calls'[k].ids = Append(ids, n + 1)
             /\ ready => waiting' = <<>>
             /\ \/ /\ ~Refusing /\ LineSize' = LineSize + 1 /\ Line'[LineSize + 1] = c
                   /\ \A i \in 1..LineSize : Line'[i] = Line[i]
                \/ Refusing /\ Line' = Line
<1> DEFINE n   == Len(promise)
           k   == turn[1].call
           c   == [id |-> n + 1, call |-> k, op |-> turn[1].op]
           ids == calls[k].ids
           rec == [calls[k] EXCEPT !.ids = Append(ids, n + 1)]
<1>1. /\ Types /\ DownInv /\ TurnInv /\ CallInv /\ turn # <<>>
      /\ UNCHANGED <<ready, replies, queued, counter, ran>>
      /\ turn' = Tail(turn) /\ value' = Append(value, <<>>)
  BY DEF WholeInv, SendNext, server
<1>2. /\ turn \in Seq(Step) /\ promise \in Seq(Status) /\ n \in Nat /\ calls \in Seq(CallRecord)
      /\ value \in Seq(Seq(Nat)) /\ Len(value) = n
      /\ sent \in Seq(Command) /\ waiting \in Seq(Command)
  BY <1>1 DEF Types
<1>3. turn[1] \in Step /\ Head(turn) = turn[1] /\ Tail(turn) \in Seq(Step)
  BY <1>1, <1>2
<1>4. c \in Command
  BY <1>2, <1>3 DEF Step, Command
<1>5. k \in DOMAIN calls /\ (ready => waiting = <<>>)
  BY <1>1 DEF TurnInv
<1>6. calls[k] \in CallRecord /\ ids \in Seq(Nat)
  <2>1. calls[k] \in CallRecord
    BY <1>2, <1>5
  <2> QED BY <2>1 DEF CallRecord
<1>7. /\ Pipe!Issue(c)
      /\ ready <=> sent' # sent
      /\ ~ready => (EnableOfflineQueue <=> waiting' # waiting)
      /\ calls' = [calls EXCEPT ![k] = rec]
  BY <1>3 DEF SendNext
<1>8. /\ rec \in CallRecord /\ rec.kind = calls[k].kind /\ rec.state = calls[k].state
      /\ rec.queue = calls[k].queue /\ rec.ids = Append(ids, n + 1)
  <2>1. Append(ids, n + 1) \in Seq(Nat)
    BY <1>2, <1>6
  <2> QED BY <1>6, <2>1 DEF CallRecord
<1> HIDE DEF c, rec
<1>9. /\ calls' \in Seq(CallRecord) /\ DOMAIN calls' = DOMAIN calls
      /\ calls'[k] = rec /\ \A j \in DOMAIN calls : j # k => calls'[j] = calls[j]
  BY <1>1, <1>5, <1>7, <1>8, PutCall
<1>10. /\ promise' = Append(promise, "pending") \/ promise' = Append(promise, "rejected")
       /\ \/ sent' = Append(sent, c) /\ waiting' = waiting
          \/ sent' = sent /\ waiting' = Append(waiting, c)
          \/ sent' = sent /\ waiting' = waiting
  BY <1>7 DEF Pipe!Issue, Pipe!Write, Pipe!Keep, Pipe!Refuse
<1>11. promise' \in Seq(Status) /\ Len(promise') = n + 1
  <2>1. "pending" \in Status /\ "rejected" \in Status
    BY DEF Status
  <2>2. \A s \in Status : Append(promise, s) \in Seq(Status) /\ Len(Append(promise, s)) = n + 1
    BY <1>2
  <2> QED BY <1>10, <2>1, <2>2
<1>12. value' \in Seq(Seq(Nat)) /\ Len(value') = n + 1
  <2>1. <<>> \in Seq(Nat)
    OBVIOUS
  <2> QED BY <1>1, <1>2, <2>1
<1>13. \/ ready /\ waiting = <<>> /\ waiting' = <<>> /\ sent' = Append(sent, c)
       \/ ~ready /\ EnableOfflineQueue /\ sent' = sent /\ waiting' = Append(waiting, c)
       \/ Refusing /\ sent' = sent /\ waiting' = waiting
  BY <1>5, <1>7, <1>10, CallsAssumption DEF Refusing
<1>14. /\ sent' \in Seq(Command) /\ waiting' \in Seq(Command)
       /\ Len(sent') = Len(sent) \/ Len(sent') = Len(sent) + 1
  <2>1. /\ Append(sent, c) \in Seq(Command) /\ Append(waiting, c) \in Seq(Command)
        /\ Len(Append(sent, c)) = Len(sent) + 1
    BY <1>2, <1>4
  <2> QED BY <1>2, <1>10, <2>1
<1>15. Types'
  BY <1>1, <1>3, <1>9, <1>11, <1>12, <1>14 DEF Types
<1>16. DownInv'
  <2>1. Len(replies') <= Len(sent')
    BY <1>1, <1>14, LineShape
  <2>2. ~ready' => sent' = <<>> /\ replies' = <<>> /\ queued' = NotInMulti
    BY <1>1, <1>13 DEF DownInv
  <2>3. ~EnableOfflineQueue => waiting' = <<>>
    BY <1>1, <1>13 DEF DownInv
  <2> QED BY <2>1, <2>2, <2>3 DEF DownInv
<1>17. LineGood /\ LineGood'
  BY <1>1, <1>15, <1>16, LineIsGood, LineGoodNext
<1>18. \/ /\ ~Refusing /\ LineSize' = LineSize + 1 /\ Line'[LineSize + 1] = c
          /\ \A i \in 1..LineSize : Line'[i] = Line[i]
       \/ Refusing /\ Line' = Line
  <2>1. CASE Refusing /\ sent' = sent /\ waiting' = waiting
    BY <1>1, <1>15, <1>16, <2>1, LineSame
  <2>2. CASE \/ ready /\ waiting = <<>> /\ waiting' = <<>> /\ sent' = Append(sent, c)
             \/ ~ready /\ EnableOfflineQueue /\ sent' = sent /\ waiting' = Append(waiting, c)
    <3>1. ~Refusing
      BY <2>2 DEF Refusing
    <3>2. /\ LineSize' = LineSize + 1 /\ Line'[LineSize + 1] = c
          /\ \A i \in 1..LineSize : Line'[i] = Line[i]
      BY <1>1, <1>4, <1>15, <1>16, <2>2, LineAppend
    <3> QED BY <3>1, <3>2
  <2> QED BY <1>13, <2>1, <2>2
<1>19. ready => waiting' = <<>>
  BY <1>13 DEF Refusing
<1>20. /\ calls'[k].kind = calls[k].kind /\ calls'[k].state = calls[k].state
       /\ calls'[k].queue = calls[k].queue /\ calls'[k].ids = Append(ids, n + 1)
  BY <1>8, <1>9
<1> QED
  BY <1>1, <1>2, <1>4, <1>5, <1>6, <1>9, <1>11, <1>15, <1>16, <1>17, <1>18, <1>19, <1>20 DEF c

LEMMA SendNextOf ==
  ASSUME WholeInv, SendNext, NEW n, NEW k, NEW op,
         n = Len(promise), k = turn[1].call, op = turn[1].op
  PROVE  WholeInv'
<1> DEFINE c    == [id |-> n + 1, call |-> k, op |-> op]
           ids  == calls[k].ids
           jds  == calls'[k].ids
<1>1. /\ Types' /\ DownInv' /\ c \in Command /\ LineGood /\ LineGood' /\ n \in Nat
      /\ UNCHANGED <<ready, replies, queued, ran>> /\ Len(promise') = n + 1
      /\ turn # <<>> /\ turn' = Tail(turn) /\ k \in DOMAIN calls /\ ids \in Seq(Nat)
      /\ DOMAIN calls' = DOMAIN calls /\ \A j \in DOMAIN calls : j # k => calls'[j] = calls[j]
      /\ calls'[k].kind = calls[k].kind /\ calls'[k].state = calls[k].state
      /\ calls'[k].queue = calls[k].queue /\ jds = Append(ids, n + 1)
      /\ ready => waiting' = <<>>
  BY SendFacts
<1>2. \/ /\ ~Refusing /\ LineSize' = LineSize + 1 /\ Line'[LineSize + 1] = c
         /\ \A i \in 1..LineSize : Line'[i] = Line[i]
      \/ Refusing /\ Line' = Line
  BY SendFacts
<1>3. /\ CallInv /\ TurnInv /\ DownInv /\ TransactionsWhole /\ Types
      /\ LineInv(Line) /\ EndInv(Line) /\ ServerInv(Line) /\ RanInv(Line)
  BY DEF WholeInv, LinesInv
<1>4. /\ LineSize \in Nat /\ DOMAIN Line = 1..LineSize /\ Len(Line) = LineSize
      /\ Line \in Seq(Command) /\ Line' \in Seq(Command)
      /\ DOMAIN Line' = 1..LineSize' /\ Len(Line') = LineSize'
  BY <1>1 DEF LineGood
<1>5. c.id = n + 1 /\ c.call = k /\ c.op = op
  OBVIOUS
<1>6. /\ Len(turn) \in Nat /\ Len(turn) >= 1 /\ DOMAIN turn = 1..Len(turn)
      /\ turn' \in Seq(Step) /\ DOMAIN turn' = 1..Len(turn') /\ Len(turn') = Len(turn) - 1
      /\ \A i \in 1..Len(turn') : i + 1 \in 1..Len(turn) /\ turn'[i] = turn[i + 1]
      /\ turn' # <<>> <=> Len(turn) # 1
      /\ 1 \in DOMAIN turn
  <2>1. turn \in Seq(Step) /\ turn # <<>> /\ turn' = Tail(turn)
    BY <1>1, <1>3 DEF Types
  <2>2. Len(turn) \in Nat /\ Len(turn) >= 1 /\ DOMAIN turn = 1..Len(turn)
    BY <2>1
  <2>3. turn' \in Seq(Step) /\ Len(turn') = Len(turn) - 1 /\ DOMAIN turn' = 1..Len(turn')
    BY <2>1, <2>2
  <2>4. \A i \in 1..(Len(turn) - 1) : Tail(turn)[i] = turn[i + 1]
    BY <2>1, <2>2
  <2>5. \A i \in 1..Len(turn') : i + 1 \in 1..Len(turn) /\ turn'[i] = turn[i + 1]
    BY <2>1, <2>2, <2>3, <2>4
  <2>6. turn' # <<>> <=> Len(turn) # 1
    <3>1. turn' # <<>> <=> Len(turn') # 0
      BY <2>3
    <3> QED BY <2>2, <2>3, <3>1
  <2> QED BY <2>2, <2>3, <2>5, <2>6
<1>7. /\ \A i \in DOMAIN turn : turn[i].call = k
      /\ \A j \in DOMAIN calls : calls[j].state = "pending" /\ j # k => calls[j].ids # <<>>
      /\ IF IsMulti(k)
         THEN /\ calls[k].state # "open"
              /\ op = "multi" <=> ids = <<>>
              /\ ids # <<>> => ids[Len(ids)] = n
              /\ \A i \in DOMAIN turn : /\ i > 1 => turn[i].op # "multi"
                                        /\ turn[i].op = "exec" <=> i = Len(turn)
         ELSE \A i \in DOMAIN turn : turn[i].op \notin {"multi", "exec"}
  BY <1>1, <1>3 DEF TurnInv
<1>8. /\ \A i \in DOMAIN ids : ids[i] \in 1..n
      /\ IsMulti(k) => \A i \in DOMAIN ids : ids[i] = ids[1] + i - 1
      /\ calls[k].state = "open" => IsMulti(k)
  BY <1>1, <1>3 DEF CallInv
<1> HIDE DEF c, ids, jds
<1>9. /\ Len(ids) \in Nat /\ DOMAIN ids = 1..Len(ids) /\ Len(jds) = Len(ids) + 1
      /\ DOMAIN jds = 1..(Len(ids) + 1) /\ jds # <<>> /\ jds[Len(jds)] = n + 1
      /\ \A i \in 1..Len(ids) : jds[i] = ids[i]
      /\ ids = <<>> <=> Len(ids) = 0
  BY <1>1
<1>10. jds[1] = IF ids = <<>> THEN n + 1 ELSE ids[1]
  BY <1>9
<1>11. jds[1] \in Nat /\ jds[1] <= n + 1 /\ (jds[1] = n + 1 <=> ids = <<>>)
  <2>1. ids # <<>> => ids[1] \in 1..n
    BY <1>8, <1>9
  <2> QED BY <1>1, <1>10, <2>1
<1>12. turn' # <<>> => turn'[1].call = k
  <2> SUFFICES ASSUME turn' # <<>>
               PROVE  turn'[1].call = k
    OBVIOUS
  <2>1. 1 \in 1..Len(turn') /\ 1 + 1 \in DOMAIN turn
    BY <1>6
  <2>2. turn'[1] = turn[1 + 1]
    BY <1>6, <2>1
  <2> QED BY <1>7, <2>1, <2>2
<1>13. IsMulti(k) => \A i \in DOMAIN jds : jds[i] = jds[1] + i - 1
  <2> SUFFICES ASSUME IsMulti(k), NEW i \in DOMAIN jds
               PROVE  jds[i] = jds[1] + i - 1
    OBVIOUS
  <2>1. CASE ids = <<>>
    BY <1>1, <1>9, <1>10, <2>1
  <2>2. CASE ids # <<>>
    <3>1. ids[1] \in Nat /\ n = ids[1] + Len(ids) - 1
      <4>1. 1 \in DOMAIN ids /\ Len(ids) \in DOMAIN ids
        BY <1>9, <2>2
      <4>2. ids[1] \in 1..n /\ ids[Len(ids)] = ids[1] + Len(ids) - 1 /\ ids[Len(ids)] = n
        BY <1>7, <1>8, <2>2, <4>1
      <4> QED BY <4>2
    <3>2. CASE i \in 1..Len(ids)
      BY <1>8, <1>9, <1>10, <2>2, <3>2
    <3>3. CASE i = Len(ids) + 1
      BY <1>9, <1>10, <2>2, <3>1, <3>3
    <3>4. i \in 1..Len(ids) \/ i = Len(ids) + 1
      BY <1>9
    <3> QED BY <3>2, <3>3, <3>4
  <2> QED BY <2>1, <2>2
<1>14. CallInv'
  <2> SUFFICES ASSUME NEW j \in DOMAIN calls
               PROVE  LET is == calls'[j].ids IN
                      /\ \A i \in DOMAIN is : is[i] \in 1..(n + 1)
                      /\ calls'[j].state = "pending" /\ turn' = <<>> => is # <<>>
                      /\ calls'[j].kind = "multi" => \A i \in DOMAIN is : is[i] = is[1] + i - 1
                      /\ calls'[j].state = "open" =>
                           /\ calls'[j].kind = "multi" /\ is = <<>>
                           /\ calls'[j].queue # <<>> /\ calls'[j].queue[1] = "multi"
                           /\ \A i \in DOMAIN calls'[j].queue :
                                i > 1 => calls'[j].queue[i] \in Queueable
    BY <1>1 DEF CallInv, IsMulti
  <2>1. CASE j # k
    <3>1. calls'[j] = calls[j]
      BY <1>1, <2>1
    <3>2. \A i \in DOMAIN calls[j].ids : calls[j].ids[i] \in 1..(n + 1)
      <4>1. \A i \in DOMAIN calls[j].ids : calls[j].ids[i] \in 1..n
        BY <1>3 DEF CallInv
      <4> QED BY <1>1, <4>1
    <3>3. calls[j].state = "pending" => calls[j].ids # <<>>
      BY <1>7, <2>1
    <3> QED BY <1>3, <3>1, <3>2, <3>3 DEF CallInv, IsMulti
  <2>2. CASE j = k
    <3>1. \A i \in DOMAIN jds : jds[i] \in 1..(n + 1)
      <4>1. ASSUME NEW i \in DOMAIN jds
            PROVE  jds[i] \in 1..(n + 1)
        <5>1. CASE i \in 1..Len(ids)
          <6>1. jds[i] = ids[i] /\ ids[i] \in 1..n
            BY <1>8, <1>9, <5>1
          <6> QED BY <1>1, <6>1
        <5>2. CASE i = Len(ids) + 1
          BY <1>1, <1>9, <5>2
        <5>3. i \in 1..Len(ids) \/ i = Len(ids) + 1
          BY <1>9
        <5> QED BY <5>1, <5>2, <5>3
      <4> QED BY <4>1
    <3>2. calls'[k].state # "open"
      BY <1>1, <1>7, <1>8
    <3> QED BY <1>1, <1>9, <1>13, <2>2, <3>1, <3>2 DEF jds, IsMulti
  <2> QED BY <2>1, <2>2
<1>15. TurnInv'
  <2> SUFFICES ASSUME turn' # <<>>
               PROVE  TurnInv'
    BY DEF TurnInv
  <2>1. \A i \in DOMAIN turn' : turn'[i].call = k
    BY <1>6, <1>7
  <2>2. turn'[1].call = k /\ k \in DOMAIN calls' /\ (ready' => waiting' = <<>>)
    BY <1>1, <1>12
  <2>3. \A j \in DOMAIN calls' : calls'[j].state = "pending" /\ j # k => calls'[j].ids # <<>>
    BY <1>1, <1>7
  <2>4. CASE IsMulti(k)
    <3>1. \A i \in DOMAIN turn' : /\ turn'[i].op # "multi"
                                  /\ turn'[i].op = "exec" <=> i = Len(turn')
      <4>1. ASSUME NEW i \in DOMAIN turn'
            PROVE  /\ turn'[i].op # "multi"
                   /\ turn'[i].op = "exec" <=> i = Len(turn')
        <5>1. /\ i + 1 \in DOMAIN turn /\ turn'[i] = turn[i + 1] /\ i + 1 > 1
              /\ i + 1 = Len(turn) <=> i = Len(turn')
          BY <1>6
        <5>2. turn[i + 1].op # "multi" /\ (turn[i + 1].op = "exec" <=> i + 1 = Len(turn))
          BY <1>7, <2>4, <5>1
        <5> QED BY <5>1, <5>2
      <4> QED BY <4>1
    <3>2. turn'[1].op # "multi" /\ ~(calls'[k].ids = <<>>)
      <4>1. 1 \in DOMAIN turn'
        BY <1>6
      <4>2. turn'[1].op # "multi"
        BY <3>1, <4>1
      <4>3. calls'[k].ids # <<>>
        BY <1>9 DEF jds
      <4> QED BY <4>2, <4>3
    <3>3. /\ IsMulti(k)' /\ calls'[k].state # "open" /\ calls'[k].ids # <<>>
          /\ calls'[k].ids[Len(calls'[k].ids)] = Len(promise')
      BY <1>1, <1>7, <1>9, <2>4 DEF IsMulti, jds
    <3>4. \A i \in DOMAIN turn' : /\ i > 1 => turn'[i].op # "multi"
                                  /\ turn'[i].op = "exec" <=> i = Len(turn')
      BY <3>1
    <3>5. /\ calls'[k].state # "open"
          /\ turn'[1].op = "multi" <=> calls'[k].ids = <<>>
          /\ calls'[k].ids # <<>> => calls'[k].ids[Len(calls'[k].ids)] = Len(promise')
      BY <3>2, <3>3
    <3>6. /\ calls'[turn'[1].call].state # "open"
          /\ turn'[1].op = "multi" <=> calls'[turn'[1].call].ids = <<>>
          /\ calls'[turn'[1].call].ids # <<>> =>
               calls'[turn'[1].call].ids[Len(calls'[turn'[1].call].ids)] = Len(promise')
          /\ \A i \in DOMAIN turn' : turn'[i].call = turn'[1].call
          /\ \A j \in DOMAIN calls' :
               calls'[j].state = "pending" /\ j # turn'[1].call => calls'[j].ids # <<>>
          /\ calls'[turn'[1].call].kind = "multi"
      BY <2>1, <2>2, <2>3, <3>3, <3>5 DEF IsMulti
    <3> QED BY <2>2, <3>4, <3>6 DEF TurnInv, IsMulti
  <2>5. CASE ~IsMulti(k)
    <3>1. \A i \in DOMAIN turn' : turn'[i].op \notin {"multi", "exec"}
      BY <1>6, <1>7, <2>5
    <3>2. ~IsMulti(k)'
      BY <1>1, <2>5 DEF IsMulti
    <3> QED BY <2>1, <2>2, <2>3, <3>1, <3>2 DEF TurnInv
  <2> QED BY <2>4, <2>5
<1>16. ASSUME NEW d \in Command, InLine(d)
       PROVE  /\ InLine(d)' /\ (Ends(d)' <=> Ends(d)) /\ (Starts(d)' <=> Starts(d))
              /\ d.id <= n
  <2>1. d.call \in DOMAIN calls /\ d.id \in 1..n
    BY <1>16 DEF InLine
  <2>2. d.id <= n /\ d.id \in 1..(n + 1) /\ d.call \in DOMAIN calls'
    BY <1>1, <2>1
  <2>3. calls'[d.call].kind = calls[d.call].kind
    BY <1>1, <2>1
  <2>4. (Ends(d)' <=> Ends(d)) /\ (Starts(d)' <=> Starts(d))
    BY <2>3 DEF Ends, Starts, IsMulti
  <2>5. CASE ~IsMulti(d.call)
    <3>1. d.op \notin {"multi", "exec"} /\ ~IsMulti(d.call)'
      BY <1>16, <2>3, <2>5 DEF InLine, IsMulti
    <3>2. InLine(d)'
      BY <1>1, <2>2, <3>1 DEF InLine
    <3> QED BY <2>2, <2>4, <3>2
  <2>6. CASE IsMulti(d.call) /\ d.call # k
    <3>1. calls'[d.call] = calls[d.call]
      BY <1>1, <2>1, <2>6
    <3>2. ~InTurn(d.call)'
      BY <1>12, <2>6 DEF InTurn
    <3>3. InLine(d)'
      BY <1>1, <1>16, <2>2, <2>6, <3>1, <3>2 DEF InLine, IsMulti
    <3> QED BY <2>2, <2>4, <3>3
  <2>7. CASE IsMulti(d.call) /\ d.call = k
    <3>1. /\ ids # <<>> /\ d.id \in ids[1]..ids[Len(ids)] /\ calls[k].state # "open"
          /\ d.op = "multi" <=> d.id = ids[1]
          /\ d.op = "exec" => ~InTurn(k)
      BY <1>16, <2>7 DEF InLine, ids
    <3>2. InTurn(k)
      BY <1>1 DEF InTurn
    <3>3. jds[1] = ids[1] /\ d.id \in jds[1]..jds[Len(jds)]
      BY <1>1, <1>9, <1>10, <1>11, <2>2, <3>1
    <3>4. IsMulti(k)' /\ calls'[k].state # "open" /\ jds # <<>> /\ d.op # "exec"
      BY <1>1, <1>9, <2>7, <3>1, <3>2 DEF IsMulti
    <3>5. InLine(d)'
      BY <1>1, <2>2, <2>7, <3>1, <3>3, <3>4 DEF InLine, jds
    <3> QED BY <2>2, <2>4, <3>5
  <2> QED BY <2>5, <2>6, <2>7
<1>17. RanInv(Line)'
  <2>1. InTurn(k)
    BY <1>1 DEF InTurn
  <2>2. ASSUME NEW i \in DOMAIN ran, calls[ran[i].call].kind = "multi"
        PROVE  ran[i].call # k
    BY <1>3, <2>1, <2>2 DEF RanInv, IsMulti
  <2>3. ASSUME NEW j \in DOMAIN Line', j \notin DOMAIN Line
        PROVE  Line'[j].call = k
    <3>1. j = LineSize + 1 /\ Line'[LineSize + 1] = c
      BY <1>2, <1>4, <2>3
    <3> QED BY <1>5, <3>1
  <2>4. ASSUME NEW j \in DOMAIN Line
        PROVE  Line'[j] = Line[j]
    BY <1>2, <1>4, <2>4
  <2>5. ASSUME NEW i \in DOMAIN ran
        PROVE  LET l == ran[i].call IN
               /\ l \in DOMAIN calls'
               /\ calls'[l].kind = "multi" =>
                    /\ calls'[l].state # "open" /\ ~(turn' # <<>> /\ turn'[1].call = l)
                    /\ \A j \in DOMAIN Line' : Line'[j].call # l
    <3> DEFINE l == ran[i].call
    <3>1. /\ l \in DOMAIN calls
          /\ calls[l].kind = "multi" =>
               /\ calls[l].state # "open" /\ l # k /\ \A j \in DOMAIN Line : Line[j].call # l
      BY <1>3, <2>2, <2>5 DEF RanInv, IsMulti
    <3> HIDE DEF l
    <3>2. l \in DOMAIN calls' /\ (calls'[l].kind = "multi" => calls'[l] = calls[l] /\ l # k)
      BY <1>1, <3>1
    <3>3. ASSUME calls'[l].kind = "multi"
          PROVE  ~(turn' # <<>> /\ turn'[1].call = l) /\ \A j \in DOMAIN Line' : Line'[j].call # l
      <4>1. l # k /\ \A j \in DOMAIN Line : Line[j].call # l
        BY <3>1, <3>2, <3>3
      <4>2. \A j \in DOMAIN Line' : Line'[j].call # l
        BY <2>3, <2>4, <4>1
      <4> QED BY <1>12, <4>1, <4>2
    <3> QED BY <3>1, <3>2, <3>3 DEF l
  <2> QED BY <1>1, <2>5 DEF RanInv, IsMulti, InTurn
<1>18. TransactionsWhole'
  <2>0. DOMAIN calls' = DOMAIN calls /\ ran' = ran
    BY <1>1
  <2> SUFFICES ASSUME NEW j \in DOMAIN calls, calls'[j].kind = "multi",
                      {i \in DOMAIN ran : ran[i].call = j} # {}
               PROVE  LET places == {i \in DOMAIN ran : ran[i].call = j} IN
                      \E a \in DOMAIN ran :
                        /\ places = a..(a + Len(calls'[j].ids) - 3)
                        /\ \A i \in places : ran[i].id = calls'[j].ids[i - a + 2]
    BY <2>0 DEF TransactionsWhole, Calls, Sent
  <2>1. calls[j].kind = "multi"
    BY <1>1
  <2>2. j # k
    <3>1. InTurn(k)
      BY <1>1 DEF InTurn
    <3> QED BY <1>3, <2>1, <3>1 DEF RanInv, IsMulti
  <2>3. calls'[j] = calls[j]
    BY <1>1, <2>2
  <2> QED BY <1>3, <2>1, <2>3 DEF TransactionsWhole, Calls, Sent
<1>19. CASE Refusing /\ Line' = Line
  <2>1. Line = <<>> /\ Line' = <<>> /\ queued' = NotInMulti /\ Refusing'
    BY <1>1, <1>3, <1>19 DEF EndInv, Refusing, DownInv
  <2>2. LineInv(Line)' /\ EndInv(Line)' /\ ServerInv(Line)'
    BY <2>1 DEF LineInv, EndInv, ServerInv
  <2> QED BY <1>1, <1>14, <1>15, <1>17, <1>18, <2>2 DEF WholeInv, LinesInv
<1>20. CASE /\ ~Refusing /\ LineSize' = LineSize + 1 /\ Line'[LineSize + 1] = c
            /\ \A i \in 1..LineSize : Line'[i] = Line[i]
  <2>1. \A i \in 1..LineSize : InLine(Line[i]) /\ Line[i] \in Command
    BY <1>3, <1>4 DEF LineInv
  <2>2. InLine(c)' /\ (Starts(c)' <=> Starts(turn[1]))
    <3>1. Starts(c)' <=> Starts(turn[1])
      BY <1>1, <1>5 DEF Starts, IsMulti
    <3>2. c.call \in DOMAIN calls' /\ c.id \in 1..Len(promise')
      BY <1>1, <1>5
    <3>3. CASE ~IsMulti(k)
      <4>1. c.op \notin {"multi", "exec"} /\ ~IsMulti(c.call)'
        BY <1>1, <1>5, <1>6, <1>7, <3>3 DEF IsMulti
      <4> QED BY <3>1, <3>2, <4>1 DEF InLine
    <3>4. CASE IsMulti(k)
      <4>1. /\ jds # <<>> /\ c.id \in jds[1]..jds[Len(jds)] /\ c.id = jds[Len(jds)]
            /\ c.op = "multi" <=> c.id = jds[1]
        BY <1>1, <1>5, <1>7, <1>9, <1>11, <3>4
      <4>2. c.op = "exec" => turn' = <<>>
        BY <1>5, <1>6, <1>7, <3>4
      <4>3. IsMulti(c.call)' /\ calls'[c.call].state # "open" /\ calls'[c.call].ids = jds
        BY <1>1, <1>5, <1>7, <3>4 DEF IsMulti, jds
      <4> QED BY <3>1, <3>2, <4>1, <4>2, <4>3 DEF InLine, InTurn
    <3> QED BY <3>3, <3>4
  <2>3. \A i \in 1..LineSize' : i \in 1..LineSize \/ i = LineSize + 1
    BY <1>4, <1>20
  <2>4. (\A i \in DOMAIN Line : InLine(Line[i]))'
    <3>1. ASSUME NEW i \in 1..LineSize'
          PROVE  InLine(Line[i])'
      <4>1. CASE i \in 1..LineSize
        BY <1>16, <1>20, <2>1, <4>1
      <4>2. CASE i = LineSize + 1
        BY <1>20, <2>2, <4>2
      <4> QED BY <2>3, <4>1, <4>2
    <3> QED BY <1>4, <3>1
  <2>5. (\A i, j \in DOMAIN Line : i < j => Line[i].id < Line[j].id)'
    <3>1. ASSUME NEW i \in 1..LineSize', NEW j \in 1..LineSize', i < j
          PROVE  Line'[i].id < Line'[j].id
      <4>1. i \in 1..LineSize
        BY <1>4, <1>20, <3>1
      <4>2. CASE j \in 1..LineSize
        BY <1>3, <1>4, <1>20, <3>1, <4>1, <4>2 DEF LineInv
      <4>3. CASE j = LineSize + 1
        <5>1. Line[i].id <= n /\ Line[i].id \in Nat
          BY <1>16, <2>1, <4>1 DEF Command
        <5> QED BY <1>1, <1>5, <1>20, <4>1, <4>3, <5>1
      <4> QED BY <2>3, <4>2, <4>3
    <3> QED BY <1>4, <3>1
  <2>6. ASSUME NEW e, LineSize >= 1, e = Line[LineSize]
        PROVE  Follows(e, c)'
    <3>1. LineSize \in 1..LineSize /\ Line # <<>>
      BY <1>4, <2>6
    <3>2. InLine(e) /\ e \in Command
      BY <2>1, <2>6, <3>1
    <3>3. (Ends(e)' <=> Ends(e)) /\ e.id <= n
      BY <1>16, <3>2
    <3>4. IF Ends(e) THEN Starts(turn[1]) ELSE InTurn(e.call) /\ e.id = n
      BY <1>1, <1>3, <1>4, <2>6, <3>1 DEF EndInv
    <3>5. CASE Ends(e)
      BY <2>2, <3>3, <3>4, <3>5 DEF Follows
    <3>6. CASE ~Ends(e)
      <4>1. c.call = e.call /\ c.id = e.id + 1
        BY <1>5, <3>4, <3>6 DEF InTurn
      <4> QED BY <3>3, <3>6, <4>1 DEF Follows
    <3> QED BY <3>5, <3>6
  <2>7. (\A i \in DOMAIN Line : i + 1 \in DOMAIN Line => Follows(Line[i], Line[i + 1]))'
    <3>1. ASSUME NEW i \in 1..LineSize', i + 1 \in 1..LineSize'
          PROVE  Follows(Line[i], Line[i + 1])'
      <4>1. i \in 1..LineSize
        BY <1>4, <1>20, <3>1
      <4>2. CASE i + 1 \in 1..LineSize
        <5>1. Follows(Line[i], Line[i + 1])
          BY <1>3, <1>4, <4>1, <4>2 DEF LineInv
        <5>2. /\ Line'[i] = Line[i] /\ Line'[i + 1] = Line[i + 1]
              /\ (Ends(Line[i])' <=> Ends(Line[i]))
              /\ (Starts(Line[i + 1])' <=> Starts(Line[i + 1]))
          BY <1>16, <1>20, <2>1, <4>1, <4>2
        <5> QED BY <5>1, <5>2 DEF Follows
      <4>3. CASE i = LineSize
        <5>1. Line'[i] = Line[i] /\ Line'[i + 1] = c /\ LineSize >= 1
          BY <1>4, <1>20, <4>1, <4>3
        <5>2. PICK e : e = Line[i]
          OBVIOUS
        <5>3. Follows(e, c)'
          BY <2>6, <4>3, <5>1, <5>2
        <5> QED BY <5>1, <5>2, <5>3 DEF Follows, Ends, Starts
      <4>4. i + 1 \in 1..LineSize \/ i = LineSize
        BY <1>4, <1>20, <3>1
      <4> QED BY <4>2, <4>3, <4>4
    <3> QED BY <1>4, <3>1
  <2>8. LineInv(Line)'
    BY <2>4, <2>5, <2>7 DEF LineInv
  <2>9. EndInv(Line)'
    <3>1. Line' # <<>> /\ Line'[Len(Line')] = c /\ ~Refusing'
      BY <1>1, <1>4, <1>20 DEF Refusing
    <3>2. CASE ~IsMulti(k)
      <4>1. Ends(c)' /\ (turn' = <<>> \/ Starts(turn[1])')
        BY <1>1, <1>5, <1>12, <3>2 DEF Ends, Starts, IsMulti
      <4> QED BY <3>1, <4>1 DEF EndInv
    <3>3. CASE IsMulti(k) /\ op = "exec"
      <4>1. Ends(c)' /\ turn' = <<>>
        BY <1>5, <1>6, <1>7, <3>3 DEF Ends
      <4> QED BY <3>1, <4>1 DEF EndInv
    <3>4. CASE IsMulti(k) /\ op # "exec"
      <4>1. turn' # <<>> /\ turn'[1].call = k
        BY <1>6, <1>7, <1>12, <3>4
      <4>2. turn'[1].op # "multi"
        <5>1. 1 \in 1..Len(turn') /\ 1 + 1 \in DOMAIN turn /\ 1 + 1 > 1
          BY <1>6, <4>1
        <5>2. turn'[1] = turn[1 + 1]
          BY <1>6, <5>1
        <5> QED BY <1>7, <3>4, <5>1, <5>2
      <4>3. IsMulti(k)'
        BY <1>1, <3>4 DEF IsMulti
      <4>4. ~Ends(c)' /\ InTurn(c.call)' /\ c.id = Len(promise') /\ ~Starts(turn[1])'
        BY <1>1, <1>5, <3>4, <4>1, <4>2, <4>3 DEF Ends, Starts, InTurn
      <4> QED BY <3>1, <4>4 DEF EndInv
    <3> QED BY <3>2, <3>3, <3>4
  <2>10. ServerInv(Line)'
    <3>1. Line' # <<>>
      BY <1>4, <1>20
    <3>2. CASE Line = <<>>
      <4>1. queued' = NotInMulti
        BY <1>1, <1>3, <3>2 DEF ServerInv
      <4>2. Starts(turn[1]) /\ Line'[1] = c
        BY <1>1, <1>3, <1>4, <1>20, <3>2 DEF EndInv
      <4> QED BY <2>2, <3>1, <4>1, <4>2 DEF ServerInv
    <3>3. CASE Line # <<>>
      <4>0. PICK e : e = Line[1]
        OBVIOUS
      <4>1. 1 \in 1..LineSize
        BY <1>4, <3>3
      <4>2. InLine(e) /\ e \in Command /\ Line'[1] = e
        BY <1>20, <2>1, <4>0, <4>1
      <4>3. Starts(e)' <=> Starts(e)
        BY <1>16, <4>2
      <4>4. CASE queued = NotInMulti
        <5>1. Starts(e)
          BY <1>3, <3>3, <4>0, <4>4 DEF ServerInv
        <5> QED BY <1>1, <4>2, <4>3, <4>4, <5>1 DEF ServerInv, Starts
      <4>5. CASE queued # NotInMulti
        <5>1. /\ ~Starts(e)
              /\ ~queued.aborts =>
                   LET b == calls[e.call].ids[1] IN
                   /\ Len(queued.cmds) = e.id - b - 1
                   /\ \A i \in DOMAIN queued.cmds :
                        queued.cmds[i].id = b + i /\ queued.cmds[i].call = e.call
          BY <1>3, <4>0, <4>5 DEF ServerInv
        <5>2. calls'[e.call].ids[1] = calls[e.call].ids[1]
          <6>1. IsMulti(e.call)
            BY <5>1 DEF Starts
          <6>2. e.call \in DOMAIN calls /\ calls[e.call].ids # <<>>
            BY <4>2, <6>1 DEF InLine
          <6>3. CASE e.call = k
            BY <1>10, <6>2, <6>3 DEF ids, jds
          <6>4. CASE e.call # k
            BY <1>1, <6>2, <6>4
          <6> QED BY <6>3, <6>4
        <5>3. ~Starts(e)'
          BY <4>3, <5>1
        <5>4. Line'[1] = e /\ queued' = queued
          BY <1>1, <4>2
        <5>5. ~Starts(Line[1])'
          BY <5>3, <5>4 DEF Starts
        <5> QED BY <3>1, <4>5, <5>1, <5>2, <5>4, <5>5 DEF ServerInv
      <4> QED BY <4>4, <4>5
    <3> QED BY <3>2, <3>3
  <2> QED BY <1>1, <1>14, <1>15, <1>17, <1>18, <2>8, <2>9, <2>10 DEF WholeInv, LinesInv
<1> QED BY <1>2, <1>19, <1>20

LEMMA SendNextStep ==
  ASSUME WholeInv, SendNext
  PROVE  WholeInv'
BY SendNextOf

------------------------------------------------------------------------------
LEMMA WholeInit ==
  ASSUME Init
  PROVE  WholeInv
<1>1. /\ sent = <<>> /\ waiting = <<>> /\ promise = <<>> /\ ready = FALSE
      /\ calls = <<>> /\ turn = <<>> /\ value = <<>>
      /\ replies = <<>> /\ queued = NotInMulti /\ counter = 0 /\ ran = <<>>
  BY DEF Init, Pipe!Init
<1>2. Types /\ DownInv
  <2>1. Len(value) = Len(promise) /\ Len(replies) <= Len(sent)
    BY <1>1
  <2>2. Types
    <3>1. /\ sent \in Seq(Command) /\ waiting \in Seq(Command) /\ promise \in Seq(Status)
          /\ calls \in Seq(CallRecord) /\ turn \in Seq(Step)
      BY <1>1
    <3>2. /\ value \in Seq(Seq(Nat)) /\ replies \in Seq(ReplyRecord) /\ ran \in Seq(Entry)
      BY <1>1
    <3> QED BY <1>1, <2>1, <3>1, <3>2 DEF Types
  <2>3. DownInv
    BY <1>1, <2>1 DEF DownInv
  <2> QED BY <2>2, <2>3
<1>3. CallInv /\ TurnInv /\ TransactionsWhole
  BY <1>1 DEF CallInv, TurnInv, TransactionsWhole, Calls
<1>4. Line = <<>>
  <2>1. LineSize = 0
    BY <1>1 DEF LineSize, Unserved
  <2> QED BY <2>1 DEF Line
<1>5. LinesInv
  BY <1>1, <1>4 DEF LinesInv, LineInv, EndInv, ServerInv, RanInv
<1> QED BY <1>2, <1>3, <1>5 DEF WholeInv

LEMMA WholeStutter ==
  ASSUME WholeInv, UNCHANGED vars
  PROVE  WholeInv'
<1>1. UNCHANGED <<sent, waiting, promise, ready, calls, turn, value, replies, queued, counter, ran>>
  BY DEF vars, pipe, client, server
<1>2. Types' /\ DownInv' /\ CallInv' /\ TurnInv'
  BY <1>1 DEF WholeInv, Types, DownInv, CallInv, TurnInv, IsMulti
<1>3. Line' = Line
  BY <1>1, <1>2, LineSame DEF WholeInv
<1>4. LineInv(Line)'
  BY <1>1, <1>3 DEF WholeInv, LinesInv, LineInv, InLine, Follows, Ends, Starts, IsMulti, InTurn
<1>5. EndInv(Line)'
  BY <1>1, <1>3 DEF WholeInv, LinesInv, EndInv, Ends, Starts, IsMulti, InTurn, Refusing
<1>6. ServerInv(Line)'
  BY <1>1, <1>3 DEF WholeInv, LinesInv, ServerInv, Starts, IsMulti
<1>7. RanInv(Line)'
  BY <1>1, <1>3 DEF WholeInv, LinesInv, RanInv, IsMulti, InTurn
<1>8. TransactionsWhole'
  BY <1>1 DEF WholeInv, TransactionsWhole, Calls, Sent
<1> QED BY <1>2, <1>4, <1>5, <1>6, <1>7, <1>8 DEF WholeInv, LinesInv

LEMMA WholeStep ==
  ASSUME WholeInv, Next
  PROVE  WholeInv'
<1>1. CASE NewCall
  BY <1>1, NewCallStep
<1>2. ASSUME NEW k \in DOMAIN calls, Queue(k) \/ Exec(k)
      PROVE  WholeInv'
  BY <1>2, QueueStep, ExecStep
<1>3. CASE SendNext
  BY <1>3, SendNextStep
<1>4. CASE BecomeReady
  BY <1>4, BecomeReadyStep
<1>5. CASE Replay
  BY <1>5, ReplayStep
<1>6. CASE Deliver
  BY <1>6, DeliverStep
<1>7. ASSUME NEW k \in DOMAIN calls, React(k)
      PROVE  WholeInv'
  BY <1>7, ReactStep
<1>8. CASE Lose
  BY <1>8, LoseStep
<1>9. CASE Serve
  BY <1>9, ServeStep
<1>10. CASE OtherWrites
  BY <1>10, OtherWritesStep
<1> QED
  BY <1>1, <1>2, <1>3, <1>4, <1>5, <1>6, <1>7, <1>8, <1>9, <1>10 DEF Next, User, EventLoop

\* Of every transaction the server runs nothing or, once, all that was queued
\* before exec, in order and together, whatever connections are lost and
\* whatever other clients write (lib/multi.js:112-147).
THEOREM TransactionsRunWhole == Spec => []TransactionsWhole
<1>1. Init => WholeInv
  BY WholeInit
<1>2. WholeInv /\ [Next]_vars => WholeInv'
  BY WholeStep, WholeStutter
<1>3. WholeInv => TransactionsWhole
  BY DEF WholeInv
<1> QED BY <1>1, <1>2, <1>3, PTL DEF Spec
==============================================================================
