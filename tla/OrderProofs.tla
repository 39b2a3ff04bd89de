----------------------------- MODULE OrderProofs -----------------------------
(***************************************************************************)
(* The order of commands.  A client that is used for data commands only,   *)
(* on an ordinary node, replays its offline queue as a whole when it gets  *)
(* ready, before anything else is sent; so the commands stand in the two   *)
(* queues in the order in which they were issued, over any number of lost  *)
(* connections, and none is kept back on a client that is ready.           *)
(***************************************************************************)
EXTENDS StreamProofs

\* The instances: no subscription and no MONITOR, no command that is forced, no
\* 'close' that comes late and no connection lost before a reaction that starts it.
DataClient ==
  /\ ~LateClose /\ ~LateStart /\ ~ForcedCalls
  /\ \A u \in UserCommands : u.kind \notin SubKinds \union {"monitor"}

PlainCommand == {c \in Command : c.kind \notin SubKinds \union {"monitor"} /\ ~c.mode}

PlainReaction == {r \in Reaction : r.cmd \in PlainCommand}

PlainModes == {m \in Modes : ~m.pubSubMode /\ ~m.monitoring}

\* Nothing in the client has to do with subscriptions or MONITOR.
PlainInv ==
  /\ commandQueue \in Seq(PlainCommand) /\ offlineQueue \in Seq(PlainCommand)
  /\ reactions \in Seq(PlainReaction)
  /\ modes \in PlainModes /\ oldState \in PlainModes \union {Null}
  /\ task \notin {"resubscribe", "monitor", "crashed"}

\* The offline queue is replayed on an open stream, and is empty afterwards.
ReplayInv ==
  /\ task = "sendOfflineQueue" => ready /\ sock[stream] = "open"
  /\ ready /\ sock[stream] = "open" /\ task # "sendOfflineQueue" => offlineQueue = <<>>

Ordered(q) ==
  \A i, j \in DOMAIN q : i < j /\ q[i].id # 0 /\ q[j].id # 0 => q[i].id < q[j].id

Before(q, r) == \A m \in Own(q), n \in Own(r) : m < n

Lined(cq, oq) == Ordered(cq) /\ Ordered(oq) /\ Before(cq, oq)

LinedInv == PlainInv /\ ReplayInv /\ Lined(commandQueue, offlineQueue)

\* What is known already.
Known == OwnInv /\ UsableInv

------------------------------------------------------------------------------
(* Queues                                                                  *)

\* A command with a greater number, or none, at the end.
LEMMA AppendOrdered ==
  ASSUME NEW q \in CommandSeq, NEW c \in Command, Ordered(q),
         c.id # 0 => \A n \in Own(q) : n < c.id
  PROVE  Ordered(Append(q, c))
<1> DEFINE r == Append(q, c)
<1>1. /\ DOMAIN q = 1..Len(q) /\ DOMAIN r = 1..(Len(q) + 1) /\ Len(q) \in Nat
      /\ \A i \in 1..Len(q) : r[i] = q[i]
      /\ r[Len(q) + 1] = c
  BY DEF CommandSeq
<1> HIDE DEF r
<1>2. ASSUME NEW i \in DOMAIN r, NEW j \in DOMAIN r, i < j, r[i].id # 0, r[j].id # 0
      PROVE  r[i].id < r[j].id
  <2>1. i \in DOMAIN q /\ r[i] = q[i]
    BY <1>1, <1>2
  <2>2. CASE j \in DOMAIN q
    BY <1>1, <1>2, <2>1, <2>2 DEF Ordered
  <2>3. CASE j = Len(q) + 1
    <3>1. q[i].id \in Own(q)
      BY <1>2, <2>1 DEF Own
    <3> QED BY <1>1, <1>2, <2>1, <2>3, <3>1
  <2> QED BY <1>1, <2>2, <2>3
<1> QED BY <1>2 DEF Ordered, r

\* The head goes: what is left is in order, and comes after it.
LEMMA TailOrdered ==
  ASSUME NEW q \in CommandSeq, q # <<>>, Ordered(q)
  PROVE  /\ Ordered(Tail(q)) /\ Own(Tail(q)) \subseteq Own(q)
         /\ Head(q).id # 0 =>
              Head(q).id \in Own(q) /\ \A n \in Own(Tail(q)) : Head(q).id < n
<1> DEFINE r == Tail(q)
<1>1. /\ DOMAIN q = 1..Len(q) /\ DOMAIN r = 1..(Len(q) - 1) /\ Len(q) \in Nat \ {0}
      /\ \A i \in 1..(Len(q) - 1) : r[i] = q[i + 1]
      /\ Head(q) = q[1]
  BY DEF CommandSeq
<1> HIDE DEF r
<1>2. \A i \in DOMAIN r : i + 1 \in DOMAIN q /\ i \in Nat \ {0} /\ r[i] = q[i + 1]
  BY <1>1
<1>3. Ordered(r)
  <2> SUFFICES ASSUME NEW i \in DOMAIN r, NEW j \in DOMAIN r, i < j, r[i].id # 0, r[j].id # 0
               PROVE  r[i].id < r[j].id
    BY DEF Ordered
  <2>1. i + 1 \in DOMAIN q /\ j + 1 \in DOMAIN q /\ i + 1 < j + 1
    BY <1>2
  <2> QED BY <1>2, <2>1 DEF Ordered
<1>4. Own(r) \subseteq Own(q)
  BY <1>2 DEF Own
<1>5. ASSUME q[1].id # 0
      PROVE  q[1].id \in Own(q) /\ \A n \in Own(r) : q[1].id < n
  <2>1. 1 \in DOMAIN q
    BY <1>1
  <2>2. ASSUME NEW i \in DOMAIN r, r[i].id # 0 PROVE q[1].id < r[i].id
    <3>1. i + 1 \in DOMAIN q /\ 1 < i + 1 /\ r[i] = q[i + 1]
      BY <1>2
    <3> QED BY <1>5, <2>1, <2>2, <3>1 DEF Ordered
  <2> QED BY <1>5, <2>1, <2>2 DEF Own
<1> QED BY <1>1, <1>3, <1>4, <1>5 DEF r

LEMMA EmptyLined ==
  /\ Ordered(<<>>)
  /\ \A q : Before(<<>>, q) /\ Before(q, <<>>)
  BY EmptyOwn DEF Ordered, Before

\* The two queues in one line.
LEMMA LinedOrder ==
  ASSUME NEW cq \in CommandSeq, NEW oq \in CommandSeq, Lined(cq, oq)
  PROVE  Ordered(cq \o oq)
<1> DEFINE q == cq \o oq
<1>1. /\ DOMAIN cq = 1..Len(cq) /\ DOMAIN oq = 1..Len(oq) /\ DOMAIN q = 1..(Len(cq) + Len(oq))
      /\ Len(cq) \in Nat /\ Len(oq) \in Nat
      /\ \A i \in 1..(Len(cq) + Len(oq)) :
           q[i] = IF i <= Len(cq) THEN cq[i] ELSE oq[i - Len(cq)]
  BY DEF CommandSeq
<1> HIDE DEF q
<1>2. SUFFICES ASSUME NEW i \in DOMAIN q, NEW j \in DOMAIN q, i < j, q[i].id # 0, q[j].id # 0
               PROVE  q[i].id < q[j].id
  BY DEF Ordered, q
<1>3. CASE j <= Len(cq)
  <2>1. i \in DOMAIN cq /\ j \in DOMAIN cq /\ q[i] = cq[i] /\ q[j] = cq[j]
    BY <1>1, <1>2, <1>3
  <2> QED BY <1>2, <2>1 DEF Lined, Ordered
<1>4. CASE i > Len(cq)
  <2>1. /\ i - Len(cq) \in DOMAIN oq /\ j - Len(cq) \in DOMAIN oq
        /\ q[i] = oq[i - Len(cq)] /\ q[j] = oq[j - Len(cq)]
        /\ i - Len(cq) < j - Len(cq)
    BY <1>1, <1>2, <1>4
  <2> QED BY <1>2, <2>1 DEF Lined, Ordered
<1>5. CASE i <= Len(cq) /\ j > Len(cq)
  <2>1. i \in DOMAIN cq /\ j - Len(cq) \in DOMAIN oq /\ q[i] = cq[i] /\ q[j] = oq[j - Len(cq)]
    BY <1>1, <1>2, <1>5
  <2>2. q[i].id \in Own(cq) /\ q[j].id \in Own(oq)
    BY <1>2, <2>1 DEF Own
  <2> QED BY <2>2 DEF Lined, Before
<1> QED BY <1>1, <1>3, <1>4, <1>5

\* A command of the client's own, or one newer than all others, at the end of
\* commandQueue when nothing waits behind it, or at the end of the offline queue.
LEMMA AppendLined ==
  ASSUME NEW cq \in CommandSeq, NEW oq \in CommandSeq, NEW c \in Command, Lined(cq, oq),
         c.id # 0 => \A n \in Own(cq) \union Own(oq) : n < c.id
  PROVE  /\ c.id = 0 \/ oq = <<>> => Lined(Append(cq, c), oq)
         /\ Lined(cq, Append(oq, c))
<1>1. Ordered(Append(cq, c)) /\ Ordered(Append(oq, c))
  BY AppendOrdered DEF Lined
<1>2. /\ Own(Append(cq, c)) = Own(cq) \union ({c.id} \ {0})
      /\ Own(Append(oq, c)) = Own(oq) \union ({c.id} \ {0})
  BY AppendOwn
<1>3. c.id = 0 \/ oq = <<>> => Before(Append(cq, c), oq)
  BY <1>2, EmptyOwn DEF Lined, Before
<1>4. Before(cq, Append(oq, c))
  BY <1>2 DEF Lined, Before
<1> QED BY <1>1, <1>3, <1>4 DEF Lined

\* The head of the offline queue is replayed.
LEMMA ReplayLined ==
  ASSUME NEW cq \in CommandSeq, NEW oq \in CommandSeq, oq # <<>>, Lined(cq, oq)
  PROVE  Lined(Append(cq, Head(oq)), Tail(oq))
<1> DEFINE c == Head(oq)
<1>1. c \in Command
  BY CommandQueues
<1>2. /\ Ordered(Tail(oq)) /\ Own(Tail(oq)) \subseteq Own(oq)
      /\ c.id # 0 => c.id \in Own(oq) /\ \A n \in Own(Tail(oq)) : c.id < n
  BY TailOrdered DEF Lined
<1> HIDE DEF c
<1>3. Ordered(Append(cq, c))
  <2>1. c.id # 0 => \A n \in Own(cq) : n < c.id
    BY <1>2 DEF Lined, Before
  <2> QED BY <1>1, <2>1, AppendOrdered DEF Lined
<1>4. Before(Append(cq, c), Tail(oq))
  <2>1. Own(Append(cq, c)) = Own(cq) \union ({c.id} \ {0})
    BY <1>1, AppendOwn
  <2> QED BY <1>2, <2>1 DEF Lined, Before
<1> QED BY <1>2, <1>3, <1>4 DEF Lined, c

\* A reply takes the head of commandQueue.
LEMMA AnswerLined ==
  ASSUME NEW cq \in CommandSeq, NEW oq, cq # <<>>, Lined(cq, oq)
  PROVE  Lined(Tail(cq), oq)
  BY TailOrdered DEF Lined, Before

\* Plain commands and reactions stay what they are in queues.
LEMMA PlainQueues ==
  /\ \A q \in Seq(PlainCommand), c \in PlainCommand : Append(q, c) \in Seq(PlainCommand)
  /\ \A q \in Seq(PlainCommand) : q # <<>> =>
       Head(q) \in PlainCommand /\ Tail(q) \in Seq(PlainCommand) /\ Last(q) \in PlainCommand
  /\ \A q, r \in Seq(PlainCommand) : q \o r \in Seq(PlainCommand)
  /\ \A q, r \in Seq(PlainReaction) : q \o r \in Seq(PlainReaction)
  /\ \A q \in Seq(PlainReaction) : q # <<>> =>
       Head(q) \in PlainReaction /\ Tail(q) \in Seq(PlainReaction)
  /\ \A r \in PlainReaction : <<r>> \in Seq(PlainReaction)
  /\ <<>> \in Seq(PlainCommand) /\ <<>> \in Seq(PlainReaction)
  BY QueueOps

\* The reactions to the answer to a plain command are plain.
LEMMA PlainAnswers ==
  ASSUME NEW c \in PlainCommand, NEW r
  PROVE  /\ RejectReactions(c) \in Seq(PlainReaction)
         /\ ResolveReactions(c, r) \in Seq(PlainReaction)
         /\ ErrorReactions(c, r) \in Seq(PlainReaction)
<1>1. \A run \in ReactionNames : <<[run |-> run, cmd |-> c]>> \in Seq(PlainReaction)
  <2>1. \A run \in ReactionNames : [run |-> run, cmd |-> c] \in PlainReaction
    BY DEF PlainReaction, PlainCommand, Reaction
  <2> QED BY <2>1, PlainQueues
<1>2. RejectReactions(c) \in Seq(PlainReaction)
  <2>1. <<[run |-> "resetPubSub", cmd |-> c]>> \in Seq(PlainReaction)
    BY <1>1 DEF ReactionNames
  <2> QED BY <2>1, PlainQueues DEF RejectReactions
<1>3. ResolveReactions(c, r) \in Seq(PlainReaction)
  <2>1. \A run \in {"selectResolved", "checkLater", "onReady", "authDone"} :
          <<[run |-> run, cmd |-> c]>> \in Seq(PlainReaction)
    BY <1>1 DEF ReactionNames
  <2> QED BY <2>1, PlainQueues DEF ResolveReactions
<1>4. ErrorReactions(c, r) \in Seq(PlainReaction)
  <2>1. \A run \in {"authLater", "authDone"} :
          <<[run |-> run, cmd |-> c]>> \in Seq(PlainReaction)
    BY <1>1 DEF ReactionNames
  <2> QED BY <1>2, <2>1 DEF ErrorReactions
<1> QED BY <1>2, <1>3, <1>4

------------------------------------------------------------------------------
(* The actions                                                             *)

\* What LinedInv says of the state, for the provers.
LEMMA KnownTypes ==
  ASSUME Known, LinedInv
  PROVE  /\ commandQueue \in CommandSeq /\ offlineQueue \in CommandSeq
         /\ reactions \in ReactionSeq /\ promise \in PromiseSeq
         /\ sock \in [Streams -> SockStates] /\ stream \in Streams
         /\ ready \in BOOLEAN
         /\ TypeOK /\ OpenInv /\ ReadyMeansOpen
  BY DEF Known, OwnInv, UsableInv, OpenInv, TypeOK, WireTypeOK

\* _send outside the replay.
LEMMA SendLined ==
  ASSUME Known, LinedInv, task # "sendOfflineQueue",
         NEW c \in PlainCommand, NEW force \in BOOLEAN, NEW m \in PlainModes,
         Send(c, force, offlineQueue, m),
         c.id # 0 =>
           ~force /\ \A n \in Own(commandQueue) \union Own(offlineQueue) : n < c.id
  PROVE  /\ commandQueue' \in Seq(PlainCommand) /\ offlineQueue' \in Seq(PlainCommand)
         /\ modes' \in PlainModes /\ sock' = sock
         /\ Lined(commandQueue', offlineQueue')
         /\ ready /\ sock[stream] = "open" => offlineQueue' = <<>>
<1> DEFINE d == Disposition(c, force, m)
<1>1. c \in Command /\ commandQueue \in CommandSeq /\ offlineQueue \in CommandSeq
  BY KnownTypes DEF PlainCommand
<1>2. /\ commandQueue \in Seq(PlainCommand) /\ offlineQueue \in Seq(PlainCommand)
      /\ Lined(commandQueue, offlineQueue)
      /\ ready /\ sock[stream] = "open" => offlineQueue = <<>>
  BY DEF LinedInv, PlainInv, ReplayInv
<1>3. /\ Append(commandQueue, c) \in Seq(PlainCommand)
      /\ Append(offlineQueue, c) \in Seq(PlainCommand)
  BY <1>2, PlainQueues
<1>4. ~m.pubSubMode /\ m \in Modes
  BY DEF PlainModes
<1>5. sock' = sock
  BY DEF Send
<1>6. CASE d = "written"
  <2>1. /\ commandQueue' = Append(commandQueue, c) /\ offlineQueue' = offlineQueue
        /\ modes' = ModesAfter(c, m)
    BY <1>6 DEF Send
  <2>2. modes' \in PlainModes
    BY <1>4, <2>1 DEF ModesAfter, PlainModes, Modes, PlainCommand
  <2>3. c.id = 0 \/ offlineQueue = <<>>
    <3>1. c.id # 0 => ready /\ Writable(stream)
      BY <1>6 DEF Disposition
    <3>2. ready /\ Writable(stream) => sock[stream] = "open"
      BY KnownTypes DEF ReadyMeansOpen, Writable
    <3> QED BY <1>2, <3>1, <3>2
  <2>4. Lined(commandQueue', offlineQueue')
    BY <1>1, <1>2, <2>1, <2>3, AppendLined
  <2> QED BY <1>2, <1>3, <1>5, <2>1, <2>2, <2>4
<1>7. CASE d = "queued"
  <2>1. /\ commandQueue' = commandQueue /\ offlineQueue' = Append(offlineQueue, c)
        /\ modes' = m
    BY <1>7 DEF Send
  <2>2. ~(ready /\ sock[stream] = "open")
    BY <1>4, <1>7 DEF Disposition, Writable
  <2>3. Lined(commandQueue', offlineQueue')
    BY <1>1, <1>2, <2>1, AppendLined
  <2> QED BY <1>2, <1>3, <1>5, <2>1, <2>2, <2>3
<1>8. CASE d = "rejected"
  <2>1. UNCHANGED <<commandQueue, offlineQueue>> /\ modes' = m
    BY <1>8 DEF Send
  <2> QED BY <1>2, <1>5, <2>1
<1>9. d \in {"written", "queued", "rejected"}
  BY DEF Disposition
<1> QED BY <1>6, <1>7, <1>8, <1>9

\* The commands the client sends of its own accord.
LEMMA PlainInternal ==
  /\ Internal("auth") \in PlainCommand /\ Internal("auth").id = 0
  /\ Internal("info") \in PlainCommand /\ Internal("info").id = 0
<1>1. Internal("auth") \in Command /\ Internal("info") \in Command
  BY InternalType DEF Kinds
<1> QED BY <1>1 DEF Internal, Cmd, PlainCommand, SubKinds

LEMMA OwnLined ==
  ASSUME Known, LinedInv, DoAuth \/ ReadyCheck
  PROVE  LinedInv'
<1>1. PICK c \in {Internal("auth"), Internal("info")} : SendOwn(c, TRUE, modes)
  <2>1. SendOwn(Internal("auth"), TRUE, modes) \/ SendOwn(Internal("info"), TRUE, modes)
    BY DEF DoAuth, ReadyCheck
  <2> HIDE DEF Internal
  <2> QED BY <2>1, Zenon
<1>2. c \in PlainCommand /\ c.id = 0
  BY <1>1, PlainInternal
<1>3. task # "sendOfflineQueue" /\ modes \in PlainModes
  BY DEF DoAuth, ReadyCheck, LinedInv, PlainInv
<1>4. /\ commandQueue' \in Seq(PlainCommand) /\ offlineQueue' \in Seq(PlainCommand)
      /\ modes' \in PlainModes /\ sock' = sock
      /\ Lined(commandQueue', offlineQueue')
      /\ ready /\ sock[stream] = "open" => offlineQueue' = <<>>
  BY <1>1, <1>2, <1>3, SendLined DEF SendOwn
<1>5. UNCHANGED <<stream, ready, reactions, oldState>> /\ task' = "idle"
  BY DEF DoAuth, ReadyCheck, TaskDone
<1> QED BY <1>4, <1>5 DEF LinedInv, PlainInv, ReplayInv

\* Becoming ready: the replay comes next.
LEMMA ReadyLined ==
  ASSUME Known, LinedInv, OnReady
  PROVE  LinedInv'
<1> DEFINE m == Restored
           c == Cmd(0, "select", <<>>, m.selectedDb, m.pubSubMode)
           off == [m EXCEPT !.pubSubMode = FALSE]
<1>1. m \in PlainModes /\ off = m
  BY DEF Restored, LinedInv, PlainInv, PlainModes, Modes
<1>2. RestoreTask(m) = "sendOfflineQueue"
  BY <1>1 DEF RestoreTask, PlainModes
<1>3. /\ task # "sendOfflineQueue" /\ UNCHANGED stream /\ ready' /\ oldState' = Null
      /\ sock[stream] = "open" /\ reactions \in Seq(PlainReaction)
  BY DEF OnReady, Known, UsableInv, OpenInv, LinedInv, PlainInv
<1>4. CASE m.selectedDb # Null
  <2>1. c \in PlainCommand /\ c.id = 0
    BY <1>1, <1>4 DEF PlainModes, Modes, PlainCommand, Command, Cmd, Kinds, SubKinds
  <2>2. RestoreDb(m)
    BY <1>4 DEF OnReady
  <2>3. /\ Send(c, TRUE, offlineQueue, m) /\ task' = "sendOfflineQueue"
        /\ \/ reactions' = reactions \o RejectReactions(c)
           \/ reactions' = reactions \o <<>>
    BY <1>1, <1>2, <2>2 DEF RestoreDb, SendOwn
  <2> HIDE DEF c, m, off
  <2>4. /\ commandQueue' \in Seq(PlainCommand) /\ offlineQueue' \in Seq(PlainCommand)
        /\ modes' \in PlainModes /\ sock' = sock
        /\ Lined(commandQueue', offlineQueue')
    BY <1>1, <1>3, <2>1, <2>3, SendLined
  <2>5. reactions' \in Seq(PlainReaction)
    BY <1>3, <2>1, <2>3, PlainAnswers, PlainQueues
  <2> QED BY <1>3, <2>3, <2>4, <2>5 DEF LinedInv, PlainInv, ReplayInv
<1>5. CASE m.selectedDb = Null
  <2>1. RestoreModes(m)
    BY <1>5 DEF OnReady
  <2>2. /\ modes' = m /\ task' = "sendOfflineQueue"
        /\ UNCHANGED <<sock, commandQueue, offlineQueue, reactions>>
    BY <1>2, <2>1 DEF RestoreModes, wire, commands
  <2> QED BY <1>1, <1>3, <2>2 DEF LinedInv, PlainInv, ReplayInv
<1> QED BY <1>4, <1>5

\* The replay moves one command, or is over.
LEMMA LoopLined ==
  ASSUME Known, LinedInv, SendOfflineQueue
  PROVE  LinedInv'
<1>1. /\ task = "sendOfflineQueue" /\ ready /\ sock[stream] = "open"
      /\ UNCHANGED <<stream, ready, reactions, oldState>>
  BY DEF SendOfflineQueue, LinedInv, ReplayInv
<1>2. CASE offlineQueue # <<>>
  <2> DEFINE c == Head(offlineQueue)
  <2>1. c \in PlainCommand /\ Tail(offlineQueue) \in Seq(PlainCommand)
        /\ modes \in PlainModes /\ commandQueue \in Seq(PlainCommand)
    BY <1>2, PlainQueues DEF LinedInv, PlainInv
  <2>2. Send(c, FALSE, Tail(offlineQueue), modes) /\ task' = task
    BY <1>2 DEF SendOfflineQueue
  <2> HIDE DEF c
  <2>3. Disposition(c, FALSE, modes) = "written"
    BY <1>1, <2>1 DEF Disposition, Barred, Writable, PlainModes
  <2>4. /\ commandQueue' = Append(commandQueue, c) /\ offlineQueue' = Tail(offlineQueue)
        /\ modes' = ModesAfter(c, modes) /\ sock' = sock
    BY <2>2, <2>3 DEF Send
  <2>5. modes' \in PlainModes
    BY <2>1, <2>4 DEF ModesAfter, PlainModes, Modes, PlainCommand
  <2>6. commandQueue' \in Seq(PlainCommand)
    BY <2>1, <2>4, PlainQueues
  <2>7. Lined(commandQueue', offlineQueue')
    BY <1>2, <2>4, KnownTypes, ReplayLined DEF LinedInv, c
  <2> QED BY <1>1, <2>1, <2>2, <2>4, <2>5, <2>6, <2>7 DEF LinedInv, PlainInv, ReplayInv
<1>3. CASE offlineQueue = <<>>
  <2>1. UNCHANGED <<sock, commandQueue, offlineQueue, modes>> /\ task' = "idle"
    BY <1>3 DEF SendOfflineQueue, TaskDone, wire, commands
  <2> QED BY <1>1, <1>3, <2>1 DEF LinedInv, PlainInv, ReplayInv
<1> QED BY <1>2, <1>3

\* A new command of the user's.
LEMMA IssueLined ==
  ASSUME DataClient, Known, LinedInv, Issue
  PROVE  LinedInv'
<1>1. PICK u \in UserCommands :
        Send(Cmd(Len(promise) + 1, u.kind, u.args, u.db, FALSE), FALSE, offlineQueue, modes)
  BY DEF Issue, DataClient
<1> DEFINE c == Cmd(Len(promise) + 1, u.kind, u.args, u.db, FALSE)
<1>2. c \in PlainCommand /\ c.id = Len(promise) + 1 /\ Len(promise) \in Nat
  <2>1. u \in [kind : Kinds, args : Seq(Channels), db : Dbs]
        /\ u.kind \notin SubKinds \union {"monitor"}
    BY ClientAssumption DEF DataClient
  <2>2. Len(promise) \in Nat
    BY KnownTypes DEF PromiseSeq
  <2> QED BY <2>1, <2>2 DEF Cmd, Command, PlainCommand
<1>3. \A n \in Own(commandQueue) \union Own(offlineQueue) : n < Len(promise) + 1
  <2>1. Own(commandQueue) \union Own(offlineQueue) \subseteq 1..Len(promise)
    BY DEF Known, OwnInv, Placed, Accounted
  <2> QED BY <1>2, <2>1
<1>4. Send(c, FALSE, offlineQueue, modes) /\ task = "idle" /\ modes \in PlainModes
      /\ UNCHANGED <<stream, ready, reactions, oldState, task>>
  BY <1>1 DEF Issue, IOTurn, Idle, LinedInv, PlainInv, turn
<1> HIDE DEF c
<1>5. /\ commandQueue' \in Seq(PlainCommand) /\ offlineQueue' \in Seq(PlainCommand)
      /\ modes' \in PlainModes /\ sock' = sock
      /\ Lined(commandQueue', offlineQueue')
      /\ ready /\ sock[stream] = "open" => offlineQueue' = <<>>
  BY <1>2, <1>3, <1>4, SendLined
<1> QED BY <1>4, <1>5 DEF LinedInv, PlainInv, ReplayInv

\* A reply: at most the head of commandQueue goes, and no mode changes.
LEMMA DataLined ==
  ASSUME Known, LinedInv, NEW s \in Streams, OnData(s)
  PROVE  LinedInv'
<1> DEFINE r == Head(toClient[s])
<1>1. /\ UNCHANGED <<sock, stream, ready, offlineQueue, oldState, task>>
      /\ ReturnError(r) \/ ReturnReply(r)
  BY DEF OnData, connection
<1>2. /\ commandQueue \in Seq(PlainCommand) /\ offlineQueue \in Seq(PlainCommand)
      /\ reactions \in Seq(PlainReaction) /\ modes \in PlainModes
      /\ Lined(commandQueue, offlineQueue)
  BY DEF LinedInv, PlainInv
<1>3. commandQueue # <<>> =>
        /\ Head(commandQueue) \in PlainCommand /\ Tail(commandQueue) \in Seq(PlainCommand)
        /\ Lined(Tail(commandQueue), offlineQueue)
  BY <1>2, PlainQueues, KnownTypes, AnswerLined
<1> HIDE DEF r
<1>4. modes' = modes
  <2>1. commandQueue # <<>> => ~IsSub(Head(commandQueue))
    BY <1>3 DEF IsSub, PlainCommand
  <2>2. ~ModeFromReply(r)
    BY <1>2, <2>1 DEF ModeFromReply, PlainModes
  <2> QED BY <1>1, <2>2 DEF ReturnError, ReturnReply
<1>5. CASE commandQueue = <<>>
  <2>1. UNCHANGED <<commandQueue, reactions>>
    BY <1>1, <1>5 DEF ReturnError, ReturnReply
  <2> QED BY <1>1, <1>4, <2>1 DEF LinedInv, PlainInv, ReplayInv
<1>6. CASE commandQueue # <<>>
  <2> DEFINE c == Head(commandQueue)
  <2>1. commandQueue' = Tail(commandQueue) \/ commandQueue' = commandQueue
    BY <1>1, <1>6 DEF ReturnError, ReturnReply
  <2>2. \/ reactions' = reactions
        \/ reactions' = reactions \o ResolveReactions(c, r)
        \/ reactions' = reactions \o ErrorReactions(c, r)
    BY <1>1, <1>6 DEF ReturnError, ReturnReply
  <2>3. reactions' \in Seq(PlainReaction)
    BY <1>2, <1>3, <1>6, <2>2, PlainAnswers, PlainQueues
  <2>4. commandQueue' \in Seq(PlainCommand) /\ Lined(commandQueue', offlineQueue)
    BY <1>2, <1>3, <1>6, <2>1
  <2> QED BY <1>1, <1>4, <2>3, <2>4 DEF LinedInv, PlainInv, ReplayInv
<1> QED BY <1>5, <1>6

\* A reaction touches no queue; the mode it may put back is off.
LEMMA ReactionLined ==
  ASSUME Known, LinedInv, RunReaction
  PROVE  LinedInv'
<1> DEFINE r == Head(reactions)
<1>1. UNCHANGED <<sock, stream, ready, commandQueue, offlineQueue, oldState>> /\ task = "idle"
  BY DEF RunReaction, Idle, wire, commands
<1>2. /\ r \in PlainReaction /\ r.cmd \in PlainCommand
      /\ Tail(reactions) \in Seq(PlainReaction)
      /\ modes \in PlainModes
  <2>1. reactions \in Seq(PlainReaction) /\ reactions # <<>> /\ modes \in PlainModes
    BY DEF RunReaction, LinedInv, PlainInv
  <2>2. r \in PlainReaction /\ Tail(reactions) \in Seq(PlainReaction)
    BY <2>1, PlainQueues
  <2> QED BY <2>1, <2>2 DEF PlainReaction
<1>3. reactions' \in Seq(PlainReaction)
  <2>1. \/ reactions' = Tail(reactions) \o RejectReactions(r.cmd)
        \/ reactions' = Tail(reactions) \o <<>>
    BY DEF RunReaction
  <2> QED BY <1>2, <2>1, PlainAnswers, PlainQueues
<1>4. ReactionEffect(r)
  BY DEF RunReaction
<1> HIDE DEF r
<1>5. modes' \in PlainModes
  <2>1. r.run \in ReactionNames /\ r.cmd.db \in Dbs /\ r.cmd.mode = FALSE
    BY <1>2 DEF PlainReaction, PlainCommand, Reaction, Command
  <2>2. \/ modes' = modes
        \/ modes' = [modes EXCEPT !.selectedDb = r.cmd.db]
        \/ modes' = [modes EXCEPT !.pubSubMode = r.cmd.mode]
    BY <1>4, <2>1 DEF ReactionEffect, ReactionNames
  <2> QED BY <1>2, <2>1, <2>2 DEF PlainModes, Modes
<1>6. task' \in {"idle", "onReady", "readyCheck"}
  <2>1. r.run \in ReactionNames
    BY <1>2 DEF PlainReaction, Reaction
  <2> QED BY <1>1, <1>4, <2>1 DEF ReactionEffect, ReactionNames, AfterConnect
<1> QED BY <1>1, <1>3, <1>5, <1>6 DEF LinedInv, PlainInv, ReplayInv

\* The loss of the connection empties both queues.
LEMMA GoneLined ==
  ASSUME Known, LinedInv, GoDown, UNCHANGED task, task # "sendOfflineQueue",
         modes' \in PlainModes, oldState' \in PlainModes \union {Null}
  PROVE  LinedInv'
<1> DEFINE all == offlineQueue \o commandQueue
<1>1. commandQueue' = <<>> /\ offlineQueue' = <<>> /\ ~ready'
  BY DEF GoDown, FlushAndError
<1>2. reactions' \in Seq(PlainReaction)
  <2>1. reactions \in Seq(PlainReaction) /\ all \in Seq(PlainCommand)
    BY PlainQueues DEF LinedInv, PlainInv
  <2>2. CASE all = <<>>
    BY <2>1, <2>2 DEF GoDown, FlushAndError
  <2>3. CASE all # <<>>
    <3>1. Last(all) \in PlainCommand
      BY <2>1, <2>3, PlainQueues
    <3>2. reactions' = reactions \o RejectReactions(Last(all))
      BY <2>3 DEF GoDown, FlushAndError
    <3> QED BY <2>1, <3>1, <3>2, PlainAnswers, PlainQueues
  <2> QED BY <2>2, <2>3
<1>3. Lined(commandQueue', offlineQueue')
  BY <1>1, EmptyLined DEF Lined
<1> QED BY <1>1, <1>2, <1>3, PlainQueues DEF LinedInv, PlainInv, ReplayInv

LEMMA ReconnectPlain ==
  ASSUME LinedInv, Reconnect
  PROVE  modes' \in PlainModes /\ oldState' \in PlainModes \union {Null}
<1>1. NoModes \in PlainModes
  BY DEF PlainModes, NoModes, Modes
<1>2. modes' \in {modes, NoModes} /\ oldState' \in {oldState, modes}
  BY DEF Reconnect, SaveModes
<1> QED BY <1>1, <1>2 DEF LinedInv, PlainInv

\* A stream that is not open, of a client that keeps everything else.
LEMMA StreamLined ==
  ASSUME LinedInv, task # "sendOfflineQueue", ~ready' \/ sock'[stream'] # "open",
         UNCHANGED <<commandQueue, offlineQueue, reactions, modes, oldState, task>>
  PROVE  LinedInv'
  BY DEF LinedInv, PlainInv, ReplayInv

\* The events of a socket.
LEMMA EventLined ==
  ASSUME Known, LinedInv, NEW s \in Streams, IOEvent(s)
  PROVE  LinedInv'
<1>0. s = stream
  <2>1. sock[s] \notin Gone \union {"none"}
    BY DEF IOEvent, OnConnect, OnData, OnEnd, OnClose, OnError, Writable, Gone
  <2> QED BY <2>1, OnlyStream DEF Known, UsableInv
<1>1. CASE OnConnect(s)
  <2>1. /\ commandQueue' = <<>> /\ ~ready' /\ task' \in {"doAuth", "onReady", "readyCheck"}
        /\ UNCHANGED <<offlineQueue, reactions, modes, oldState>>
    BY <1>1 DEF OnConnect, AfterConnect, modal
  <2>2. Lined(commandQueue', offlineQueue')
    BY <2>1, EmptyLined DEF Lined, LinedInv
  <2> QED BY <2>1, <2>2, PlainQueues DEF LinedInv, PlainInv, ReplayInv
<1>2. CASE OnData(s)
  BY <1>2, DataLined
<1>3. CASE OnEnd(s) \/ OnClose(s)
  <2>1. /\ ConnectionGone /\ UNCHANGED <<stream, task>> /\ task # "sendOfflineQueue"
        /\ sock'[stream'] # "open"
    BY <1>0, <1>3, KnownTypes
    DEF OnEnd, OnClose, LossTurn, IOTurn, Idle, ConnectionGone, Drop, SetSock
  <2>2. modes' \in PlainModes /\ oldState' \in PlainModes \union {Null}
    BY <2>1, ReconnectPlain DEF ConnectionGone
  <2>3. CASE ~retryTimer
    BY <2>1, <2>2, <2>3, GoneLined DEF ConnectionGone
  <2>4. CASE retryTimer
    BY <2>1, <2>4, StreamLined DEF ConnectionGone, Reconnect, commands
  <2> QED BY <2>3, <2>4
<1>4. CASE OnError(s)
  <2>1. /\ UNCHANGED <<stream, task>> /\ task # "sendOfflineQueue"
        /\ sock'[stream'] # "open"
    BY <1>0, <1>4, KnownTypes DEF OnError, LossTurn, IOTurn, Idle, Drop, connection, turn
  <2>2. CASE closing
    <3>1. UNCHANGED <<commandQueue, offlineQueue, reactions, modes, oldState, task>>
      BY <1>4, <2>2 DEF OnError, commands, modal, turn
    <3> QED BY <2>1, <3>1, StreamLined
  <2>3. CASE ~closing
    <3>1. GoDown /\ Reconnect
      BY <1>4, <2>3 DEF OnError
    <3> QED BY <2>1, <3>1, GoneLined, ReconnectPlain
  <2> QED BY <2>2, <2>3
<1> QED BY <1>1, <1>2, <1>3, <1>4 DEF IOEvent

\* A new stream, or end().
LEMMA OtherStreamLined ==
  ASSUME Known, LinedInv, RetryConnection \/ End
  PROVE  LinedInv'
<1>1. /\ UNCHANGED <<commandQueue, offlineQueue, reactions, modes, oldState, task>>
      /\ task # "sendOfflineQueue"
  BY DEF RetryConnection, End, TimerTurn, IOTurn, Idle, commands, modal, turn
<1>2. ~ready'
  BY ReadyNoTimer DEF RetryConnection, End, Known
<1> QED BY <1>1, <1>2, StreamLined

\* Every step.
LEMMA LinedStep ==
  ASSUME DataClient, Known, LinedInv, [Next]_vars
  PROVE  LinedInv'
<1>1. ASSUME NEW s \in Streams, Server(s) PROVE LinedInv'
  <2>1. UNCHANGED <<sock, stream, ready, commandQueue, offlineQueue, reactions, modes,
                    oldState, task>>
    BY <1>1
    DEF Server, ServerExecutes, ServerPushes, ServerCloses, connection, commands, modal, turn
  <2> QED BY <2>1 DEF LinedInv, PlainInv, ReplayInv
<1>2. ASSUME NEW s \in Streams, IOEvent(s) PROVE LinedInv'
  BY <1>2, EventLined
<1>3. CASE CheckTimer \/ AuthTimer
  <2>1. /\ UNCHANGED <<sock, stream, ready, commandQueue, offlineQueue, reactions, modes,
                       oldState>>
        /\ task = "idle" /\ task' \in {"readyCheck", "doAuth"}
    BY <1>3 DEF CheckTimer, AuthTimer, TimerTurn, Idle, wire, connection, commands, modal
  <2> QED BY <2>1 DEF LinedInv, PlainInv, ReplayInv
<1>4. CASE RetryConnection \/ End
  BY <1>4, OtherStreamLined
<1>5. CASE DoAuth \/ ReadyCheck
  BY <1>5, OwnLined
<1>6. CASE OnReady
  BY <1>6, ReadyLined
<1>7. CASE SendOfflineQueue
  BY <1>7, LoopLined
<1>8. CASE Resubscribe \/ RestoreMonitor
  BY <1>8 DEF Resubscribe, RestoreMonitor, LinedInv, PlainInv
<1>9. CASE RunReaction
  BY <1>9, ReactionLined
<1>10. CASE Issue
  BY <1>10, IssueLined
<1>11. CASE UNCHANGED vars
  BY <1>11 DEF LinedInv, PlainInv, ReplayInv, vars, wire, connection, commands, modal, turn
<1> QED
  BY <1>1, <1>2, <1>3, <1>4, <1>5, <1>6, <1>7, <1>8, <1>9, <1>10, <1>11
  DEF Next, Timer, Continue

\* The inductive invariant, beside those proved before.
LEMMA LinedCorrect ==
  ASSUME DataClient
  PROVE  Spec => [](Known /\ LinedInv)
<1>1. Init => LinedInv
  <2>1. Init => PlainInv /\ ReplayInv
    BY PlainQueues DEF Init, PlainInv, ReplayInv, PlainModes, NoModes, Modes
  <2>2. Init => Lined(commandQueue, offlineQueue)
    BY EmptyLined DEF Init, Lined
  <2> QED BY <2>1, <2>2 DEF LinedInv
<1>2. Known /\ LinedInv /\ [Next]_vars => LinedInv'
  BY LinedStep
<1>3. Spec => []Known
  <2>1. Spec => []UsableInv
    BY UsableCorrect DEF DataClient
  <2> QED BY <2>1, OwnCorrect, PTL DEF Known
<1> QED BY <1>1, <1>2, <1>3, PTL DEF Spec

\* Commands are sent in the order of issue, over any number of lost connections:
\* those issued while there was none are replayed before any that come later
\* (client.js:370-383, 661-676).
THEOREM IssuedInOrder ==
  ASSUME DataClient
  PROVE  Spec => []IssueOrder
<1>1. Known /\ LinedInv => IssueOrder
  BY KnownTypes, LinedOrder DEF LinedInv, IssueOrder, Ordered
<1> QED BY <1>1, LinedCorrect, PTL

\* A client that is ready, with nothing in flight, keeps no command back
\* (README.md:76): the replay comes before anything else and goes to the end.
THEOREM OfflineSent ==
  ASSUME DataClient
  PROVE  Spec => []OfflineReplayed
<1>1. Known /\ LinedInv => OfflineReplayed
  BY DEF LinedInv, ReplayInv, OfflineReplayed, Quiet, Idle
<1> QED BY <1>1, LinedCorrect, PTL
==============================================================================
