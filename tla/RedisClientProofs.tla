-------------------------- MODULE RedisClientProofs --------------------------
(***************************************************************************)
(* What holds of RedisClient for every value of its constants: any number  *)
(* of connections, commands and channels, every option, and the most       *)
(* hostile environment the module allows.                                  *)
(***************************************************************************)
EXTENDS RedisClient, TLAPS, SequenceTheorems, FiniteSetTheorems

------------------------------------------------------------------------------
(* Operators                                                               *)

\* Appending, removing the head and concatenating keep a queue a queue.
LEMMA QueueOps ==
  ASSUME NEW S, NEW q \in Seq(S), NEW r \in Seq(S), NEW e \in S
  PROVE  /\ Append(q, e) \in Seq(S)
         /\ q # <<>> => Head(q) \in S /\ Tail(q) \in Seq(S)
         /\ q \o r \in Seq(S)
         /\ q # <<>> => Last(q) \in S
         /\ <<>> \in Seq(S) /\ <<e>> \in Seq(S)
  BY DEF Last

\* For the queues of the model, by name.
LEMMA CommandQueues ==
  /\ <<>> \in CommandSeq
  /\ \A q \in CommandSeq, c \in Command : Append(q, c) \in CommandSeq
  /\ \A q \in CommandSeq :
       q # <<>> => Head(q) \in Command /\ Tail(q) \in CommandSeq /\ Last(q) \in Command
  BY QueueOps DEF CommandSeq

LEMMA CommandConcat == \A q, r \in CommandSeq : q \o r \in CommandSeq
  BY QueueOps DEF CommandSeq

LEMMA ReplyQueues ==
  /\ <<>> \in ReplySeq
  /\ \A q, r \in ReplySeq : q \o r \in ReplySeq
  /\ \A q \in ReplySeq : q # <<>> => Head(q) \in Reply /\ Tail(q) \in ReplySeq
  /\ \A r \in Reply : <<r>> \in ReplySeq
  BY QueueOps DEF ReplySeq

LEMMA ReactionQueues ==
  /\ <<>> \in ReactionSeq
  /\ \A q, r \in ReactionSeq : q \o r \in ReactionSeq
  /\ \A q \in ReactionSeq : q # <<>> => Head(q) \in Reaction /\ Tail(q) \in ReactionSeq
  /\ \A r \in Reaction : <<r>> \in ReactionSeq
  BY QueueOps DEF ReactionSeq

\* Promises: a new one at the end, one settled.
LEMMA PromiseUpdate ==
  ASSUME NEW p \in PromiseSeq, NEW how \in {"pending", "resolved", "rejected"}
  PROVE  /\ <<>> \in PromiseSeq
         /\ Append(p, how) \in PromiseSeq
         /\ \A n \in Nat : [p EXCEPT ![n] = how] \in PromiseSeq
<1> DEFINE S == {"pending", "resolved", "rejected"}
<1>0. p \in Seq(S) /\ how \in S /\ PromiseSeq = Seq(S)
  BY DEF PromiseSeq
<1> HIDE DEF S
<1>1. <<>> \in Seq(S) /\ Append(p, how) \in Seq(S)
  BY <1>0, QueueOps
<1>2. ASSUME NEW n \in Nat PROVE [p EXCEPT ![n] = how] \in Seq(S)
  <2>1. CASE n \in 1..Len(p)
    BY <1>0, <2>1, ExceptSeq
  <2>2. CASE n \notin 1..Len(p)
    <3>1. DOMAIN p = 1..Len(p)
      BY <1>0
    <3>2. [p EXCEPT ![n] = how] = p
      BY <1>0, <2>2, <3>1
    <3> QED BY <1>0, <3>2
  <2> QED BY <2>1, <2>2
<1> QED BY <1>0, <1>1, <1>2

\* A function on 1..n is a sequence.
LEMMA FunctionIsSeq ==
  ASSUME NEW S, NEW n \in Nat, NEW f \in [1..n -> S]
  PROVE  f \in Seq(S)
  OBVIOUS

\* The client's commands are commands.
LEMMA InternalType ==
  ASSUME NEW kind \in Kinds
  PROVE  Internal(kind) \in Command
  BY WireAssumption DEF Internal, Cmd, Command

\* What the server answers is a sequence of replies.
LEMMA RepliesType ==
  ASSUME NEW v \in ServerState, NEW c \in Command
  PROVE  /\ Replies(v, c) \in ReplySeq
         /\ LoadingReplies(c) \in ReplySeq
         /\ Executed(v, c) \in ServerState
<1>1. \A type \in ReplyTypes : ReplyTo(c, type) \in Reply /\ Push(type) \in Reply
  BY DEF ReplyTo, Push, Reply
<1>2. \A left : SubscriptionReply(c, left) \in Reply
  BY DEF SubscriptionReply, Reply, ReplyTypes
<1>3. SubscribeReplies(c) \in ReplySeq
  <2>1. c.args \in Seq(Channels) /\ Len(c.args) \in Nat /\ DOMAIN c.args = 1..Len(c.args)
    BY DEF Command
  <2>2. SubscribeReplies(c) \in [1..Len(c.args) -> Reply]
    BY <1>2, <2>1 DEF SubscribeReplies
  <2> QED BY <2>1, <2>2, FunctionIsSeq DEF ReplySeq
<1>4. Cardinality(v.subs) \in Nat
  <2>1. IsFiniteSet(v.subs)
    BY WireAssumption, FS_Subset DEF ServerState
  <2> QED BY <2>1, FS_CardinalityType
<1>5. UnsubscribeReplies(v, c) \in ReplySeq
  <2> DEFINE n == IF c.args # <<>> THEN Len(c.args)
                  ELSE IF v.subs = {} THEN 1 ELSE Cardinality(v.subs)
  <2>1. c.args \in Seq(Channels) /\ Len(c.args) \in Nat /\ DOMAIN c.args = 1..Len(c.args)
    BY DEF Command
  <2>2. n \in Nat
    BY <1>4, <2>1
  <2>3. UnsubscribeReplies(v, c) \in [1..n -> Reply]
    BY <1>2, <2>1 DEF UnsubscribeReplies
  <2> HIDE DEF n
  <2> QED BY <2>2, <2>3, FunctionIsSeq DEF ReplySeq
<1>6. {"ok", "error", "noPassSet", "loading", "stillLoading", "eof"} \subseteq ReplyTypes
  BY DEF ReplyTypes, ErrorTypes
<1>7. Replies(v, c) \in ReplySeq
  <2>1. \A r \in Reply : <<r>> \in ReplySeq
    BY ReplyQueues
  <2>2. ReplyTo(c, "error") \in Reply /\ ReplyTo(c, "ok") \in Reply
    BY <1>1, <1>6
  <2>3. AuthReply(c) \in Reply
    BY <1>1, <1>6 DEF AuthReply
  <2>4. <<ReplyTo(c, "ok"), Push("eof")>> \in ReplySeq
    BY <1>1, <1>6 DEF ReplySeq
  <2> QED BY <1>3, <1>5, <2>1, <2>2, <2>3, <2>4 DEF Replies
<1>8. LoadingReplies(c) \in ReplySeq
  <2>1. ReplyTo(c, "loading") \in Reply /\ ReplyTo(c, "stillLoading") \in Reply
    BY <1>1, <1>6
  <2> QED BY <2>1, ReplyQueues DEF LoadingReplies
<1>9. Executed(v, c) \in ServerState
  <2>1. /\ \A S \in SUBSET Channels : [v EXCEPT !.subs = S] \in ServerState
        /\ \A d \in Dbs : [v EXCEPT !.db = d] \in ServerState
        /\ [v EXCEPT !.authed = TRUE] \in ServerState
        /\ [v EXCEPT !.monitor = TRUE] \in ServerState
    BY DEF ServerState
  <2>2. /\ v.subs \union ToSet(c.args) \in SUBSET Channels
        /\ v.subs \ ToSet(c.args) \in SUBSET Channels /\ {} \in SUBSET Channels
    BY DEF ServerState, Command, ToSet
  <2>3. c.db \in Dbs
    BY DEF Command
  <2> QED BY <2>1, <2>2, <2>3 DEF Executed
<1> QED BY <1>7, <1>8, <1>9

------------------------------------------------------------------------------
(* Type correctness                                                        *)

\* _send keeps queues, modes and the wire what they are.
LEMMA SendType ==
  TypeOK => \A c \in Command, force \in BOOLEAN, oq \in CommandSeq, m \in Modes :
    Send(c, force, oq, m) =>
      /\ WireTypeOK'
      /\ commandQueue' \in CommandSeq /\ offlineQueue' \in CommandSeq
      /\ modes' \in Modes /\ subscriptionSet' \subseteq Channels /\ closing' \in BOOLEAN
<1> SUFFICES ASSUME TypeOK, NEW c \in Command, NEW force \in BOOLEAN,
                    NEW oq \in CommandSeq, NEW m \in Modes, Send(c, force, oq, m)
             PROVE  /\ WireTypeOK'
                    /\ commandQueue' \in CommandSeq /\ offlineQueue' \in CommandSeq
                    /\ modes' \in Modes /\ subscriptionSet' \subseteq Channels
                    /\ closing' \in BOOLEAN
  OBVIOUS
<1>1. offlineQueue' \in CommandSeq
  BY CommandQueues DEF Send
<1>2. commandQueue' \in CommandSeq /\ closing' \in BOOLEAN
  <2>1. commandQueue' \in {commandQueue, Append(commandQueue, c)}
    BY DEF Send
  <2>2. commandQueue \in CommandSeq /\ closing \in BOOLEAN
    BY DEF TypeOK
  <2>3. closing' \in BOOLEAN
    BY <2>2 DEF Send
  <2> QED BY <2>1, <2>2, <2>3, CommandQueues
<1>3. modes' \in Modes
  BY DEF Send, ModesAfter, Modes
<1>4. subscriptionSet' \subseteq Channels
  BY DEF Send, SubscriptionsAfter, TypeOK, Command, ToSet
<1>5. toServer' \in [Streams -> CommandSeq]
  <2>1. toServer[stream] \in CommandSeq
    BY DEF TypeOK, WireTypeOK
  <2>2. Append(toServer[stream], c) \in CommandSeq
    BY <2>1, CommandQueues
  <2> QED BY <2>2 DEF Send, TypeOK, WireTypeOK
<1>6. WireTypeOK'
  BY <1>5 DEF Send, TypeOK, WireTypeOK
<1> QED BY <1>1, <1>2, <1>3, <1>4, <1>6

\* So does the client's own use of it.
LEMMA SendOwnType ==
  TypeOK => \A c \in Command, force \in BOOLEAN, m \in Modes :
    SendOwn(c, force, m) =>
      /\ WireTypeOK' /\ promise' = promise
      /\ commandQueue' \in CommandSeq /\ offlineQueue' \in CommandSeq
      /\ modes' \in Modes /\ subscriptionSet' \subseteq Channels /\ closing' \in BOOLEAN
<1> SUFFICES ASSUME TypeOK, NEW c \in Command, NEW force \in BOOLEAN, NEW m \in Modes,
                    SendOwn(c, force, m)
             PROVE  /\ WireTypeOK' /\ promise' = promise
                    /\ commandQueue' \in CommandSeq /\ offlineQueue' \in CommandSeq
                    /\ modes' \in Modes /\ subscriptionSet' \subseteq Channels
                    /\ closing' \in BOOLEAN
  OBVIOUS
<1>1. offlineQueue \in CommandSeq
  BY DEF TypeOK
<1>2. Send(c, force, offlineQueue, m) /\ promise' = promise
  BY DEF SendOwn
<1> QED BY <1>1, <1>2, SendType

\* What the server and the sockets do keeps the wire well typed.
LEMMA WireType ==
  ASSUME WireTypeOK, NEW s \in Streams
  PROVE  /\ ServerExecutes(s) \/ ServerPushes(s) \/ ServerCloses(s) => WireTypeOK'
         /\ \A state \in SockStates : Drop(s, state) \/ SetSock(s, state) => WireTypeOK'
<1>1. ASSUME NEW q \in ReplySeq, ServerSends(s, q)
      PROVE  toClient' \in [Streams -> ReplySeq]
  <2>1. toClient[s] \in ReplySeq
    BY DEF WireTypeOK
  <2>2. toClient[s] \o q \in ReplySeq
    BY <1>1, <2>1, ReplyQueues
  <2> QED BY <1>1, <2>2 DEF ServerSends, WireTypeOK
<1>2. \A type \in ReplyTypes : <<Push(type)>> \in ReplySeq
  <2>1. \A type \in ReplyTypes : Push(type) \in Reply
    BY DEF Push, Reply
  <2> QED BY <2>1, ReplyQueues
<1>3. {"message", "line", "eof"} \subseteq ReplyTypes
  BY DEF ReplyTypes, PushTypes
<1>4. ASSUME ServerExecutes(s) PROVE WireTypeOK'
  <2> DEFINE c == Head(toServer[s])
  <2>1. c \in Command /\ Tail(toServer[s]) \in CommandSeq
    BY <1>4, CommandQueues DEF ServerExecutes, WireTypeOK
  <2>2. toServer' \in [Streams -> CommandSeq]
    BY <1>4, <2>1 DEF ServerExecutes, WireTypeOK
  <2>3. srv[s] \in ServerState
    BY DEF WireTypeOK
  <2>4. /\ Replies(srv[s], c) \in ReplySeq /\ LoadingReplies(c) \in ReplySeq
        /\ Executed(srv[s], c) \in ServerState
    BY <2>1, <2>3, RepliesType
  <2> HIDE DEF c
  <2>5. toClient' \in [Streams -> ReplySeq]
    BY <1>1, <1>4, <2>4 DEF ServerExecutes, c
  <2>6. srv' \in [Streams -> ServerState] /\ loads' \in 0..MaxLoads
    BY <1>4, <2>4, WireAssumption DEF ServerExecutes, WireTypeOK, c
  <2> QED BY <1>4, <2>2, <2>5, <2>6 DEF ServerExecutes, WireTypeOK
<1>5. ASSUME ServerPushes(s) PROVE WireTypeOK'
  <2>1. toClient' \in [Streams -> ReplySeq]
    BY <1>1, <1>2, <1>3, <1>5 DEF ServerPushes
  <2> QED BY <1>5, <2>1, WireAssumption DEF ServerPushes, WireTypeOK
<1>6. ASSUME ServerCloses(s) PROVE WireTypeOK'
  <2>1. toClient' \in [Streams -> ReplySeq]
    BY <1>1, <1>2, <1>3, <1>6 DEF ServerCloses
  <2> QED BY <1>6, <2>1 DEF ServerCloses, WireTypeOK
<1>7. \A state \in SockStates : Drop(s, state) \/ SetSock(s, state) => WireTypeOK'
  <2> SUFFICES ASSUME NEW state \in SockStates, Drop(s, state) \/ SetSock(s, state)
               PROVE  WireTypeOK'
    OBVIOUS
  <2>1. sock' \in [Streams -> SockStates]
    BY DEF Drop, SetSock, WireTypeOK
  <2>2. <<>> \in CommandSeq /\ <<>> \in ReplySeq
    BY CommandQueues, ReplyQueues
  <2>3. toServer' \in [Streams -> CommandSeq]
    BY <2>2 DEF Drop, SetSock, WireTypeOK
  <2>4. toClient' \in [Streams -> ReplySeq]
    BY <2>2 DEF Drop, SetSock, WireTypeOK
  <2>5. UNCHANGED <<srv, loads, pushes>>
    BY DEF Drop, SetSock
  <2> QED BY <2>1, <2>3, <2>4, <2>5 DEF WireTypeOK
<1> QED BY <1>4, <1>5, <1>6, <1>7

\* The promises stay promises when one is settled.
LEMMA SettleType ==
  ASSUME TypeOK, NEW c \in Command, NEW how \in {"pending", "resolved", "rejected"}
  PROVE  Settle(c, how) \in PromiseSeq
<1>1. promise \in PromiseSeq /\ c.id \in Nat
  BY DEF TypeOK, Command
<1> QED BY <1>1, PromiseUpdate DEF Settle

\* The reactions to an answer are reactions.
LEMMA ReactionsType ==
  ASSUME NEW c \in Command, NEW r
  PROVE  /\ RejectReactions(c) \in ReactionSeq
         /\ ResolveReactions(c, r) \in ReactionSeq
         /\ ErrorReactions(c, r) \in ReactionSeq
<1>1. \A run \in ReactionNames : <<[run |-> run, cmd |-> c]>> \in ReactionSeq
  <2>1. \A run \in ReactionNames : [run |-> run, cmd |-> c] \in Reaction
    BY DEF Reaction
  <2> QED BY <2>1, ReactionQueues
<1>2. RejectReactions(c) \in ReactionSeq
  <2>1. <<[run |-> "resetPubSub", cmd |-> c]>> \in ReactionSeq
    BY <1>1 DEF ReactionNames
  <2> QED BY <2>1, ReactionQueues DEF RejectReactions
<1>3. ResolveReactions(c, r) \in ReactionSeq
  <2>1. \A run \in {"selectResolved", "checkLater", "onReady", "authDone"} :
          <<[run |-> run, cmd |-> c]>> \in ReactionSeq
    BY <1>1 DEF ReactionNames
  <2> QED BY <2>1, ReactionQueues DEF ResolveReactions
<1>4. ErrorReactions(c, r) \in ReactionSeq
  <2>1. \A run \in {"authLater", "authDone"} : <<[run |-> run, cmd |-> c]>> \in ReactionSeq
    BY <1>1 DEF ReactionNames
  <2> QED BY <1>2, <2>1 DEF ErrorReactions
<1> QED BY <1>2, <1>3, <1>4

\* A flush leaves the queues empty and settles a promise.
LEMMA FlushType ==
  ASSUME TypeOK, FlushAndError
  PROVE  /\ offlineQueue' = <<>> /\ commandQueue' = <<>>
         /\ promise' \in PromiseSeq
         /\ reactions' \in ReactionSeq
<1> DEFINE all == offlineQueue \o commandQueue
<1>0. offlineQueue \in CommandSeq /\ commandQueue \in CommandSeq
  BY DEF TypeOK
<1>1. all \in CommandSeq
  BY <1>0, CommandConcat
<1>2. CASE all = <<>>
  BY <1>2 DEF FlushAndError, TypeOK
<1>3. CASE all # <<>>
  <2>1. Last(all) \in Command
    BY <1>1, <1>3, CommandQueues
  <2>2. Settle(Last(all), "rejected") \in PromiseSeq
    BY <2>1, SettleType
  <2>3. reactions \o RejectReactions(Last(all)) \in ReactionSeq
    BY <2>1, ReactionsType, ReactionQueues DEF TypeOK
  <2> QED BY <1>3, <2>2, <2>3 DEF FlushAndError
<1> QED BY <1>2, <1>3

\* The part of connectionGone that schedules the next connection.
LEMMA ReconnectType ==
  ASSUME TypeOK, Reconnect
  PROVE  /\ oldState' \in Modes \union {Null} /\ modes' \in Modes
         /\ emittedEnd' \in BOOLEAN /\ retryTimer' \in BOOLEAN
         /\ attempts' \in Nat \union {NaN}
<1>1. NoModes \in Modes
  BY DEF NoModes, Modes
<1>2. attempts # NaN => attempts + 1 \in Nat
  BY DEF TypeOK
<1> QED BY <1>1, <1>2 DEF Reconnect, SaveModes, ScheduleRetry, TypeOK

\* connectionGone as a whole.
LEMMA ConnectionGoneType ==
  ASSUME TypeOK, ConnectionGone, WireTypeOK'
  PROVE  TypeOK'
<1>1. /\ oldState' \in Modes \union {Null} /\ modes' \in Modes
      /\ emittedEnd' \in BOOLEAN /\ retryTimer' \in BOOLEAN
      /\ attempts' \in Nat \union {NaN}
  BY ReconnectType DEF ConnectionGone
<1>2. CASE retryTimer
  BY <1>1, <1>2 DEF ConnectionGone, TypeOK, commands, timers
<1>3. CASE ~retryTimer
  <2>1. GoDown
    BY <1>3 DEF ConnectionGone
  <2>2. /\ offlineQueue' \in CommandSeq /\ commandQueue' \in CommandSeq
        /\ promise' \in PromiseSeq
        /\ reactions' \in ReactionSeq /\ connected' \in BOOLEAN /\ ready' \in BOOLEAN
    BY <2>1, FlushType, CommandQueues DEF GoDown
  <2> QED BY <1>1, <2>2 DEF ConnectionGone, TypeOK, timers
<1> QED BY <1>2, <1>3

\* Initially every variable has its type.
LEMMA TypeInit == Init => TypeOK
<1>1. NewConnection \in ServerState
  BY WireAssumption DEF NewConnection, ServerState
<1>2. NoModes \in Modes
  BY DEF NoModes, Modes
<1>3. 1 \in Streams
  BY WireAssumption DEF Streams
<1>4. WireInit => WireTypeOK
  BY <1>1, CommandQueues, ReplyQueues, WireAssumption DEF WireInit, WireTypeOK, SockStates
<1>5. <<>> \in PromiseSeq
  BY DEF PromiseSeq
<1>6. Init => /\ commandQueue \in CommandSeq /\ offlineQueue \in CommandSeq
              /\ promise \in PromiseSeq /\ reactions \in ReactionSeq
  BY <1>5, CommandQueues, ReactionQueues DEF Init
<1>7. AuthPass \in BOOLEAN
  BY ClientAssumption
<1>8. Init => /\ stream \in Streams /\ modes \in Modes /\ oldState \in Modes \union {Null}
              /\ attempts \in Nat \union {NaN} /\ checkTimers \in Nat /\ authTimers \in Nat
  BY <1>2, <1>3 DEF Init
<1>9. Init => /\ connected \in BOOLEAN /\ ready \in BOOLEAN /\ closing \in BOOLEAN
              /\ retryTimer \in BOOLEAN /\ emittedEnd \in BOOLEAN /\ authPass \in BOOLEAN
              /\ subscriptionSet \subseteq Channels /\ resubKeys \subseteq Channels
              /\ draining \in BOOLEAN /\ task \in Tasks
  BY <1>7 DEF Init, Tasks
<1>10. Init => WireTypeOK
  BY <1>4 DEF Init
<1> QED BY <1>6, <1>8, <1>9, <1>10 DEF TypeOK

\* The turns of the user.
LEMMA UserType ==
  ASSUME TypeOK, Issue \/ End
  PROVE  TypeOK'
<1>1. CASE Issue
  <2>1. PICK u \in UserCommands, force \in BOOLEAN :
          LET c == Cmd(Len(promise) + 1, u.kind, u.args, u.db, FALSE) IN
            /\ Send(c, force, offlineQueue, modes)
            /\ promise' = Append(promise, IF Disposition(c, force, modes) = "rejected"
                                          THEN "rejected" ELSE "pending")
            /\ authPass' = (authPass \/ c.kind = "auth")
    BY <1>1, ClientAssumption DEF Issue
  <2> DEFINE c == Cmd(Len(promise) + 1, u.kind, u.args, u.db, FALSE)
  <2>2. c \in Command
    <3>1. u \in [kind : Kinds, args : Seq(Channels), db : Dbs]
      BY ClientAssumption
    <3>2. Len(promise) + 1 \in Nat
      BY DEF TypeOK
    <3> QED BY <3>1, <3>2 DEF Cmd, Command
  <2>3. offlineQueue \in CommandSeq /\ modes \in Modes
    BY DEF TypeOK
  <2>4. Send(c, force, offlineQueue, modes)
    BY <2>1
  <2>5. /\ WireTypeOK'
        /\ commandQueue' \in CommandSeq /\ offlineQueue' \in CommandSeq
        /\ modes' \in Modes /\ subscriptionSet' \subseteq Channels /\ closing' \in BOOLEAN
    BY <2>2, <2>3, <2>4, SendType
  <2>6. promise' \in PromiseSeq
    <3>1. promise \in PromiseSeq
      BY DEF TypeOK
    <3>2. promise' \in {Append(promise, "rejected"), Append(promise, "pending")}
      BY <2>1
    <3> QED BY <3>1, <3>2, PromiseUpdate
  <2>7. authPass' \in BOOLEAN
    BY <2>1 DEF TypeOK
  <2> QED BY <1>1, <2>5, <2>6, <2>7 DEF Issue, TypeOK, timers, turn
<1>2. CASE End
  <2>1. WireTypeOK'
    BY <1>2, WireType DEF End, TypeOK, SockStates
  <2> QED BY <1>2, <2>1 DEF End, TypeOK, commands, modal, timers, turn
<1> QED BY <1>1, <1>2

\* The rest of a callback, except for what is sent one by one.
LEMMA OwnType ==
  ASSUME TypeOK, DoAuth \/ ReadyCheck \/ OnReady \/ RestoreMonitor
  PROVE  TypeOK'
<1>1. "auth" \in Kinds /\ "info" \in Kinds /\ "select" \in Kinds /\ modes \in Modes
  BY DEF Kinds, TypeOK
<1>2. CASE DoAuth
  <2>1. Internal("auth") \in Command
    BY <1>1, InternalType
  <2>2. SendOwn(Internal("auth"), TRUE, modes)
    BY <1>2 DEF DoAuth
  <2>3. /\ WireTypeOK' /\ promise' = promise
        /\ commandQueue' \in CommandSeq /\ offlineQueue' \in CommandSeq
        /\ modes' \in Modes /\ subscriptionSet' \subseteq Channels /\ closing' \in BOOLEAN
    BY <1>1, <2>1, <2>2, SendOwnType
  <2> QED BY <1>2, <2>3 DEF DoAuth, TaskDone, TypeOK, timers, Tasks
<1>3. CASE ReadyCheck
  <2>1. Internal("info") \in Command
    BY <1>1, InternalType
  <2>2. SendOwn(Internal("info"), TRUE, modes)
    BY <1>3 DEF ReadyCheck
  <2>3. /\ WireTypeOK' /\ promise' = promise
        /\ commandQueue' \in CommandSeq /\ offlineQueue' \in CommandSeq
        /\ modes' \in Modes /\ subscriptionSet' \subseteq Channels /\ closing' \in BOOLEAN
    BY <1>1, <2>1, <2>2, SendOwnType
  <2> QED BY <1>3, <2>3 DEF ReadyCheck, TaskDone, TypeOK, timers, Tasks
<1>4. CASE OnReady
  <2>1. Restored \in Modes
    BY DEF Restored, TypeOK
  <2>2. \A m : RestoreTask(m) \in Tasks
    BY DEF RestoreTask, Tasks
  <2>3. CASE Restored.selectedDb # Null
    <3> DEFINE c   == Cmd(0, "select", <<>>, Restored.selectedDb, Restored.pubSubMode)
               off == [Restored EXCEPT !.pubSubMode = FALSE]
    <3>1. c \in Command /\ off \in Modes
      <4>1. off \in Modes
        BY <2>1 DEF Modes
      <4>2. Restored.selectedDb \in Dbs /\ Restored.pubSubMode \in BOOLEAN
        BY <2>1, <2>3 DEF Modes
      <4>3. <<>> \in Seq(Channels)
        OBVIOUS
      <4> QED BY <1>1, <4>1, <4>2, <4>3 DEF Cmd, Command
    <3>2. RestoreDb(Restored)
      BY <1>4, <2>3 DEF OnReady
    <3>3. SendOwn(c, TRUE, off)
      BY <3>2 DEF RestoreDb
    <3>4. /\ WireTypeOK' /\ promise' = promise
          /\ commandQueue' \in CommandSeq /\ offlineQueue' \in CommandSeq
          /\ modes' \in Modes /\ subscriptionSet' \subseteq Channels /\ closing' \in BOOLEAN
      BY <3>1, <3>3, SendOwnType
    <3>5. reactions' = reactions \o
            (IF Disposition(c, TRUE, off) = "rejected" THEN RejectReactions(c) ELSE <<>>)
      BY <3>2 DEF RestoreDb
    <3>6. reactions' \in ReactionSeq
      <4>1. RejectReactions(c) \in ReactionSeq
        BY <3>1, ReactionsType
      <4>2. reactions \in ReactionSeq
        BY DEF TypeOK
      <4> HIDE DEF c, off
      <4> QED BY <3>5, <4>1, <4>2, ReactionQueues
    <3>7. task' \in Tasks /\ resubKeys' = resubKeys
      BY <2>2, <3>2 DEF RestoreDb
    <3> QED BY <1>4, <3>4, <3>6, <3>7 DEF OnReady, TypeOK, timers
  <2>4. CASE Restored.selectedDb = Null
    BY <1>4, <2>1, <2>2, <2>4 DEF OnReady, RestoreModes, TypeOK, WireTypeOK, wire, commands, timers
  <2> QED BY <2>3, <2>4
<1>5. CASE RestoreMonitor
  BY <1>5 DEF RestoreMonitor, TaskDone, TypeOK, WireTypeOK, wire, connection, commands, modal,
              timers, Tasks
<1> QED BY <1>2, <1>3, <1>4, <1>5

\* The loops: resubscribing and replaying.
LEMMA LoopType ==
  ASSUME TypeOK, Resubscribe \/ SendOfflineQueue
  PROVE  TypeOK'
<1>0. modes \in Modes
  BY DEF TypeOK
<1>1. ASSUME Resubscribe, NEW key \in resubKeys,
             SendOwn(Cmd(0, "subscribe", <<key>>, DefaultDb, FALSE), FALSE, modes),
             resubKeys' = resubKeys \ {key}, UNCHANGED <<task, draining>>
      PROVE  TypeOK'
  <2>1. Cmd(0, "subscribe", <<key>>, DefaultDb, FALSE) \in Command
    BY WireAssumption DEF Cmd, Command, Kinds, SubKinds, TypeOK
  <2>2. /\ WireTypeOK' /\ promise' = promise
        /\ commandQueue' \in CommandSeq /\ offlineQueue' \in CommandSeq
        /\ modes' \in Modes /\ subscriptionSet' \subseteq Channels /\ closing' \in BOOLEAN
    BY <1>0, <1>1, <2>1, SendOwnType
  <2> QED BY <1>1, <2>2 DEF Resubscribe, TypeOK, timers
<1>2. ASSUME Resubscribe, TaskDone,
             UNCHANGED <<wire, commands, closing, modes, subscriptionSet, resubKeys>>
      PROVE  TypeOK'
  BY <1>2 DEF Resubscribe, TaskDone, TypeOK, WireTypeOK, wire, commands, timers, Tasks
<1>3. CASE Resubscribe
  BY <1>1, <1>2, <1>3 DEF Resubscribe
<1>4. CASE SendOfflineQueue /\ offlineQueue # <<>>
  <2> DEFINE c == Head(offlineQueue)
  <2>1. c \in Command /\ Tail(offlineQueue) \in CommandSeq
    BY <1>4, CommandQueues DEF TypeOK
  <2>2. Send(c, FALSE, Tail(offlineQueue), modes)
    BY <1>4 DEF SendOfflineQueue
  <2>3. /\ WireTypeOK'
        /\ commandQueue' \in CommandSeq /\ offlineQueue' \in CommandSeq
        /\ modes' \in Modes /\ subscriptionSet' \subseteq Channels /\ closing' \in BOOLEAN
    BY <1>0, <2>1, <2>2, SendType
  <2>4. Settle(c, "rejected") \in PromiseSeq
    BY <2>1, SettleType
  <2>5. promise' \in PromiseSeq
    BY <1>4, <2>4 DEF SendOfflineQueue, TypeOK
  <2> QED BY <1>4, <2>3, <2>5 DEF SendOfflineQueue, TypeOK, timers
<1>5. CASE SendOfflineQueue /\ offlineQueue = <<>>
  BY <1>5 DEF SendOfflineQueue, TaskDone, TypeOK, WireTypeOK, wire, commands, timers, Tasks
<1> QED BY <1>3, <1>4, <1>5

\* Replies.
LEMMA DataType ==
  ASSUME TypeOK, NEW s \in Streams, OnData(s)
  PROVE  TypeOK'
<1> DEFINE r == Head(toClient[s])
<1>1. toClient' \in [Streams -> ReplySeq]
  <2>1. toClient[s] \in ReplySeq /\ toClient[s] # <<>>
    BY DEF OnData, TypeOK, WireTypeOK
  <2>2. Tail(toClient[s]) \in ReplySeq
    BY <2>1, ReplyQueues
  <2> QED BY <2>2 DEF OnData, TypeOK, WireTypeOK
<1>2. ReturnError(r) \/ ReturnReply(r)
  BY DEF OnData
<1> HIDE DEF r
<1>3. modes' \in Modes
  BY <1>2 DEF ReturnError, ReturnReply, TypeOK, Modes
<1>4. /\ commandQueue' \in CommandSeq
      /\ promise' \in PromiseSeq
      /\ reactions' \in ReactionSeq
  <2> DEFINE c == Head(commandQueue)
  <2>1. CASE commandQueue # <<>>
    <3>1. c \in Command /\ Tail(commandQueue) \in CommandSeq
      BY <2>1, CommandQueues DEF TypeOK
    <3>2. Verdict(c, r) \in {"pending", "resolved", "rejected"}
      BY DEF Verdict
    <3>3. /\ Settle(c, Verdict(c, r)) \in PromiseSeq
          /\ Settle(c, "rejected") \in PromiseSeq
      BY <3>1, <3>2, SettleType
    <3>4. /\ reactions \o ResolveReactions(c, r) \in ReactionSeq
          /\ reactions \o ErrorReactions(c, r) \in ReactionSeq
      BY <3>1, ReactionsType, ReactionQueues DEF TypeOK
    <3> QED BY <1>2, <2>1, <3>1, <3>3, <3>4 DEF ReturnError, ReturnReply, TypeOK
  <2>2. CASE commandQueue = <<>>
    BY <1>2, <2>2 DEF ReturnError, ReturnReply, TypeOK
  <2> QED BY <2>1, <2>2
<1> QED BY <1>1, <1>3, <1>4 DEF OnData, TypeOK, WireTypeOK, connection, timers

\* Promise reactions.
LEMMA ReactionType ==
  ASSUME TypeOK, RunReaction
  PROVE  TypeOK'
<1> DEFINE r == Head(reactions)
<1>1. r \in Reaction /\ Tail(reactions) \in ReactionSeq
  BY ReactionQueues DEF RunReaction, TypeOK
<1>2. r.cmd \in Command /\ r.cmd.db \in Dbs /\ r.cmd.mode \in BOOLEAN
  BY <1>1 DEF Reaction, Command
<1>3. reactions' \in ReactionSeq
  <2>1. RejectReactions(r.cmd) \in ReactionSeq
    BY <1>2, ReactionsType
  <2>2. Tail(reactions) \o RejectReactions(r.cmd) \in ReactionSeq
    BY <1>1, <2>1, ReactionQueues
  <2>3. Tail(reactions) \o <<>> \in ReactionSeq
    BY <1>1, ReactionQueues
  <2> QED BY <2>2, <2>3 DEF RunReaction
<1>4. ReactionEffect(r) /\ r.run \in ReactionNames
  BY <1>1 DEF RunReaction, Reaction
<1>5. /\ modes' \in Modes /\ attempts' \in Nat \union {NaN} /\ task' \in Tasks
      /\ checkTimers' \in Nat /\ authTimers' \in Nat
  <2> HIDE DEF r
  <2>1. AfterConnect \in Tasks /\ "onReady" \in Tasks
    BY DEF AfterConnect, Tasks
  <2>2. modes \in Modes
    BY DEF TypeOK
  <2>3. /\ [modes EXCEPT !.selectedDb = r.cmd.db] \in Modes
        /\ [modes EXCEPT !.pubSubMode = r.cmd.mode] \in Modes
    BY <1>2, <2>2 DEF Modes
  <2>4. /\ attempts \in Nat \union {NaN} /\ task \in Tasks
        /\ checkTimers \in Nat /\ authTimers \in Nat
    BY DEF TypeOK
  <2>5. CASE r.run \in {"onReady", "authDone"}
    <3>1. UNCHANGED <<modes, timers>>
      BY <1>4, <2>5 DEF ReactionEffect
    <3>2. task' \in {"onReady", AfterConnect} /\ attempts' \in {attempts, 1}
      BY <1>4, <2>5 DEF ReactionEffect
    <3> QED BY <2>1, <2>2, <2>4, <3>1, <3>2 DEF timers
  <2>6. CASE r.run \in {"checkLater", "authLater"}
    <3>1. UNCHANGED <<task, attempts, modes>>
      BY <1>4, <2>6 DEF ReactionEffect
    <3>2. /\ checkTimers' \in {checkTimers, checkTimers + 1}
          /\ authTimers' \in {authTimers, authTimers + 1}
      BY <1>4, <2>6 DEF ReactionEffect
    <3> QED BY <2>2, <2>4, <3>1, <3>2
  <2>7. CASE r.run \in {"selectResolved", "resetPubSub"}
    <3>1. modes' \in Modes
      BY <1>4, <2>3, <2>7 DEF ReactionEffect
    <3>2. UNCHANGED <<task, attempts, timers>>
      BY <1>4, <2>7 DEF ReactionEffect
    <3> QED BY <2>4, <3>1, <3>2 DEF timers
  <2> QED BY <1>4, <2>5, <2>6, <2>7 DEF ReactionNames
<1>6. draining' \in BOOLEAN
  BY DEF RunReaction
<1> QED BY <1>3, <1>5, <1>6 DEF RunReaction, TypeOK, WireTypeOK, wire, commands

\* What happens to a socket, and the timers.
LEMMA EventType ==
  ASSUME TypeOK, NEW s \in Streams,
         OnConnect(s) \/ OnEnd(s) \/ OnClose(s) \/ OnError(s) \/ Timer
  PROVE  TypeOK'
<1>0. {"open", "eof", "closed", "errored", "connecting"} \subseteq SockStates
  BY DEF SockStates
<1>1. CASE OnConnect(s)
  <2>1. WireTypeOK'
    BY <1>0, <1>1, WireType DEF OnConnect, TypeOK
  <2>2. AfterConnect \in Tasks /\ "doAuth" \in Tasks
    BY DEF AfterConnect, Tasks
  <2>3. commandQueue' \in CommandSeq
    BY <1>1, CommandQueues DEF OnConnect
  <2> QED BY <1>1, <2>1, <2>2, <2>3 DEF OnConnect, TypeOK, modal, timers
<1>2. CASE OnEnd(s)
  <2>1. WireTypeOK'
    BY <1>0, <1>2, WireType DEF OnEnd, TypeOK
  <2> QED BY <1>2, <2>1, ConnectionGoneType DEF OnEnd
<1>3. CASE OnClose(s)
  <2>1. WireTypeOK'
    BY <1>0, <1>3, WireType DEF OnClose, TypeOK
  <2> QED BY <1>3, <2>1, ConnectionGoneType DEF OnClose
<1>4. CASE OnError(s)
  <2>1. WireTypeOK'
    BY <1>0, <1>4, WireType DEF OnError, TypeOK
  <2>2. CASE closing
    BY <1>4, <2>1, <2>2 DEF OnError, TypeOK, connection, commands, modal, timers, turn
  <2>3. CASE ~closing
    <3>1. GoDown /\ Reconnect
      BY <1>4, <2>3 DEF OnError
    <3>2. /\ offlineQueue' \in CommandSeq /\ commandQueue' \in CommandSeq
          /\ promise' \in PromiseSeq
          /\ reactions' \in ReactionSeq /\ connected' \in BOOLEAN /\ ready' \in BOOLEAN
      BY <3>1, FlushType, CommandQueues DEF GoDown
    <3> QED BY <1>4, <2>1, <2>3, <3>1, <3>2, ReconnectType DEF OnError, TypeOK, timers
  <2> QED BY <2>2, <2>3
<1>5. CASE CheckTimer \/ AuthTimer
  BY <1>5 DEF CheckTimer, AuthTimer, TypeOK, WireTypeOK, wire, connection, commands, modal, Tasks
<1>6. CASE RetryConnection
  <2>1. stream + 1 \in Streams
    BY <1>6, WireAssumption DEF RetryConnection, TypeOK, Streams
  <2>2. WireTypeOK'
    BY <1>0, <1>6, <2>1, WireType DEF RetryConnection, TypeOK
  <2> QED BY <1>6, <2>1, <2>2 DEF RetryConnection, TypeOK, commands, modal, timers, turn
<1> QED BY <1>1, <1>2, <1>3, <1>4, <1>5, <1>6 DEF Timer

\* Every step keeps the types.
LEMMA TypeStep == TypeOK /\ [Next]_vars => TypeOK'
<1> SUFFICES ASSUME TypeOK, [Next]_vars PROVE TypeOK'
  OBVIOUS
<1>1. ASSUME NEW s \in Streams, Server(s) PROVE TypeOK'
  <2>1. WireTypeOK'
    BY <1>1, WireType DEF Server, TypeOK
  <2> QED BY <1>1, <2>1 DEF Server, TypeOK, connection, commands, modal, timers, turn
<1>2. ASSUME NEW s \in Streams, IOEvent(s) PROVE TypeOK'
  BY <1>2, DataType, EventType DEF IOEvent
<1>3. CASE Timer
  <2>1. 1 \in Streams
    BY WireAssumption DEF Streams
  <2> QED BY <1>3, <2>1, EventType
<1>4. CASE Continue
  BY <1>4, OwnType, LoopType DEF Continue
<1>5. CASE RunReaction
  BY <1>5, ReactionType
<1>6. CASE Issue \/ End
  BY <1>6, UserType
<1>7. CASE UNCHANGED vars
  BY <1>7 DEF vars, TypeOK, WireTypeOK, wire, connection, commands, modal, timers, turn
<1> QED BY <1>1, <1>2, <1>3, <1>4, <1>5, <1>6, <1>7 DEF Next

\* Every variable keeps its type in every behaviour (of client.js and of the
\* server and network the model puts around it).
THEOREM TypeCorrect == Spec => []TypeOK
  BY TypeInit, TypeStep, PTL DEF Spec
------------------------------------------------------------------------------
(* The selected database changes only with a SELECT                        *)

\* _send keeps the database of the modes it starts from.
LEMMA SendKeepsDb ==
  \A c, force, oq : \A m \in Modes :
    Send(c, force, oq, m) => modes'.selectedDb = m.selectedDb
<1> SUFFICES ASSUME NEW c, NEW force, NEW oq, NEW m \in Modes, Send(c, force, oq, m)
             PROVE  modes'.selectedDb = m.selectedDb
  OBVIOUS
<1>1. modes' = ModesAfter(c, m) \/ modes' = m
  BY DEF Send
<1>2. ModesAfter(c, m).selectedDb = m.selectedDb
  BY DEF ModesAfter, Modes
<1> QED BY <1>1, <1>2

\* Reconnecting saves the modes once, however often the loss is reported.
LEMMA ReconnectKeepsDb ==
  ASSUME TypeOK, Reconnect
  PROVE  Restored'.selectedDb = Restored.selectedDb
<1>1. modes \in Modes /\ modes # Null
  BY NullAssumption DEF TypeOK
<1>2. CASE retryTimer \/ oldState # Null
  BY <1>2 DEF Reconnect, SaveModes, Restored
<1>3. CASE ~retryTimer /\ oldState = Null
  <2>1. oldState' = modes
    BY <1>3 DEF Reconnect, SaveModes
  <2> QED BY <1>1, <1>3, <2>1 DEF Restored
<1> QED BY <1>2, <1>3

\* onReady takes the saved modes over, sent SELECT or not.
LEMMA OnReadyKeepsDb ==
  ASSUME TypeOK, OnReady
  PROVE  Restored'.selectedDb = Restored.selectedDb
<1>1. Restored \in Modes
  BY DEF Restored, TypeOK
<1>2. Restored' = modes'
  BY DEF OnReady, Restored
<1>3. CASE Restored.selectedDb # Null
  <2> DEFINE off == [Restored EXCEPT !.pubSubMode = FALSE]
  <2>1. off \in Modes /\ off.selectedDb = Restored.selectedDb
    BY <1>1 DEF Modes
  <2>2. PICK c : Send(c, TRUE, offlineQueue, off)
    BY <1>3 DEF OnReady, RestoreDb, SendOwn
  <2> QED BY <1>2, <2>1, <2>2, SendKeepsDb
<1>4. CASE Restored.selectedDb = Null
  BY <1>2, <1>4 DEF OnReady, RestoreModes
<1> QED BY <1>3, <1>4

\* Every step keeps the selected database, in the modes or among the saved
\* ones, but for the reaction to another SELECT.
LEMMA DbStep ==
  ASSUME TypeOK, [Next]_vars, Restored'.selectedDb # Restored.selectedDb
  PROVE  /\ reactions # <<>> /\ Head(reactions).run = "selectResolved"
         /\ Restored'.selectedDb = Head(reactions).cmd.db
<1>0. modes \in Modes
  BY DEF TypeOK
<1>1. UNCHANGED <<modes, oldState>> => Restored'.selectedDb = Restored.selectedDb
  BY DEF Restored
<1>2. ASSUME NEW c, NEW force, NEW oq, Send(c, force, oq, modes), UNCHANGED oldState
      PROVE  Restored'.selectedDb = Restored.selectedDb
  <2>1. modes'.selectedDb = modes.selectedDb
    BY <1>0, <1>2, SendKeepsDb
  <2> QED BY <1>2, <2>1 DEF Restored
<1>3. ASSUME NEW s \in Streams, Server(s) \/ OnConnect(s)
      PROVE  UNCHANGED <<modes, oldState>>
  BY <1>3 DEF Server, OnConnect, modal
<1>4. ASSUME NEW s \in Streams, OnData(s)
      PROVE  Restored'.selectedDb = Restored.selectedDb
  <2>1. modes'.selectedDb = modes.selectedDb /\ UNCHANGED oldState
    BY <1>0, <1>4 DEF OnData, ReturnError, ReturnReply, Modes
  <2> QED BY <2>1 DEF Restored
<1>5. ASSUME NEW s \in Streams, OnEnd(s) \/ OnClose(s) \/ OnError(s)
      PROVE  Restored'.selectedDb = Restored.selectedDb
  <2>1. Reconnect \/ UNCHANGED <<modes, oldState>>
    BY <1>5 DEF OnEnd, OnClose, OnError, ConnectionGone, modal
  <2> QED BY <1>1, <2>1, ReconnectKeepsDb
<1>6. CASE Timer \/ End \/ RestoreMonitor
  <2>1. UNCHANGED <<modes, oldState>>
    BY <1>6 DEF Timer, CheckTimer, AuthTimer, RetryConnection, End, RestoreMonitor, modal
  <2> QED BY <1>1, <2>1
<1>7. CASE Issue \/ DoAuth \/ ReadyCheck
  <2>1. \E c, force, oq : Send(c, force, oq, modes)
    BY <1>7 DEF Issue, DoAuth, ReadyCheck, SendOwn
  <2>2. UNCHANGED oldState
    BY <1>7 DEF Issue, DoAuth, ReadyCheck
  <2> QED BY <1>2, <2>1, <2>2
<1>8. CASE Resubscribe \/ SendOfflineQueue
  <2>1. (\E c, force, oq : Send(c, force, oq, modes)) \/ UNCHANGED modes
    BY <1>8 DEF Resubscribe, SendOfflineQueue, SendOwn
  <2>2. UNCHANGED oldState
    BY <1>8 DEF Resubscribe, SendOfflineQueue
  <2> QED BY <1>1, <1>2, <2>1, <2>2
<1>9. CASE OnReady
  BY <1>9, OnReadyKeepsDb
<1>10. CASE RunReaction
  <2> DEFINE r == Head(reactions)
  <2>1. reactions # <<>> /\ ReactionEffect(r) /\ UNCHANGED oldState
    BY <1>10 DEF RunReaction
  <2>2. r \in Reaction
    BY <2>1, ReactionQueues DEF TypeOK
  <2>3. r.run \in ReactionNames
    BY <2>2 DEF Reaction
  <2> HIDE DEF r
  <2>4. CASE r.run = "selectResolved"
    <3>1. modes' = [modes EXCEPT !.selectedDb = r.cmd.db]
      BY <2>1, <2>4 DEF ReactionEffect
    <3>2. modes'.selectedDb = r.cmd.db
      BY <1>0, <3>1 DEF Modes
    <3>3. Restored'.selectedDb = r.cmd.db
      BY <2>1, <3>2 DEF Restored
    <3> QED BY <2>1, <2>4, <3>3 DEF r
  <2>5. CASE r.run # "selectResolved"
    <3>1. modes'.selectedDb = modes.selectedDb
      BY <1>0, <2>1, <2>3, <2>5 DEF ReactionEffect, ReactionNames, Modes
    <3> QED BY <2>1, <3>1 DEF Restored
  <2> QED BY <2>4, <2>5
<1>11. CASE UNCHANGED vars
  BY <1>1, <1>11 DEF vars, modal
<1> QED
  BY <1>1, <1>3, <1>4, <1>5, <1>6, <1>7, <1>8, <1>9, <1>10, <1>11
  DEF Next, IOEvent, Continue

\* However many of 'error', 'end' and 'close' report a loss, connectionGone saves
\* the database once and onReady takes it over: only a SELECT changes it.
THEOREM DbKept == Spec => DbKeptUntilSelect
<1>1. TypeOK /\ [Next]_vars
        => [Restored.selectedDb # Null /\ Restored'.selectedDb # Restored.selectedDb
              => /\ reactions # <<>> /\ Head(reactions).run = "selectResolved"
                 /\ Restored'.selectedDb = Head(reactions).cmd.db]_vars
  BY DbStep
<1> QED BY <1>1, TypeCorrect, PTL DEF Spec, DbKeptUntilSelect

------------------------------------------------------------------------------
(* A command is in one place                                               *)

\* The numbers of the user's commands in a queue; none is there twice.
Own(q) == {q[i].id : i \in DOMAIN q} \ {0}

NoRepeat(q) == \A i, j \in DOMAIN q : q[i].id = q[j].id /\ q[i].id # 0 => i = j

\* A command may be in commandQueue and on the way to the server, in nothing else
\* twice: the two queues and the pipelines of the streams.
OnePlace(cq, oq, ts) ==
  /\ NoRepeat(cq) /\ NoRepeat(oq) /\ Own(cq) \intersect Own(oq) = {}
  /\ \A s \in Streams : NoRepeat(ts[s]) /\ Own(ts[s]) \intersect Own(oq) = {}
  /\ \A s, t \in Streams : s # t => Own(ts[s]) \intersect Own(ts[t]) = {}

\* What is queued was issued and is pending, what is on the way was issued.
Accounted(cq, oq, ts, p) ==
  /\ \A n \in Own(cq) \union Own(oq) : n \in 1..Len(p) /\ p[n] = "pending"
  /\ \A s \in Streams : Own(ts[s]) \subseteq 1..Len(p)

Placed ==
  /\ OnePlace(commandQueue, offlineQueue, toServer)
  /\ Accounted(commandQueue, offlineQueue, toServer, promise)

\* The inductive invariant.
OwnInv == TypeOK /\ Placed

\* A number that is in no queue and on no stream.
Fresh(n, cq, oq, ts) ==
  n \notin Own(cq) \union Own(oq) /\ \A s \in Streams : n \notin Own(ts[s])

\* What Append and Tail do to a queue.
LEMMA AppendOwn ==
  ASSUME NEW q \in CommandSeq, NEW c \in Command
  PROVE  /\ Own(Append(q, c)) = Own(q) \union ({c.id} \ {0})
         /\ NoRepeat(q) /\ c.id \notin Own(q) => NoRepeat(Append(q, c))
<1>1. q \in Seq(Command)
  BY DEF CommandSeq
<1> DEFINE r == Append(q, c)
<1>2. /\ DOMAIN q = 1..Len(q) /\ DOMAIN r = 1..(Len(q) + 1) /\ Len(q) \in Nat
      /\ \A i \in 1..Len(q) : r[i] = q[i]
      /\ r[Len(q) + 1] = c
  BY <1>1
<1> HIDE DEF r
<1>3. \A i \in DOMAIN r : i \in DOMAIN q \/ i = Len(q) + 1
  BY <1>2
<1>4. Own(r) = Own(q) \union ({c.id} \ {0})
  BY <1>2, <1>3 DEF Own
<1>5. ASSUME NoRepeat(q), c.id \notin Own(q) PROVE NoRepeat(r)
  <2>1. \A i \in DOMAIN q : q[i].id # 0 => q[i].id # c.id
    BY <1>5 DEF Own
  <2> QED BY <1>2, <1>3, <1>5, <2>1 DEF NoRepeat
<1> QED BY <1>4, <1>5 DEF r

LEMMA TailOwn ==
  ASSUME NEW q \in CommandSeq, q # <<>>, NoRepeat(q)
  PROVE  /\ Own(Tail(q)) = Own(q) \ {Head(q).id}
         /\ NoRepeat(Tail(q))
         /\ Head(q).id # 0 => Head(q).id \in Own(q)
<1>1. q \in Seq(Command)
  BY DEF CommandSeq
<1> DEFINE r == Tail(q)
<1>2. /\ DOMAIN q = 1..Len(q) /\ DOMAIN r = 1..(Len(q) - 1) /\ Len(q) \in Nat \ {0}
      /\ \A i \in 1..(Len(q) - 1) : r[i] = q[i + 1]
      /\ Head(q) = q[1]
  BY <1>1
<1> HIDE DEF r
<1>3. /\ \A i \in DOMAIN r : i + 1 \in DOMAIN q /\ i \in Nat \ {0} /\ r[i] = q[i + 1]
      /\ \A j \in DOMAIN q : j # 1 => j - 1 \in DOMAIN r /\ r[j - 1] = q[j]
      /\ 1 \in DOMAIN q
  BY <1>2
<1>4. NoRepeat(r)
  <2> SUFFICES ASSUME NEW i \in DOMAIN r, NEW j \in DOMAIN r, r[i].id = r[j].id, r[i].id # 0
               PROVE  i = j
    BY DEF NoRepeat
  <2>1. i + 1 = j + 1
    BY <1>3 DEF NoRepeat
  <2> QED BY <1>3, <2>1
<1>5. \A j \in DOMAIN q : j # 1 /\ q[j].id # 0 => q[j].id # q[1].id
  BY <1>3 DEF NoRepeat
<1>6. Own(r) \subseteq Own(q) \ {q[1].id}
  <2> SUFFICES ASSUME NEW i \in DOMAIN r, r[i].id # 0
               PROVE  r[i].id \in Own(q) \ {q[1].id}
    BY DEF Own
  <2>1. i + 1 \in DOMAIN q /\ r[i] = q[i + 1] /\ i + 1 # 1
    BY <1>3
  <2> QED BY <1>5, <2>1 DEF Own
<1>7. Own(q) \ {q[1].id} \subseteq Own(r)
  <2> SUFFICES ASSUME NEW j \in DOMAIN q, q[j].id # 0, q[j].id # q[1].id
               PROVE  q[j].id \in Own(r)
    BY DEF Own
  <2>1. j - 1 \in DOMAIN r /\ r[j - 1] = q[j]
    BY <1>3
  <2> QED BY <2>1 DEF Own
<1>8. Head(q).id # 0 => Head(q).id \in Own(q)
  BY <1>2, <1>3 DEF Own
<1> QED BY <1>2, <1>4, <1>6, <1>7, <1>8 DEF r

LEMMA EmptyOwn == Own(<<>>) = {} /\ NoRepeat(<<>>)
  BY DEF Own, NoRepeat

\* Queues that lose commands stay disjoint.
LEMMA ShrinkPlaces ==
  ASSUME NEW cq, NEW oq, NEW ts, NEW cq2, NEW oq2, NEW ts2, OnePlace(cq, oq, ts),
         NoRepeat(cq2), NoRepeat(oq2), \A s \in Streams : NoRepeat(ts2[s]),
         Own(cq2) \subseteq Own(cq), Own(oq2) \subseteq Own(oq),
         \A s \in Streams : Own(ts2[s]) \subseteq Own(ts[s])
  PROVE  OnePlace(cq2, oq2, ts2)
  BY DEF OnePlace

\* Writing a fresh command: to the end of commandQueue and of one stream.
LEMMA WritePlaces ==
  ASSUME NEW cq \in CommandSeq, NEW oq, NEW ts \in [Streams -> CommandSeq],
         NEW c \in Command, NEW s \in Streams,
         OnePlace(cq, oq, ts), Fresh(c.id, cq, oq, ts)
  PROVE  OnePlace(Append(cq, c), oq, [ts EXCEPT ![s] = Append(@, c)])
<1> DEFINE cq2 == Append(cq, c)
           q2  == Append(ts[s], c)
           ts2 == [ts EXCEPT ![s] = q2]
<1>1. NoRepeat(cq2) /\ Own(cq2) = Own(cq) \union ({c.id} \ {0})
  BY AppendOwn DEF OnePlace, Fresh
<1>2. NoRepeat(q2) /\ Own(q2) = Own(ts[s]) \union ({c.id} \ {0})
  <2>1. ts[s] \in CommandSeq /\ NoRepeat(ts[s]) /\ c.id \notin Own(ts[s])
    BY DEF OnePlace, Fresh
  <2> QED BY <2>1, AppendOwn
<1> HIDE DEF cq2, q2
<1>3. ts2[s] = q2 /\ \A t \in Streams : t # s => ts2[t] = ts[t]
  OBVIOUS
<1> HIDE DEF ts2
<1>4. NoRepeat(oq) /\ Own(cq2) \intersect Own(oq) = {}
  BY <1>1 DEF OnePlace, Fresh
<1>5. \A t \in Streams : NoRepeat(ts2[t]) /\ Own(ts2[t]) \intersect Own(oq) = {}
  BY <1>2, <1>3 DEF OnePlace, Fresh
<1>6. \A t, u \in Streams : t # u => Own(ts2[t]) \intersect Own(ts2[u]) = {}
  BY <1>2, <1>3 DEF OnePlace, Fresh
<1>7. OnePlace(cq2, oq, ts2)
  BY <1>1, <1>4, <1>5, <1>6 DEF OnePlace
<1> QED BY <1>7 DEF cq2, q2, ts2

\* _send with a fresh command: where the command can be afterwards.
LEMMA SendMoves ==
  TypeOK => \A c \in Command, force \in BOOLEAN, oq \in CommandSeq : \A m :
    /\ Send(c, force, oq, m)
    /\ OnePlace(commandQueue, oq, toServer) /\ Fresh(c.id, commandQueue, oq, toServer)
    => LET new == IF Disposition(c, force, m) = "rejected" THEN {} ELSE {c.id} \ {0} IN
       /\ OnePlace(commandQueue', offlineQueue', toServer')
       /\ Own(commandQueue') \union Own(offlineQueue')
            \subseteq Own(commandQueue) \union Own(oq) \union new
       /\ \A s \in Streams : Own(toServer'[s]) \subseteq Own(toServer[s]) \union new
<1> SUFFICES ASSUME TypeOK, NEW c \in Command, NEW force \in BOOLEAN,
                    NEW oq \in CommandSeq, NEW m, Send(c, force, oq, m),
                    OnePlace(commandQueue, oq, toServer),
                    Fresh(c.id, commandQueue, oq, toServer)
             PROVE  LET new == IF Disposition(c, force, m) = "rejected" THEN {}
                               ELSE {c.id} \ {0} IN
                    /\ OnePlace(commandQueue', offlineQueue', toServer')
                    /\ Own(commandQueue') \union Own(offlineQueue')
                         \subseteq Own(commandQueue) \union Own(oq) \union new
                    /\ \A s \in Streams :
                         Own(toServer'[s]) \subseteq Own(toServer[s]) \union new
  OBVIOUS
<1> DEFINE d == Disposition(c, force, m)
<1>0. d \in {"queued", "rejected", "written"}
  BY DEF Disposition
<1>1. /\ commandQueue \in CommandSeq /\ toServer \in [Streams -> CommandSeq]
      /\ stream \in Streams
  BY DEF TypeOK, WireTypeOK
<1>2. CASE d = "written"
  <2>1. /\ commandQueue' = Append(commandQueue, c) /\ offlineQueue' = oq
        /\ toServer' = [toServer EXCEPT ![stream] = Append(@, c)]
    BY <1>2 DEF Send
  <2>2. OnePlace(commandQueue', offlineQueue', toServer')
    BY <1>1, <2>1, WritePlaces
  <2>3. Own(commandQueue') = Own(commandQueue) \union ({c.id} \ {0})
    BY <1>1, <2>1, AppendOwn
  <2>4. \A s \in Streams : Own(toServer'[s]) \subseteq Own(toServer[s]) \union ({c.id} \ {0})
    <3> SUFFICES ASSUME NEW s \in Streams
                 PROVE  Own(toServer'[s]) \subseteq Own(toServer[s]) \union ({c.id} \ {0})
      OBVIOUS
    <3>1. toServer[s] \in CommandSeq
      BY <1>1
    <3>2. Own(Append(toServer[s], c)) = Own(toServer[s]) \union ({c.id} \ {0})
      BY <3>1, AppendOwn
    <3>3. toServer'[s] \in {toServer[s], Append(toServer[s], c)}
      BY <1>1, <2>1
    <3> QED BY <3>2, <3>3
  <2> QED BY <1>2, <2>1, <2>2, <2>3, <2>4
<1>3. CASE d = "queued"
  <2>1. offlineQueue' = Append(oq, c) /\ UNCHANGED <<commandQueue, toServer>>
    BY <1>3 DEF Send
  <2>2. Own(offlineQueue') = Own(oq) \union ({c.id} \ {0}) /\ NoRepeat(offlineQueue')
    BY <2>1, AppendOwn DEF OnePlace, Fresh
  <2>3. OnePlace(commandQueue, offlineQueue', toServer)
    BY <2>2 DEF OnePlace, Fresh
  <2> QED BY <1>3, <2>1, <2>2, <2>3
<1>4. CASE d = "rejected"
  <2>1. offlineQueue' = oq /\ UNCHANGED <<commandQueue, toServer>>
    BY <1>4 DEF Send
  <2> QED BY <1>4, <2>1
<1> QED BY <1>0, <1>2, <1>3, <1>4

\* Settling one promise leaves the others.
LEMMA SettleKeeps ==
  ASSUME TypeOK, NEW c \in Command, NEW how \in {"pending", "resolved", "rejected"}
  PROVE  /\ Len(Settle(c, how)) = Len(promise) /\ Len(promise) \in Nat
         /\ \A n \in 1..Len(promise) : n # c.id => Settle(c, how)[n] = promise[n]
<1>1. promise \in Seq({"pending", "resolved", "rejected"}) /\ c.id \in Nat
  BY DEF TypeOK, PromiseSeq, Command
<1>2. DOMAIN promise = 1..Len(promise) /\ Len(promise) \in Nat
  BY <1>1
<1>3. CASE c.id = 0
  BY <1>2, <1>3 DEF Settle
<1>4. CASE c.id # 0
  <2> DEFINE p == [promise EXCEPT ![c.id] = how]
  <2>1. DOMAIN p = 1..Len(promise) /\ \A n \in 1..Len(promise) : n # c.id => p[n] = promise[n]
    BY <1>2
  <2>2. Len(p) = Len(promise)
    BY <1>2, <2>1
  <2> QED BY <1>2, <1>4, <2>1, <2>2 DEF Settle
<1> QED BY <1>3, <1>4

\* The server, and a stream that is lost, take commands off the wire.
LEMMA WireShrinks ==
  ASSUME OwnInv, NEW s \in Streams,
         ServerExecutes(s) \/ UNCHANGED toServer
           \/ \E state : Drop(s, state) \/ SetSock(s, state)
  PROVE  \A t \in Streams : NoRepeat(toServer'[t]) /\ Own(toServer'[t]) \subseteq Own(toServer[t])
<1> SUFFICES ASSUME NEW t \in Streams
             PROVE  NoRepeat(toServer'[t]) /\ Own(toServer'[t]) \subseteq Own(toServer[t])
  OBVIOUS
<1>1. toServer \in [Streams -> CommandSeq] /\ toServer[t] \in CommandSeq /\ NoRepeat(toServer[t])
  BY DEF OwnInv, Placed, TypeOK, WireTypeOK, OnePlace
<1>2. \/ toServer'[t] = toServer[t] \/ toServer'[t] = <<>>
      \/ toServer[t] # <<>> /\ toServer'[t] = Tail(toServer[t])
  BY <1>1 DEF ServerExecutes, Drop, SetSock
<1> QED BY <1>1, <1>2, EmptyOwn, TailOwn

\* Commands only leave the queues, those that stay are not settled.
LEMMA PlacedShrinks ==
  ASSUME OwnInv, Len(promise) \in Nat, Len(promise') \in Nat, Len(promise) <= Len(promise'),
         NoRepeat(commandQueue'), NoRepeat(offlineQueue'),
         Own(commandQueue') \subseteq Own(commandQueue),
         Own(offlineQueue') \subseteq Own(offlineQueue),
         \A n \in Own(commandQueue') \union Own(offlineQueue') : promise'[n] = promise[n],
         \A t \in Streams :
           NoRepeat(toServer'[t]) /\ Own(toServer'[t]) \subseteq Own(toServer[t])
  PROVE  Placed'
<1>1. OnePlace(commandQueue', offlineQueue', toServer')
  BY ShrinkPlaces DEF OwnInv, Placed
<1>2. Accounted(commandQueue', offlineQueue', toServer', promise')
  <2>1. Accounted(commandQueue, offlineQueue, toServer, promise)
    BY DEF OwnInv, Placed
  <2>2. \A n \in Own(commandQueue') \union Own(offlineQueue') :
          n \in Own(commandQueue) \union Own(offlineQueue) /\ promise'[n] = promise[n]
    OBVIOUS
  <2>3. 1..Len(promise) \subseteq 1..Len(promise')
    OBVIOUS
  <2>4. \A t \in Streams : Own(toServer'[t]) \subseteq Own(toServer[t])
    OBVIOUS
  <2> QED BY <2>1, <2>2, <2>3, <2>4 DEF Accounted
<1> QED BY <1>1, <1>2 DEF Placed

\* So for the queues as they are, commandQueue emptied or not.
LEMMA PlacedKept ==
  ASSUME OwnInv, UNCHANGED <<offlineQueue, promise>>,
         commandQueue' = commandQueue \/ commandQueue' = <<>>,
         \A t \in Streams :
           NoRepeat(toServer'[t]) /\ Own(toServer'[t]) \subseteq Own(toServer[t])
  PROVE  Placed'
<1>1. Len(promise) \in Nat
  BY DEF OwnInv, TypeOK, PromiseSeq
<1>2. NoRepeat(commandQueue') /\ Own(commandQueue') \subseteq Own(commandQueue)
  BY EmptyOwn DEF OwnInv, Placed, OnePlace
<1>3. NoRepeat(offlineQueue)
  BY DEF OwnInv, Placed, OnePlace
<1> QED BY SMTT(30), <1>1, <1>2, <1>3, PlacedShrinks

\* A flush empties both queues.
LEMMA FlushPlaced ==
  ASSUME OwnInv, FlushAndError,
         \A t \in Streams :
           NoRepeat(toServer'[t]) /\ Own(toServer'[t]) \subseteq Own(toServer[t])
  PROVE  Placed'
<1> DEFINE all == offlineQueue \o commandQueue
<1>1. offlineQueue' = <<>> /\ commandQueue' = <<>>
  BY DEF FlushAndError
<1>2. Len(promise') = Len(promise) /\ Len(promise) \in Nat
  <2>1. CASE all = <<>>
    <3>1. Len(promise) \in Nat
      BY DEF OwnInv, TypeOK, PromiseSeq
    <3> QED BY <2>1, <3>1 DEF FlushAndError
  <2>2. CASE all # <<>>
    <3>1. offlineQueue \in CommandSeq /\ commandQueue \in CommandSeq
      BY DEF OwnInv, TypeOK
    <3>2. Last(all) \in Command
      BY <2>2, <3>1, CommandConcat, CommandQueues
    <3>3. promise' = Settle(Last(all), "rejected")
      BY <2>2 DEF FlushAndError
    <3> QED BY <3>2, <3>3, SettleKeeps DEF OwnInv
  <2> QED BY <2>1, <2>2
<1>3. Own(commandQueue') = {} /\ Own(offlineQueue') = {}
      /\ NoRepeat(commandQueue') /\ NoRepeat(offlineQueue')
  BY <1>1, EmptyOwn
<1> QED BY <1>2, <1>3, PlacedShrinks

\* The client's own commands have no number.
LEMMA SendOwnPlaced ==
  OwnInv => \A c \in Command, force \in BOOLEAN : \A m :
    c.id = 0 /\ SendOwn(c, force, m) => Placed'
<1> SUFFICES ASSUME OwnInv, NEW c \in Command, NEW force \in BOOLEAN, NEW m,
                    c.id = 0, SendOwn(c, force, m)
             PROVE  Placed'
  OBVIOUS
<1>1. /\ OnePlace(commandQueue, offlineQueue, toServer)
      /\ Fresh(c.id, commandQueue, offlineQueue, toServer)
  BY DEF OwnInv, Placed, Fresh, Own
<1>2. TypeOK /\ offlineQueue \in CommandSeq /\ Len(promise) \in Nat
  BY DEF OwnInv, TypeOK, PromiseSeq
<1>3. Send(c, force, offlineQueue, m) /\ promise' = promise
  BY DEF SendOwn
<1>4. /\ OnePlace(commandQueue', offlineQueue', toServer')
      /\ Own(commandQueue') \union Own(offlineQueue')
           \subseteq Own(commandQueue) \union Own(offlineQueue)
      /\ \A s \in Streams : Own(toServer'[s]) \subseteq Own(toServer[s])
  BY <1>1, <1>2, <1>3, SendMoves
<1>5. Accounted(commandQueue, offlineQueue, toServer, promise)
  BY DEF OwnInv, Placed
<1>6. Accounted(commandQueue', offlineQueue', toServer', promise')
  BY <1>3, <1>4, <1>5 DEF Accounted
<1> QED BY <1>4, <1>6 DEF Placed

\* A new command takes a number no queue holds.
LEMMA IssuePlaced ==
  ASSUME OwnInv, Issue
  PROVE  Placed'
<1>1. PICK u \in UserCommands, force \in BOOLEAN :
        LET c == Cmd(Len(promise) + 1, u.kind, u.args, u.db, FALSE) IN
          /\ Send(c, force, offlineQueue, modes)
          /\ promise' = Append(promise, IF Disposition(c, force, modes) = "rejected"
                                        THEN "rejected" ELSE "pending")
  BY ClientAssumption DEF Issue
<1> DEFINE c == Cmd(Len(promise) + 1, u.kind, u.args, u.db, FALSE)
           status == IF Disposition(c, force, modes) = "rejected" THEN "rejected" ELSE "pending"
<1>2. /\ TypeOK /\ offlineQueue \in CommandSeq /\ Len(promise) \in Nat
      /\ promise \in Seq({"pending", "resolved", "rejected"})
  BY DEF OwnInv, TypeOK, PromiseSeq
<1>3. c \in Command /\ c.id = Len(promise) + 1
  <2>1. u \in [kind : Kinds, args : Seq(Channels), db : Dbs]
    BY ClientAssumption
  <2> QED BY <1>2, <2>1 DEF Cmd, Command
<1>4. /\ OnePlace(commandQueue, offlineQueue, toServer)
      /\ Accounted(commandQueue, offlineQueue, toServer, promise)
  BY DEF OwnInv, Placed
<1>5. Send(c, force, offlineQueue, modes) /\ promise' = Append(promise, status)
  BY <1>1
<1>6. /\ Len(promise') = Len(promise) + 1 /\ promise'[Len(promise) + 1] = status
      /\ \A n \in 1..Len(promise) : promise'[n] = promise[n]
  <2> HIDE DEF c, status
  <2> QED BY <1>2, <1>5
<1> HIDE DEF c
<1>7. Fresh(c.id, commandQueue, offlineQueue, toServer)
  <2>1. c.id \notin 1..Len(promise)
    BY <1>2, <1>3
  <2> QED BY <1>4, <2>1 DEF Accounted, Fresh
<1> DEFINE new == IF Disposition(c, force, modes) = "rejected" THEN {} ELSE {c.id} \ {0}
<1>8. /\ OnePlace(commandQueue', offlineQueue', toServer')
      /\ Own(commandQueue') \union Own(offlineQueue')
           \subseteq Own(commandQueue) \union Own(offlineQueue) \union new
      /\ \A s \in Streams : Own(toServer'[s]) \subseteq Own(toServer[s]) \union new
  BY <1>2, <1>3, <1>4, <1>5, <1>7, SendMoves
<1>9. 1..Len(promise) \subseteq 1..Len(promise') /\ new \subseteq 1..Len(promise')
  BY <1>2, <1>3, <1>6
<1>10. \A n \in new : promise'[n] = "pending"
  BY <1>3, <1>6
<1> HIDE DEF new, status
<1>11. Accounted(commandQueue', offlineQueue', toServer', promise')
  BY <1>4, <1>6, <1>8, <1>9, <1>10 DEF Accounted
<1> QED BY <1>8, <1>11 DEF Placed

\* A replayed command leaves the offline queue before it is sent.
LEMMA ReplayPlaced ==
  ASSUME OwnInv, SendOfflineQueue, offlineQueue # <<>>
  PROVE  Placed'
<1> DEFINE c == Head(offlineQueue)
           rest == Tail(offlineQueue)
<1>1. TypeOK /\ offlineQueue \in CommandSeq /\ c \in Command /\ rest \in CommandSeq
  BY CommandQueues DEF OwnInv, TypeOK
<1>2. /\ OnePlace(commandQueue, offlineQueue, toServer)
      /\ Accounted(commandQueue, offlineQueue, toServer, promise)
  BY DEF OwnInv, Placed
<1>3. /\ Send(c, FALSE, rest, modes)
      /\ promise' = IF Disposition(c, FALSE, modes) = "rejected"
                    THEN Settle(c, "rejected") ELSE promise
  BY DEF SendOfflineQueue
<1>4. /\ NoRepeat(rest) /\ Own(rest) = Own(offlineQueue) \ {c.id}
      /\ c.id # 0 => c.id \in Own(offlineQueue)
  BY <1>1, <1>2, TailOwn DEF OnePlace
<1>5. /\ Len(promise') = Len(promise) /\ Len(promise) \in Nat
      /\ \A n \in 1..Len(promise) : n # c.id => promise'[n] = promise[n]
      /\ Disposition(c, FALSE, modes) # "rejected" => promise' = promise
  BY <1>1, <1>3, SettleKeeps
<1> HIDE DEF c, rest
<1>6. OnePlace(commandQueue, rest, toServer) /\ Fresh(c.id, commandQueue, rest, toServer)
  BY <1>2, <1>4 DEF OnePlace, Fresh, Own
<1> DEFINE new == IF Disposition(c, FALSE, modes) = "rejected" THEN {} ELSE {c.id} \ {0}
<1>7. /\ OnePlace(commandQueue', offlineQueue', toServer')
      /\ Own(commandQueue') \union Own(offlineQueue')
           \subseteq Own(commandQueue) \union Own(rest) \union new
      /\ \A s \in Streams : Own(toServer'[s]) \subseteq Own(toServer[s]) \union new
  BY <1>1, <1>3, <1>6, SendMoves
<1>8. \A n \in Own(commandQueue) \union Own(rest) : n # c.id
  BY <1>4, <1>6 DEF Fresh
<1>9. \A n \in Own(commandQueue') \union Own(offlineQueue') :
        n \in Own(commandQueue) \union Own(offlineQueue) /\ promise'[n] = promise[n]
  <2>1. \A n \in Own(commandQueue) \union Own(offlineQueue) : n \in 1..Len(promise)
    BY <1>2 DEF Accounted
  <2>2. \A n \in Own(commandQueue) \union Own(rest) :
          n \in Own(commandQueue) \union Own(offlineQueue) /\ promise'[n] = promise[n]
    BY <1>4, <1>5, <1>8, <2>1
  <2>3. \A n \in new : n \in Own(offlineQueue) /\ promise'[n] = promise[n]
    BY <1>4, <1>5
  <2> QED BY <1>7, <2>2, <2>3
<1>10. Accounted(commandQueue', offlineQueue', toServer', promise')
  <2>1. \A n \in new : n \in 1..Len(promise)
    BY <1>2, <1>4 DEF Accounted
  <2> QED BY <1>2, <1>5, <1>7, <1>9, <2>1 DEF Accounted
<1> QED BY <1>7, <1>10 DEF Placed

\* A reply takes the head of commandQueue, and settles no other command.
LEMMA DataPlaced ==
  ASSUME OwnInv, NEW s \in Streams, OnData(s)
  PROVE  Placed'
<1> DEFINE r == Head(toClient[s])
           c == Head(commandQueue)
<1>1. /\ TypeOK /\ commandQueue \in CommandSeq /\ Len(promise) \in Nat
      /\ OnePlace(commandQueue, offlineQueue, toServer)
      /\ Accounted(commandQueue, offlineQueue, toServer, promise)
  BY DEF OwnInv, Placed, TypeOK, PromiseSeq
<1>2. UNCHANGED <<toServer, offlineQueue>>
  BY DEF OnData
<1>3. \A t \in Streams : NoRepeat(toServer'[t]) /\ Own(toServer'[t]) \subseteq Own(toServer[t])
  BY <1>1, <1>2 DEF OnePlace
<1>4. ReturnError(r) \/ ReturnReply(r)
  BY DEF OnData
<1> HIDE DEF r
<1>5. CASE UNCHANGED <<commandQueue, promise>>
  BY <1>2, <1>3, <1>5, PlacedKept
<1>6. CASE ~UNCHANGED <<commandQueue, promise>>
  <2>1. /\ commandQueue # <<>> /\ commandQueue' = Tail(commandQueue)
        /\ promise' \in {Settle(c, "rejected"), Settle(c, Verdict(c, r))}
    BY <1>4, <1>6 DEF ReturnError, ReturnReply
  <2>2. c \in Command /\ Verdict(c, r) \in {"pending", "resolved", "rejected"}
    BY <1>1, <2>1, CommandQueues DEF Verdict
  <2>3. /\ Len(promise') = Len(promise)
        /\ \A n \in 1..Len(promise) : n # c.id => promise'[n] = promise[n]
    BY <1>1, <2>1, <2>2, SettleKeeps
  <2>4. /\ NoRepeat(commandQueue') /\ Own(commandQueue') = Own(commandQueue) \ {c.id}
        /\ c.id # 0 => c.id \in Own(commandQueue)
    BY <1>1, <2>1, TailOwn DEF OnePlace
  <2> HIDE DEF c
  <2>5. \A n \in Own(commandQueue') \union Own(offlineQueue') :
          n # c.id /\ n \in 1..Len(promise)
    <3>1. \A n \in Own(offlineQueue) : n # c.id
      BY <1>1, <2>4 DEF OnePlace, Own
    <3>2. \A n \in Own(commandQueue) \union Own(offlineQueue) : n \in 1..Len(promise)
      BY <1>1 DEF Accounted
    <3> QED BY <1>2, <2>4, <3>1, <3>2
  <2>6. \A n \in Own(commandQueue') \union Own(offlineQueue') : promise'[n] = promise[n]
    BY <2>3, <2>5
  <2>7. NoRepeat(offlineQueue') /\ Own(offlineQueue') \subseteq Own(offlineQueue)
    BY <1>1, <1>2 DEF OnePlace
  <2>8. Len(promise') \in Nat /\ Len(promise) <= Len(promise')
    BY <1>1, <2>3
  <2>9. Own(commandQueue') \subseteq Own(commandQueue)
    BY <2>4
  <2> QED BY <1>1, <1>3, <2>4, <2>6, <2>7, <2>8, <2>9, PlacedShrinks
<1> QED BY <1>5, <1>6

\* A connection made, ended, closed or failed.
LEMMA SocketPlaced ==
  ASSUME OwnInv, NEW s \in Streams, OnConnect(s) \/ OnEnd(s) \/ OnClose(s) \/ OnError(s)
  PROVE  Placed'
<1>1. \E state : Drop(s, state) \/ SetSock(s, state)
  BY DEF OnConnect, OnEnd, OnClose, OnError
<1>2. \A t \in Streams : NoRepeat(toServer'[t]) /\ Own(toServer'[t]) \subseteq Own(toServer[t])
  BY <1>1, WireShrinks
<1>3. CASE FlushAndError
  BY <1>2, <1>3, FlushPlaced
<1>4. CASE ~FlushAndError
  <2>1. /\ UNCHANGED <<offlineQueue, promise>>
        /\ commandQueue' = commandQueue \/ commandQueue' = <<>>
    BY <1>4 DEF OnConnect, OnEnd, OnClose, OnError, ConnectionGone, GoDown, commands
  <2> QED BY <1>2, <2>1, PlacedKept
<1> QED BY <1>3, <1>4

\* Every step leaves a command in one place.
LEMMA PlacedStep ==
  ASSUME OwnInv, [Next]_vars
  PROVE  Placed'
<1>1. CASE UNCHANGED <<commands, toServer>>
  <2>1. \A t \in Streams :
          NoRepeat(toServer'[t]) /\ Own(toServer'[t]) \subseteq Own(toServer[t])
    BY <1>1 DEF OwnInv, Placed, OnePlace
  <2> QED BY <1>1, <2>1, PlacedKept DEF commands
<1>2. ASSUME NEW s \in Streams, Server(s) PROVE Placed'
  <2>1. ServerExecutes(s) \/ UNCHANGED toServer
    BY <1>2 DEF Server, ServerPushes, ServerCloses
  <2>2. \A t \in Streams :
          NoRepeat(toServer'[t]) /\ Own(toServer'[t]) \subseteq Own(toServer[t])
    BY <2>1, WireShrinks
  <2> QED BY <1>2, <2>2, PlacedKept DEF Server, commands
<1>3. ASSUME NEW s \in Streams, IOEvent(s) PROVE Placed'
  BY <1>3, DataPlaced, SocketPlaced DEF IOEvent
<1>4. CASE CheckTimer \/ AuthTimer \/ RestoreMonitor \/ RunReaction
  BY <1>1, <1>4 DEF CheckTimer, AuthTimer, RestoreMonitor, RunReaction, wire
<1>5. CASE RetryConnection
  <2>1. stream + 1 \in Streams /\ SetSock(stream + 1, "connecting")
    BY <1>5, WireAssumption DEF RetryConnection, OwnInv, TypeOK, Streams
  <2> QED BY <1>1, <1>5, <2>1 DEF RetryConnection, SetSock
<1>6. CASE End
  <2>1. stream \in Streams /\ Drop(stream, "detached")
    BY <1>6 DEF End, OwnInv, TypeOK
  <2>2. \A t \in Streams :
          NoRepeat(toServer'[t]) /\ Own(toServer'[t]) \subseteq Own(toServer[t])
    BY <2>1, WireShrinks
  <2> QED BY <1>6, <2>2, PlacedKept DEF End, commands
<1>7. CASE DoAuth \/ ReadyCheck
  <2>1. \A kind \in {"auth", "info"} : Internal(kind) \in Command /\ Internal(kind).id = 0
    BY InternalType DEF Internal, Cmd, Kinds
  <2>2. \E kind \in {"auth", "info"} : SendOwn(Internal(kind), TRUE, modes)
    BY <1>7 DEF DoAuth, ReadyCheck
  <2> QED BY <2>1, <2>2, SendOwnPlaced
<1>8. CASE OnReady
  <2>1. CASE Restored.selectedDb # Null
    <3> DEFINE c   == Cmd(0, "select", <<>>, Restored.selectedDb, Restored.pubSubMode)
               off == [Restored EXCEPT !.pubSubMode = FALSE]
    <3>1. SendOwn(c, TRUE, off)
      BY <1>8, <2>1 DEF OnReady, RestoreDb
    <3>2. c \in Command /\ c.id = 0
      <4>1. Restored \in Modes
        BY DEF Restored, OwnInv, TypeOK
      <4>2. Restored.selectedDb \in Dbs /\ Restored.pubSubMode \in BOOLEAN
        BY <2>1, <4>1 DEF Modes
      <4>3. <<>> \in Seq(Channels) /\ "select" \in Kinds
        BY DEF Kinds
      <4> QED BY <4>2, <4>3 DEF Cmd, Command
    <3> HIDE DEF c, off
    <3> QED BY <3>1, <3>2, SendOwnPlaced
  <2>2. CASE Restored.selectedDb = Null
    BY <1>1, <1>8, <2>2 DEF OnReady, RestoreModes, wire
  <2> QED BY <2>1, <2>2
<1>9. CASE Resubscribe
  <2>1. ASSUME NEW key \in resubKeys,
               SendOwn(Cmd(0, "subscribe", <<key>>, DefaultDb, FALSE), FALSE, modes)
        PROVE  Placed'
    <3> DEFINE c == Cmd(0, "subscribe", <<key>>, DefaultDb, FALSE)
    <3>1. c \in Command /\ c.id = 0
      BY WireAssumption DEF Cmd, Command, Kinds, SubKinds, OwnInv, TypeOK
    <3> HIDE DEF c
    <3> QED BY <2>1, <3>1, SendOwnPlaced DEF c
  <2> QED BY <1>1, <1>9, <2>1 DEF Resubscribe, wire
<1>10. CASE SendOfflineQueue
  <2>1. CASE offlineQueue # <<>>
    BY <1>10, <2>1, ReplayPlaced
  <2>2. CASE offlineQueue = <<>>
    BY <1>1, <1>10, <2>2 DEF SendOfflineQueue, wire
  <2> QED BY <2>1, <2>2
<1>11. CASE Issue
  BY <1>11, IssuePlaced
<1>12. CASE UNCHANGED vars
  BY <1>1, <1>12 DEF vars, wire
<1> QED
  BY <1>2, <1>3, <1>4, <1>5, <1>6, <1>7, <1>8, <1>9, <1>10, <1>11, <1>12
  DEF Next, Timer, Continue

\* The inductive invariant.
LEMMA OwnCorrect == Spec => []OwnInv
<1>1. Init => OwnInv
  <2>1. Init => OnePlace(commandQueue, offlineQueue, toServer)
    BY EmptyOwn DEF Init, WireInit, OnePlace
  <2>2. Init => Accounted(commandQueue, offlineQueue, toServer, promise)
    BY EmptyOwn DEF Init, WireInit, Accounted
  <2> QED BY <2>1, <2>2, TypeInit DEF OwnInv, Placed
<1>2. OwnInv /\ [Next]_vars => OwnInv'
  BY TypeStep, PlacedStep DEF OwnInv
<1> QED BY <1>1, <1>2, PTL DEF Spec

\* No command is sent, or kept to be replayed, after its promise was settled: by
\* a reply, by an error or by flushAndError.
THEOREM QueuedPending == Spec => []QueuedIsPending
<1>1. OwnInv => QueuedIsPending
  <2> SUFFICES ASSUME OwnInv PROVE QueuedIsPending
    OBVIOUS
  <2> DEFINE q == commandQueue \o offlineQueue
  <2>1. commandQueue \in Seq(Command) /\ offlineQueue \in Seq(Command)
    BY DEF OwnInv, TypeOK, CommandSeq
  <2>2. ASSUME NEW i \in DOMAIN q
        PROVE  \/ i \in DOMAIN commandQueue /\ q[i] = commandQueue[i]
               \/ i - Len(commandQueue) \in DOMAIN offlineQueue
                  /\ q[i] = offlineQueue[i - Len(commandQueue)]
    BY <2>1, <2>2
  <2> HIDE DEF q
  <2>3. ASSUME NEW i \in DOMAIN q, q[i].id # 0
        PROVE  promise[q[i].id] = "pending"
    <3>1. q[i].id \in Own(commandQueue) \union Own(offlineQueue)
      BY <2>2, <2>3 DEF Own
    <3> QED BY <3>1 DEF OwnInv, Placed, Accounted
  <2> QED BY <2>3 DEF QueuedIsPending, q
<1> QED BY <1>1, OwnCorrect, PTL

\* A step that writes nothing keeps nothing new.
LEMMA NothingWritten ==
  ASSUME TypeOK, offlineQueue' = offlineQueue \/ offlineQueue' = <<>>,
         \A s \in Streams : Len(toServer'[s]) <= Len(toServer[s])
  PROVE  WritesOrKeepsNew
<1>1. ASSUME NEW s \in Streams, NEW i \in (Len(toServer[s]) + 1)..Len(toServer'[s])
      PROVE  FALSE
  <2>1. toServer[s] \in Seq(Command)
    BY DEF TypeOK, WireTypeOK, CommandSeq
  <2> QED BY <1>1, <2>1
<1>2. ASSUME NEW j \in DOMAIN offlineQueue' PROVE offlineQueue'[j] \in ToSet(offlineQueue)
  BY <1>2 DEF ToSet
<1> QED BY <1>1, <1>2 DEF WritesOrKeepsNew, NotYetWritten

\* _send writes or keeps the command it is given, and leaves the others.
LEMMA SendWrites ==
  ASSUME TypeOK, NEW c \in Command, NEW force, NEW oq \in CommandSeq, NEW m,
         Send(c, force, oq, m), NotYetWritten(c), c.id \notin Own(oq),
         ToSet(oq) \subseteq ToSet(offlineQueue)
  PROVE  WritesOrKeepsNew
<1>1. oq \in Seq(Command) /\ stream \in Streams /\ toServer \in [Streams -> Seq(Command)]
  BY DEF TypeOK, WireTypeOK, CommandSeq
<1>2. \A j \in DOMAIN oq : oq[j] \in ToSet(offlineQueue)
  BY DEF ToSet
<1>3. CASE offlineQueue' = oq /\ toServer' = [toServer EXCEPT ![stream] = Append(@, c)]
  <2>1. ASSUME NEW s \in Streams, NEW i \in (Len(toServer[s]) + 1)..Len(toServer'[s])
        PROVE  toServer'[s][i] = c
    <3>1. toServer[s] \in Seq(Command)
      BY <1>1
    <3>2. CASE s # stream
      BY <1>1, <1>3, <2>1, <3>1, <3>2
    <3>3. CASE s = stream
      <4>1. toServer'[s] = Append(toServer[s], c)
        BY <1>1, <1>3, <3>3
      <4> QED BY <2>1, <3>1, <4>1
    <3> QED BY <3>2, <3>3
  <2>2. \A j \in DOMAIN oq : oq[j].id = c.id => c.id = 0
    BY DEF Own
  <2> QED BY <1>2, <1>3, <2>1, <2>2 DEF WritesOrKeepsNew, NotYetWritten
<1>4. CASE offlineQueue' \in {oq, Append(oq, c)} /\ toServer' = toServer
  <2>1. ASSUME NEW s \in Streams, NEW i \in (Len(toServer[s]) + 1)..Len(toServer'[s])
        PROVE  FALSE
    <3>1. toServer[s] \in Seq(Command)
      BY <1>1
    <3> QED BY <1>4, <2>1, <3>1
  <2>2. ASSUME NEW j \in DOMAIN offlineQueue'
        PROVE  offlineQueue'[j] = c \/ (j \in DOMAIN oq /\ offlineQueue'[j] = oq[j])
    BY <1>1, <1>4, <2>2
  <2> QED BY <1>2, <2>1, <2>2 DEF WritesOrKeepsNew, NotYetWritten
<1> QED BY <1>3, <1>4 DEF Send, Disposition

\* The client's own commands are written or kept as often as need be.
LEMMA SendOwnWrites ==
  ASSUME OwnInv, NEW c \in Command, NEW force, NEW m, c.id = 0, SendOwn(c, force, m)
  PROVE  WritesOrKeepsNew
<1>1. TypeOK /\ offlineQueue \in CommandSeq
  BY DEF OwnInv, TypeOK
<1>2. NotYetWritten(c) /\ c.id \notin Own(offlineQueue)
  BY DEF NotYetWritten, Own
<1> QED BY <1>1, <1>2, SendWrites DEF SendOwn

\* The client's own commands, as onConnect's, onReady's and their timers'.
LEMMA OwnCommands ==
  ASSUME OwnInv
  PROVE  /\ DoAuth \/ ReadyCheck => \E c \in Command : \E force, m : c.id = 0 /\ SendOwn(c, force, m)
         /\ OnReady => \/ \E c \in Command : \E force, m : c.id = 0 /\ SendOwn(c, force, m)
                       \/ UNCHANGED <<offlineQueue, toServer>>
         /\ Resubscribe => \/ \E c \in Command : \E force, m : c.id = 0 /\ SendOwn(c, force, m)
                           \/ UNCHANGED <<offlineQueue, toServer>>
<1>1. ASSUME DoAuth \/ ReadyCheck
      PROVE  \E c \in Command : \E force, m : c.id = 0 /\ SendOwn(c, force, m)
  <2>1. \A kind \in {"auth", "info"} : Internal(kind) \in Command /\ Internal(kind).id = 0
    BY InternalType DEF Internal, Cmd, Kinds
  <2>2. \E kind \in {"auth", "info"} : SendOwn(Internal(kind), TRUE, modes)
    BY <1>1 DEF DoAuth, ReadyCheck
  <2> QED BY <2>1, <2>2
<1>2. ASSUME OnReady, Restored.selectedDb # Null
      PROVE  \E c \in Command : \E force, m : c.id = 0 /\ SendOwn(c, force, m)
  <2> DEFINE c   == Cmd(0, "select", <<>>, Restored.selectedDb, Restored.pubSubMode)
             off == [Restored EXCEPT !.pubSubMode = FALSE]
  <2>1. SendOwn(c, TRUE, off)
    BY <1>2 DEF OnReady, RestoreDb
  <2>2. c \in Command /\ c.id = 0
    <3>1. Restored \in Modes
      BY DEF Restored, OwnInv, TypeOK
    <3>2. Restored.selectedDb \in Dbs /\ Restored.pubSubMode \in BOOLEAN
      BY <1>2, <3>1 DEF Modes
    <3>3. <<>> \in Seq(Channels) /\ "select" \in Kinds
      BY DEF Kinds
    <3> QED BY <3>2, <3>3 DEF Cmd, Command
  <2> QED BY <2>1, <2>2
<1>3. ASSUME OnReady, Restored.selectedDb = Null
      PROVE  UNCHANGED <<offlineQueue, toServer>>
  BY <1>3 DEF OnReady, RestoreModes, wire, commands
<1>4. ASSUME Resubscribe, NEW key \in resubKeys,
             SendOwn(Cmd(0, "subscribe", <<key>>, DefaultDb, FALSE), FALSE, modes)
      PROVE  \E c \in Command : \E force, m : c.id = 0 /\ SendOwn(c, force, m)
  <2> DEFINE c == Cmd(0, "subscribe", <<key>>, DefaultDb, FALSE)
  <2>1. c \in Command /\ c.id = 0
    BY WireAssumption DEF Cmd, Command, Kinds, SubKinds, OwnInv, TypeOK
  <2> HIDE DEF c
  <2> QED BY <1>4, <2>1 DEF c
<1>5. Resubscribe => (\E key \in resubKeys :
                        SendOwn(Cmd(0, "subscribe", <<key>>, DefaultDb, FALSE), FALSE, modes))
                     \/ UNCHANGED <<offlineQueue, toServer>>
  BY DEF Resubscribe, wire, commands
<1> QED BY <1>1, <1>2, <1>3, <1>4, <1>5

\* A new command was in no queue; a replayed one leaves the queue it was in.
LEMMA UserWrites ==
  ASSUME OwnInv, Issue \/ (SendOfflineQueue /\ offlineQueue # <<>>)
  PROVE  WritesOrKeepsNew
<1>1. /\ TypeOK /\ offlineQueue \in CommandSeq /\ Len(promise) \in Nat
      /\ OnePlace(commandQueue, offlineQueue, toServer)
      /\ Accounted(commandQueue, offlineQueue, toServer, promise)
  BY DEF OwnInv, Placed, TypeOK, PromiseSeq
<1>2. CASE Issue
  <2>1. PICK u \in UserCommands, force \in BOOLEAN :
          Send(Cmd(Len(promise) + 1, u.kind, u.args, u.db, FALSE), force, offlineQueue, modes)
    BY <1>2, ClientAssumption DEF Issue
  <2> DEFINE c == Cmd(Len(promise) + 1, u.kind, u.args, u.db, FALSE)
  <2>2. c \in Command /\ c.id = Len(promise) + 1
    <3>1. u \in [kind : Kinds, args : Seq(Channels), db : Dbs]
      BY ClientAssumption
    <3> QED BY <1>1, <3>1 DEF Cmd, Command
  <2>3. Send(c, force, offlineQueue, modes)
    BY <2>1
  <2> HIDE DEF c
  <2>4. c.id > Len(promise) /\ c.id \notin Own(offlineQueue)
    BY <1>1, <2>2 DEF Accounted
  <2> QED BY <1>1, <2>2, <2>3, <2>4, SendWrites DEF NotYetWritten
<1>3. CASE SendOfflineQueue /\ offlineQueue # <<>>
  <2> DEFINE c == Head(offlineQueue)
             rest == Tail(offlineQueue)
  <2>1. c \in Command /\ rest \in CommandSeq /\ Send(c, FALSE, rest, modes)
    BY <1>1, <1>3, CommandQueues DEF SendOfflineQueue
  <2>2. Own(rest) = Own(offlineQueue) \ {c.id}
    BY <1>1, <1>3, TailOwn DEF OnePlace
  <2>3. c \in ToSet(offlineQueue) /\ ToSet(rest) \subseteq ToSet(offlineQueue)
    <3>1. offlineQueue \in Seq(Command)
      BY <1>1 DEF CommandSeq
    <3>2. /\ 1 \in DOMAIN offlineQueue /\ c = offlineQueue[1]
          /\ \A i \in DOMAIN rest : i + 1 \in DOMAIN offlineQueue /\ rest[i] = offlineQueue[i + 1]
      BY <1>3, <3>1
    <3> HIDE DEF c, rest
    <3> QED BY <3>2 DEF ToSet
  <2> HIDE DEF c, rest
  <2> QED BY <1>1, <2>1, <2>2, <2>3, SendWrites DEF NotYetWritten
<1> QED BY <1>2, <1>3

\* No step writes, or keeps, a command that was written before.
LEMMA WriteStep ==
  ASSUME OwnInv, [Next]_vars
  PROVE  WritesOrKeepsNew
<1>0. TypeOK /\ toServer \in [Streams -> Seq(Command)]
  BY DEF OwnInv, TypeOK, WireTypeOK, CommandSeq
<1>1. CASE UNCHANGED <<offlineQueue, toServer>>
  <2>1. \A s \in Streams : Len(toServer[s]) \in Nat
    BY <1>0
  <2> QED BY <1>0, <1>1, <2>1, NothingWritten
<1>2. ASSUME NEW s \in Streams, Server(s) \/ IOEvent(s) \/ End
      PROVE  WritesOrKeepsNew
  <2>1. \/ UNCHANGED toServer
        \/ \E t \in Streams : toServer[t] # <<>> /\ toServer' = [toServer EXCEPT ![t] = Tail(@)]
        \/ \E t \in Streams : toServer' = [toServer EXCEPT ![t] = <<>>]
    BY <1>0, <1>2
    DEF Server, ServerExecutes, ServerPushes, ServerCloses, IOEvent, OnConnect, OnData, OnEnd,
        OnClose, OnError, End, Drop, SetSock, TypeOK
  <2>2. ASSUME NEW t \in Streams PROVE Len(toServer'[t]) <= Len(toServer[t])
    <3>1. toServer[t] \in Seq(Command)
      BY <1>0
    <3>2. \/ toServer'[t] = toServer[t] \/ toServer'[t] = <<>>
          \/ toServer[t] # <<>> /\ toServer'[t] = Tail(toServer[t])
      BY <1>0, <2>1
    <3>3. PICK q \in Seq(Command) : \E q2 : q = toServer[t] /\ q2 = toServer'[t]
      BY <3>1
    <3>6. PICK q2 : q = toServer[t] /\ q2 = toServer'[t]
      BY <3>3
    <3>4. q2 = q \/ q2 = <<>> \/ (q # <<>> /\ q2 = Tail(q))
      BY <3>2, <3>6
    <3>5. Len(q2) <= Len(q)
      BY <3>4
    <3> QED BY <3>6, <3>5
  <2>3. offlineQueue' = offlineQueue \/ offlineQueue' = <<>>
    BY <1>2
    DEF Server, IOEvent, OnConnect, OnData, OnEnd, OnClose, OnError, End, ConnectionGone, GoDown,
        FlushAndError, commands
  <2> QED BY <1>0, <2>2, <2>3, NothingWritten
<1>3. CASE Timer \/ RestoreMonitor \/ RunReaction
  BY <1>1, <1>3
  DEF Timer, CheckTimer, AuthTimer, RetryConnection, SetSock, RestoreMonitor, RunReaction, wire,
      commands
<1>4. CASE DoAuth \/ ReadyCheck \/ OnReady \/ Resubscribe
  BY <1>1, <1>4, OwnCommands, SendOwnWrites
<1>5. CASE Issue \/ (SendOfflineQueue /\ offlineQueue # <<>>)
  BY <1>5, UserWrites
<1>6. CASE SendOfflineQueue /\ offlineQueue = <<>>
  BY <1>1, <1>6 DEF SendOfflineQueue, wire, commands
<1>7. CASE UNCHANGED vars
  BY <1>1, <1>7 DEF vars, wire, commands
<1>8. CASE End
  <2>1. stream \in Streams
    BY <1>0 DEF TypeOK
  <2> QED BY <1>2, <1>8, <2>1
<1> QED BY <1>2, <1>3, <1>4, <1>5, <1>6, <1>7, <1>8 DEF Next, Continue

\* No command is written twice, over however many connections: what was written
\* is neither sent again nor kept to be sent again.
THEOREM WrittenAtMostOnce == Spec => WrittenOnce
<1>1. OwnInv /\ [Next]_vars => [WritesOrKeepsNew]_vars
  BY WriteStep
<1> QED BY <1>1, OwnCorrect, PTL DEF Spec, WrittenOnce

------------------------------------------------------------------------------
(* RedisClient implements CommandPipe for every value of its constants:    *)
(* each callback is one step of the pipe, or none of its business.         *)

PipeVars == <<commandQueue, offlineQueue, promise, connected>>

\* Settling is the same thing in both modules.
LEMMA SettledIsSettle == \A c, how : Pipe!Settled(c, how) = Settle(c, how)
  BY DEF Pipe!Settled, Settle

\* _send writes the command, keeps it or refuses it.
LEMMA SendIsPipe ==
  ASSUME NEW c, NEW force, NEW oq, NEW m, Send(c, force, oq, m)
  PROVE  \/ Disposition(c, force, m) = "rejected" /\ Pipe!Refuse(c, oq)
         \/ Disposition(c, force, m) # "rejected" /\ (Pipe!Write(c, oq) \/ Pipe!Keep(c, oq))
<1>1. Disposition(c, force, m) \in {"queued", "rejected", "written"}
  BY DEF Disposition
<1> QED BY <1>1 DEF Send, Pipe!Refuse, Pipe!Write, Pipe!Keep

\* A command of the client's own goes into the pipe, or nothing happens to it.
LEMMA SendOwnIsPipe ==
  ASSUME NEW c \in Sendable, c.id = 0, NEW force, NEW m, SendOwn(c, force, m),
         UNCHANGED connected
  PROVE  [Pipe!Next]_PipeVars
<1>1. Send(c, force, offlineQueue, m) /\ promise' = promise
  BY DEF SendOwn
<1>2. CASE Pipe!Refuse(c, offlineQueue)
  BY <1>1, <1>2 DEF Pipe!Refuse, PipeVars
<1>3. CASE Pipe!Write(c, offlineQueue) \/ Pipe!Keep(c, offlineQueue)
  <2>1. Pipe!IssueOwn(c)
    BY <1>1, <1>3 DEF Pipe!IssueOwn
  <2> QED BY <2>1 DEF Pipe!Next
<1> QED BY <1>1, <1>2, <1>3, SendIsPipe

\* What the client sends on its own behalf is sendable.
LEMMA OwnSendable ==
  /\ \A kind \in {"auth", "info"} : Internal(kind) \in Sendable /\ Internal(kind).id = 0
  /\ \A db \in Dbs, mode \in BOOLEAN :
       Cmd(0, "select", <<>>, db, mode) \in Sendable
  /\ \A key \in Channels :
       Cmd(0, "subscribe", <<key>>, DefaultDb, FALSE) \in Sendable
  /\ \A kind, args, db, mode : Cmd(0, kind, args, db, mode).id = 0
  BY WireAssumption, ClientAssumption DEF Sendable, Internal, Cmd, Kinds, SubKinds

\* A command of the user's takes the next number.
LEMMA IssueIsPipe ==
  ASSUME TypeOK, Issue
  PROVE  Pipe!Next
<1>1. PICK u \in UserCommands, force \in BOOLEAN :
        LET c == Cmd(Len(promise) + 1, u.kind, u.args, u.db, FALSE) IN
          /\ Send(c, force, offlineQueue, modes)
          /\ promise' = Append(promise, IF Disposition(c, force, modes) = "rejected"
                                        THEN "rejected" ELSE "pending")
  BY ClientAssumption DEF Issue
<1> DEFINE c == Cmd(Len(promise) + 1, u.kind, u.args, u.db, FALSE)
<1>2. c.id = Len(promise) + 1 /\ c \in Sendable
  <2>1. Len(promise) + 1 \in 1..MaxCmds
    BY ClientAssumption DEF Issue, TypeOK, PromiseSeq
  <2>2. u \in [kind : Kinds, args : Seq(Channels), db : Dbs]
    BY <1>1, ClientAssumption
  <2> QED BY <1>1, <2>1, <2>2 DEF Sendable, Cmd
<1>3. /\ Send(c, force, offlineQueue, modes)
      /\ promise' = Append(promise, IF Disposition(c, force, modes) = "rejected"
                                    THEN "rejected" ELSE "pending")
  BY <1>1
<1> HIDE DEF c
<1>4. Pipe!Issue(c)
  BY <1>2, <1>3, SendIsPipe DEF Pipe!Issue, Issue
<1> QED BY <1>2, <1>4 DEF Pipe!Next

\* A turn of the replay takes the oldest command that waits.
LEMMA ReplayIsPipe ==
  ASSUME SendOfflineQueue
  PROVE  [Pipe!Next]_PipeVars
<1>1. CASE offlineQueue = <<>>
  BY <1>1 DEF SendOfflineQueue, PipeVars, commands
<1>2. CASE offlineQueue # <<>>
  <2> DEFINE c == Head(offlineQueue)
             rest == Tail(offlineQueue)
  <2>1. /\ Send(c, FALSE, rest, modes)
        /\ promise' = IF Disposition(c, FALSE, modes) = "rejected"
                      THEN Settle(c, "rejected") ELSE promise
    BY <1>2 DEF SendOfflineQueue
  <2>2. \/ (Pipe!Write(c, rest) \/ Pipe!Keep(c, rest)) /\ UNCHANGED promise
        \/ Pipe!Refuse(c, rest) /\ promise' = Pipe!Settled(c, "rejected")
    <3> HIDE DEF c, rest
    <3> QED BY <2>1, SendIsPipe, SettledIsSettle
  <2>3. Pipe!Replay
    BY <1>2, <2>2 DEF Pipe!Replay, SendOfflineQueue
  <2> QED BY <2>3 DEF Pipe!Next
<1> QED BY <1>1, <1>2

\* A reply answers the oldest command written, or is none.
LEMMA DataIsPipe ==
  ASSUME NEW s \in Streams, OnData(s)
  PROVE  [Pipe!Next]_PipeVars
<1> DEFINE r == Head(toClient[s])
           c == Head(commandQueue)
<1>1. /\ UNCHANGED <<offlineQueue, connected>>
      /\ ReturnError(r) \/ ReturnReply(r)
  BY DEF OnData, connection
<1> HIDE DEF r
<1>2. CASE UNCHANGED <<commandQueue, promise>>
  BY <1>1, <1>2 DEF PipeVars
<1>3. CASE ~UNCHANGED <<commandQueue, promise>>
  <2>1. /\ commandQueue # <<>> /\ commandQueue' = Tail(commandQueue)
        /\ promise' \in {Settle(c, "rejected"), Settle(c, Verdict(c, r))}
    BY <1>1, <1>3 DEF ReturnError, ReturnReply
  <2>2. Verdict(c, r) \in {"pending", "resolved", "rejected"}
    BY DEF Verdict
  <2>3. \E how \in {"pending", "resolved", "rejected"} : promise' = Pipe!Settled(c, how)
    BY <2>1, <2>2, SettledIsSettle
  <2>4. Pipe!Answer
    BY <1>1, <2>1, <2>3 DEF Pipe!Answer
  <2> QED BY <2>4 DEF Pipe!Next
<1> QED BY <1>2, <1>3

\* A connection made forgets what was written, one lost flushes both queues.
LEMMA SocketIsPipe ==
  ASSUME NEW s \in Streams, OnConnect(s) \/ OnEnd(s) \/ OnClose(s) \/ OnError(s)
  PROVE  [Pipe!Next]_PipeVars
<1>1. CASE OnConnect(s)
  <2>1. Pipe!Connect
    BY <1>1 DEF OnConnect, Pipe!Connect
  <2> QED BY <2>1 DEF Pipe!Next
<1>2. CASE GoDown
  <2>1. Pipe!Lose
    <3> DEFINE all == offlineQueue \o commandQueue
    <3>1. /\ offlineQueue' = <<>> /\ commandQueue' = <<>>
          /\ promise' = IF all = <<>> THEN promise ELSE Settle(Last(all), "rejected")
      BY <1>2 DEF GoDown, FlushAndError
    <3>2. Settle(Last(all), "rejected") = Pipe!Settled(Pipe!Last(all), "rejected")
      BY SettledIsSettle DEF Last, Pipe!Last
    <3>3. connected' = FALSE
      BY <1>2 DEF GoDown
    <3> QED BY <3>1, <3>2, <3>3 DEF Pipe!Lose
  <2> QED BY <2>1 DEF Pipe!Next
<1>3. CASE ~OnConnect(s) /\ ~GoDown
  BY <1>3 DEF OnEnd, OnClose, OnError, ConnectionGone, connection, commands, PipeVars
<1> QED BY <1>1, <1>2, <1>3

\* Every step of the client is a step of the pipe or leaves it alone.
LEMMA PipeStep ==
  ASSUME TypeOK, [Next]_vars
  PROVE  [Pipe!Next]_PipeVars
<1>1. CASE UNCHANGED <<commands, connected>>
  BY <1>1 DEF commands, PipeVars
<1>2. ASSUME NEW s \in Streams, Server(s) \/ IOEvent(s)
      PROVE  [Pipe!Next]_PipeVars
  <2>1. CASE Server(s)
    BY <1>1, <2>1 DEF Server, connection
  <2> QED BY <1>2, <2>1, DataIsPipe, SocketIsPipe DEF IOEvent
<1>3. CASE Timer \/ RestoreMonitor \/ RunReaction
  BY <1>1, <1>3
  DEF Timer, CheckTimer, AuthTimer, RetryConnection, RestoreMonitor, RunReaction, connection
<1>10. CASE End
  <2>1. Pipe!Close
    BY <1>10 DEF End, commands, Pipe!Close
  <2> QED BY <2>1 DEF Pipe!Next
<1>4. CASE DoAuth \/ ReadyCheck
  <2>1. \E kind \in {"auth", "info"} : SendOwn(Internal(kind), TRUE, modes)
    BY <1>4 DEF DoAuth, ReadyCheck
  <2>2. UNCHANGED connected
    BY <1>4 DEF DoAuth, ReadyCheck
  <2> QED BY <2>1, <2>2, OwnSendable, SendOwnIsPipe
<1>5. CASE OnReady
  <2>0. UNCHANGED connected
    BY <1>5 DEF OnReady
  <2>1. CASE Restored.selectedDb # Null
    <3> DEFINE c   == Cmd(0, "select", <<>>, Restored.selectedDb, Restored.pubSubMode)
               off == [Restored EXCEPT !.pubSubMode = FALSE]
    <3>1. SendOwn(c, TRUE, off)
      BY <1>5, <2>1 DEF OnReady, RestoreDb
    <3>2. c \in Sendable /\ c.id = 0
      <4>1. Restored \in Modes
        BY DEF Restored, TypeOK
      <4>2. Restored.selectedDb \in Dbs /\ Restored.pubSubMode \in BOOLEAN
        BY <2>1, <4>1 DEF Modes
      <4> QED BY <4>2, OwnSendable
    <3> HIDE DEF c, off
    <3> QED BY <2>0, <3>1, <3>2, SendOwnIsPipe
  <2>2. CASE Restored.selectedDb = Null
    BY <1>1, <1>5, <2>0, <2>2 DEF OnReady, RestoreModes
  <2> QED BY <2>1, <2>2
<1>6. CASE Resubscribe
  <2>0. UNCHANGED connected
    BY <1>6 DEF Resubscribe
  <2>1. ASSUME NEW key \in resubKeys,
               SendOwn(Cmd(0, "subscribe", <<key>>, DefaultDb, FALSE), FALSE, modes)
        PROVE  [Pipe!Next]_PipeVars
    <3> DEFINE c == Cmd(0, "subscribe", <<key>>, DefaultDb, FALSE)
    <3>1. c \in Sendable /\ c.id = 0
      BY OwnSendable DEF TypeOK
    <3> HIDE DEF c
    <3> QED BY <2>0, <2>1, <3>1, SendOwnIsPipe DEF c
  <2> QED BY <1>1, <1>6, <2>0, <2>1 DEF Resubscribe
<1>7. CASE SendOfflineQueue
  BY <1>7, ReplayIsPipe
<1>8. CASE Issue
  BY <1>8, IssueIsPipe
<1>9. CASE UNCHANGED vars
  BY <1>1, <1>9 DEF vars, connection
<1> QED BY <1>2, <1>3, <1>4, <1>5, <1>6, <1>7, <1>8, <1>9, <1>10 DEF Next, Continue

\* Whatever the server, the network and the user do, the client's queues are a
\* pipe: replies are matched with the oldest command written, replay takes the
\* oldest command kept, and commands are dropped only when a connection is lost
\* or made.
THEOREM ClientIsPipe == Spec => RefinesPipe
<1>1. Init => Pipe!Init
  BY DEF Init, Pipe!Init
<1>2. TypeOK /\ [Next]_vars => [Pipe!Next]_(Pipe!vars)
  BY PipeStep DEF PipeVars, Pipe!vars
<1> QED BY <1>1, <1>2, TypeCorrect, PTL DEF Spec, RefinesPipe, Pipe!Spec
==============================================================================
