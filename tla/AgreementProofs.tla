--------------------------- MODULE AgreementProofs ---------------------------
(***************************************************************************)
(* Client and server agree.  What the client believes of its connection,   *)
(* subscriptions, pub/sub mode, selected database and the replies it is    *)
(* owed, is compared with what the server keeps for it, through what is on *)
(* the way in the two pipes between them.                                  *)
(***************************************************************************)
EXTENDS StreamProofs

(***************************************************************************)
(* Subscriptions the client has forgotten.  No assumption is needed.       *)
(***************************************************************************)

Adds(c, ch) == c.kind = "subscribe" /\ ch \in ToSet(c.args)

Removes(c, ch) == c.kind = "unsubscribe" /\ ch \in ToSet(c.args)

\* A server that subscribes to subs is not subscribed to ch once it has taken q.
EndsWithout(q, subs, ch) ==
  \/ \E i \in DOMAIN q : /\ Removes(q[i], ch)
                         /\ \A j \in DOMAIN q : j > i => ~Adds(q[j], ch)
  \/ ch \notin subs /\ \A j \in DOMAIN q : ~Adds(q[j], ch)

\* Nothing has happened on a stream that is still to be made.
Unused(s) ==
  /\ sock[s] = "none" /\ toServer[s] = <<>> /\ toClient[s] = <<>>
  /\ srv[s] = NewConnection

FutureUnused == \A s \in Streams : s > stream => Unused(s)

\* Without the password nobody subscribes.
GuestsWithout == \A s \in Streams : RequirePass /\ ~srv[s].authed => srv[s].subs = {}

\* The connection of a writable stream ends without what the client has not in
\* subscriptionSet.
Forgotten ==
  Writable(stream) => \A ch \in Channels \ subscriptionSet :
    EndsWithout(toServer[stream], srv[stream].subs, ch)

ForeignInv == TypeOK /\ FutureUnused /\ GuestsWithout /\ Forgotten

\* What a step that may send a command does to the wire.
LEMMA SendingStep ==
  ASSUME TypeOK, DoAuth \/ ReadyCheck \/ OnReady \/ Issue \/ Resubscribe \/ SendOfflineQueue
  PROVE  \/ \E c \in Command : \E force, oq, m : Send(c, force, oq, m)
         \/ UNCHANGED <<wire, subscriptionSet>>
<1>1. CASE DoAuth \/ ReadyCheck
  <2>1. Internal("auth") \in Command /\ Internal("info") \in Command
    BY InternalType DEF Kinds
  <2> QED BY <1>1, <2>1 DEF DoAuth, ReadyCheck, SendOwn
<1>2. CASE OnReady
  <2>1. Restored \in Modes
    BY DEF Restored, TypeOK
  <2>2. CASE Restored.selectedDb # Null
    <3>1. Cmd(0, "select", <<>>, Restored.selectedDb, Restored.pubSubMode) \in Command
      BY <2>1, <2>2 DEF Cmd, Command, Modes, Kinds
    <3> QED BY <1>2, <2>2, <3>1 DEF OnReady, RestoreDb, SendOwn
  <2> QED BY <1>2, <2>2 DEF OnReady, RestoreModes
<1>3. CASE Issue
  <2>1. PICK u \in UserCommands, force \in IF ForcedCalls THEN BOOLEAN ELSE {FALSE} :
          Send(Cmd(Len(promise) + 1, u.kind, u.args, u.db, FALSE), force, offlineQueue, modes)
    BY <1>3 DEF Issue
  <2>2. Cmd(Len(promise) + 1, u.kind, u.args, u.db, FALSE) \in Command
    BY ClientAssumption DEF Cmd, Command, TypeOK, PromiseSeq
  <2> QED BY <2>1, <2>2
<1>4. CASE Resubscribe
  <2>1. \A key \in resubKeys : Cmd(0, "subscribe", <<key>>, DefaultDb, FALSE) \in Command
    BY WireAssumption DEF TypeOK, Cmd, Command, Kinds, SubKinds
  <2> QED BY <1>4, <2>1 DEF Resubscribe, SendOwn
<1>5. CASE SendOfflineQueue
  <2>1. offlineQueue # <<>> => Head(offlineQueue) \in Command
    BY CommandQueues DEF TypeOK
  <2> QED BY <1>5, <2>1 DEF SendOfflineQueue
<1> QED BY <1>1, <1>2, <1>3, <1>4, <1>5

\* A command that is appended removes ch, or does not add it.
LEMMA AppendEnds ==
  ASSUME NEW q \in CommandSeq, NEW c \in Command, NEW subs, NEW ch,
         \/ Removes(c, ch)
         \/ EndsWithout(q, subs, ch) /\ ~Adds(c, ch)
  PROVE  EndsWithout(Append(q, c), subs, ch)
<1> DEFINE r == Append(q, c)
<1>1. /\ Len(q) \in Nat /\ DOMAIN q = 1..Len(q) /\ DOMAIN r = 1..(Len(q) + 1)
      /\ r[Len(q) + 1] = c /\ \A i \in DOMAIN q : r[i] = q[i]
  BY DEF CommandSeq
<1> HIDE DEF r
<1>2. CASE Removes(c, ch)
  BY <1>1, <1>2 DEF EndsWithout
<1>3. CASE EndsWithout(q, subs, ch) /\ ~Adds(c, ch)
  <2>1. \A j \in DOMAIN r : Adds(r[j], ch) => j \in DOMAIN q /\ Adds(q[j], ch)
    BY <1>1, <1>3
  <2>2. CASE ch \notin subs /\ \A j \in DOMAIN q : ~Adds(q[j], ch)
    BY <2>1, <2>2 DEF EndsWithout
  <2>3. ASSUME NEW i \in DOMAIN q, Removes(q[i], ch),
               \A j \in DOMAIN q : j > i => ~Adds(q[j], ch)
        PROVE  EndsWithout(r, subs, ch)
    <3>1. i \in DOMAIN r /\ Removes(r[i], ch)
      BY <1>1, <2>3
    <3>2. \A j \in DOMAIN r : j > i => ~Adds(r[j], ch)
      BY <2>1, <2>3
    <3> QED BY <3>1, <3>2 DEF EndsWithout
  <2> QED BY <1>3, <2>2, <2>3 DEF EndsWithout
<1> QED BY <1>2, <1>3 DEF r

\* The server takes the first command.
LEMMA ExecutedEnds ==
  ASSUME NEW q \in CommandSeq, q # <<>>, NEW v \in ServerState, NEW ch,
         RequirePass /\ ~v.authed => v.subs = {},
         EndsWithout(q, v.subs, ch)
  PROVE  EndsWithout(Tail(q), Executed(v, Head(q)).subs, ch)
<1> DEFINE c == Head(q) r == Tail(q) w == Executed(v, c)
<1>1. /\ Len(q) \in Nat \ {0} /\ DOMAIN q = 1..Len(q) /\ DOMAIN r = 1..(Len(q) - 1)
      /\ q[1] = c /\ \A i \in DOMAIN r : r[i] = q[i + 1] /\ i + 1 \in DOMAIN q
      /\ c \in Command
  BY CommandQueues DEF CommandSeq
<1>2. /\ ch \in w.subs => ch \in v.subs \/ Adds(c, ch)
      /\ Removes(c, ch) => ch \notin w.subs
  BY DEF Executed, Refuses, Adds, Removes, ServerState, SubKinds
<1> HIDE DEF c, r, w
<1>3. ASSUME ch \notin v.subs, \A j \in DOMAIN q : ~Adds(q[j], ch)
      PROVE  EndsWithout(r, w.subs, ch)
  BY <1>1, <1>2, <1>3 DEF EndsWithout
<1>4. ASSUME NEW i \in DOMAIN q, Removes(q[i], ch),
             \A j \in DOMAIN q : j > i => ~Adds(q[j], ch)
      PROVE  EndsWithout(r, w.subs, ch)
  <2>1. CASE i = 1
    <3>1. \A j \in DOMAIN r : ~Adds(r[j], ch)
      BY <1>1, <1>4, <2>1
    <3> QED BY <1>1, <1>2, <1>4, <2>1, <3>1 DEF EndsWithout
  <2>2. CASE i # 1
    <3>1. i - 1 \in DOMAIN r /\ r[i - 1] = q[i]
      BY <1>1, <2>2
    <3>2. \A j \in DOMAIN r : j > i - 1 => ~Adds(r[j], ch)
      BY <1>1, <1>4
    <3> QED BY <1>4, <3>1, <3>2 DEF EndsWithout
  <2> QED BY <2>1, <2>2
<1>5. EndsWithout(r, w.subs, ch)
  BY <1>3, <1>4 DEF EndsWithout
<1> QED BY <1>5 DEF c, r, w

\* Whoever is subscribed has given the password.
LEMMA ExecutedGuest ==
  ASSUME NEW v \in ServerState, NEW c \in Command,
         RequirePass /\ ~v.authed => v.subs = {}
  PROVE  RequirePass /\ ~Executed(v, c).authed => Executed(v, c).subs = {}
<1>1. CASE Refuses(v, c)
  <2>1. Executed(v, c) = v
    BY <1>1 DEF Executed
  <2> QED BY <2>1
<1>2. CASE c.kind \notin {"auth", "quit"} /\ ~Refuses(v, c)
  <2>1. Executed(v, c).authed = v.authed
    BY <1>2 DEF Executed, ServerState
  <2>2. RequirePass => v.authed
    BY <1>2 DEF Refuses
  <2> QED BY <2>1, <2>2
<1>3. CASE c.kind = "auth" /\ ~Refuses(v, c)
  <2>1. Executed(v, c) = [v EXCEPT !.authed = TRUE]
    BY <1>3 DEF Executed
  <2> QED BY <2>1 DEF ServerState
<1>4. CASE c.kind = "quit" /\ ~Refuses(v, c)
  <2>1. Executed(v, c) = v
    BY <1>4 DEF Executed
  <2> QED BY <2>1
<1> QED BY <1>1, <1>2, <1>3, <1>4

\* Changes that leave the present stream's pipe, server and subscriptions alone.
LEMMA ForeignKept ==
  ASSUME ForeignInv, UNCHANGED <<stream, srv, subscriptionSet>>,
         \/ ~Writable(stream)'
         \/ Writable(stream) /\ toServer'[stream] = toServer[stream],
         \A s \in Streams : s > stream => UNCHANGED <<sock[s], toServer[s], toClient[s]>>
  PROVE  FutureUnused' /\ GuestsWithout' /\ Forgotten'
  BY DEF ForeignInv, FutureUnused, Unused, GuestsWithout, Forgotten

\* A command is written on the present stream, or on none.
LEMMA SendForeign ==
  ForeignInv => \A c \in Command : \A force, oq, m :
    Send(c, force, oq, m) /\ UNCHANGED stream
      => FutureUnused' /\ GuestsWithout' /\ Forgotten'
<1> SUFFICES ASSUME ForeignInv, NEW c \in Command, NEW force, NEW oq, NEW m,
                    Send(c, force, oq, m), UNCHANGED stream
             PROVE  FutureUnused' /\ GuestsWithout' /\ Forgotten'
  OBVIOUS
<1>1. UNCHANGED <<sock, toClient, srv>>
  BY DEF Send
<1>2. stream \in Streams /\ toServer \in [Streams -> CommandSeq]
  BY DEF ForeignInv, TypeOK, WireTypeOK
<1>3. CASE Disposition(c, force, m) # "written"
  <2>1. UNCHANGED <<toServer, subscriptionSet>>
    BY <1>3 DEF Send
  <2> QED BY <1>1, <2>1, ForeignKept DEF Writable
<1>4. CASE Disposition(c, force, m) = "written"
  <2>1. /\ toServer' = [toServer EXCEPT ![stream] = Append(@, c)]
        /\ subscriptionSet' = SubscriptionsAfter(c)
    BY <1>4 DEF Send
  <2>2. \A s \in Streams : s > stream => toServer'[s] = toServer[s]
    BY <1>2, <2>1 DEF Streams
  <2>3. ASSUME NEW ch \in Channels \ subscriptionSet', Writable(stream)
        PROVE  EndsWithout(toServer'[stream], srv[stream].subs, ch)
    <3>1. toServer'[stream] = Append(toServer[stream], c) /\ toServer[stream] \in CommandSeq
      BY <1>2, <2>1
    <3>2. \/ Removes(c, ch)
          \/ ch \notin subscriptionSet /\ ~Adds(c, ch)
      BY <2>1, <2>3 DEF SubscriptionsAfter, Adds, Removes
    <3>3. ch \notin subscriptionSet => EndsWithout(toServer[stream], srv[stream].subs, ch)
      BY <2>3 DEF ForeignInv, Forgotten
    <3> QED BY <3>1, <3>2, <3>3, AppendEnds
  <2> QED
    BY <1>1, <2>2, <2>3
    DEF ForeignInv, FutureUnused, Unused, GuestsWithout, Forgotten, Writable
<1> QED BY <1>3, <1>4

\* The server moves: on the present stream, or on an older one.
LEMMA ServerForeign ==
  ASSUME ForeignInv, NEW s \in Streams, Server(s)
  PROVE  FutureUnused' /\ GuestsWithout' /\ Forgotten'
<1>1. UNCHANGED <<stream, subscriptionSet, sock>>
  BY DEF Server, ServerExecutes, ServerPushes, ServerCloses, connection, modal
<1>2. sock[s] = "open" /\ stream \in Streams
  BY DEF Server, ServerExecutes, ServerPushes, ServerCloses, ServerUp, ForeignInv, TypeOK
<1>3. ~(s > stream)
  BY <1>2 DEF ForeignInv, FutureUnused, Unused
<1>4. \A t \in Streams : t # s => UNCHANGED <<toServer[t], toClient[t], srv[t]>>
  BY DEF Server, ServerExecutes, ServerPushes, ServerCloses, ServerSends, ForeignInv,
    TypeOK, WireTypeOK
<1>5. FutureUnused'
  BY <1>1, <1>3, <1>4 DEF ForeignInv, FutureUnused, Unused
<1>6. \/ UNCHANGED <<toServer, srv>>
      \/ /\ toServer[s] # <<>> /\ toServer'[s] = Tail(toServer[s])
         /\ UNCHANGED srv[s] /\ Head(toServer[s]).kind \in {"info", "auth"}
      \/ /\ toServer[s] # <<>> /\ toServer'[s] = Tail(toServer[s])
         /\ srv'[s] = Executed(srv[s], Head(toServer[s]))
  BY DEF Server, ServerExecutes, ServerPushes, ServerCloses, ForeignInv, TypeOK, WireTypeOK
<1>7. toServer[s] \in CommandSeq /\ srv[s] \in ServerState
  BY DEF ForeignInv, TypeOK, WireTypeOK
<1>8. /\ RequirePass /\ ~srv[s].authed => srv[s].subs = {}
      /\ toServer[s] # <<>> => Head(toServer[s]) \in Command
  BY <1>7, CommandQueues DEF ForeignInv, GuestsWithout
<1>9. GuestsWithout'
  <2>1. RequirePass /\ ~srv'[s].authed => srv'[s].subs = {}
    BY <1>6, <1>7, <1>8, ExecutedGuest
  <2> QED BY <1>4, <2>1 DEF ForeignInv, GuestsWithout
<1>10. Forgotten'
  <2> SUFFICES ASSUME Writable(stream), NEW ch \in Channels \ subscriptionSet
               PROVE  EndsWithout(toServer'[stream], srv'[stream].subs, ch)
    BY <1>1 DEF Forgotten, Writable
  <2>1. EndsWithout(toServer[stream], srv[stream].subs, ch)
    BY DEF ForeignInv, Forgotten
  <2>2. CASE s # stream \/ UNCHANGED <<toServer, srv>>
    BY <1>2, <1>4, <2>1, <2>2
  <2>3. CASE s = stream /\ toServer[s] # <<>> /\ toServer'[s] = Tail(toServer[s])
               /\ srv'[s] = Executed(srv[s], Head(toServer[s]))
    BY <1>7, <1>8, <2>1, <2>3, ExecutedEnds
  <2>4. CASE s = stream /\ toServer[s] # <<>> /\ toServer'[s] = Tail(toServer[s])
               /\ UNCHANGED srv[s] /\ Head(toServer[s]).kind \in {"info", "auth"}
    <3>1. EndsWithout(Tail(toServer[s]), Executed(srv[s], Head(toServer[s])).subs, ch)
      BY <1>7, <1>8, <2>1, <2>4, ExecutedEnds
    <3>2. Executed(srv[s], Head(toServer[s])).subs = srv[s].subs
      BY <1>7, <2>4 DEF Executed, ServerState
    <3> QED BY <2>4, <3>1, <3>2
  <2> QED BY <1>6, <2>2, <2>3, <2>4
<1> QED BY <1>5, <1>9, <1>10

\* A socket changes: the present one is lost, or an older one.
LEMMA SocketForeign ==
  ASSUME ForeignInv, NEW s \in Streams, NEW state,
         ~(s > stream), state \in Alive => sock[s] \in Alive,
         UNCHANGED <<stream, subscriptionSet>>,
         \/ Drop(s, state) /\ state \notin Alive
         \/ SetSock(s, state)
  PROVE  FutureUnused' /\ GuestsWithout' /\ Forgotten'
<1>1. stream \in Streams /\ sock \in [Streams -> SockStates]
      /\ toServer \in [Streams -> CommandSeq] /\ toClient \in [Streams -> ReplySeq]
  BY DEF ForeignInv, TypeOK, WireTypeOK
<1>2. /\ \A t \in Streams : t # s => UNCHANGED <<sock[t], toServer[t], toClient[t]>>
      /\ sock'[s] = state /\ UNCHANGED srv
      /\ toServer' = toServer \/ state \notin Alive
  BY <1>1 DEF Drop, SetSock
<1>3. \/ ~Writable(stream)'
      \/ Writable(stream) /\ toServer'[stream] = toServer[stream]
  BY <1>1, <1>2 DEF Writable, Alive
<1> QED BY <1>2, <1>3, ForeignKept

\* The next stream starts from nothing.
LEMMA RetryForeign ==
  ASSUME ForeignInv, RetryConnection
  PROVE  FutureUnused' /\ GuestsWithout' /\ Forgotten'
<1>1. /\ stream \in Nat /\ stream + 1 \in Streams /\ stream' = stream + 1
      /\ sock \in [Streams -> SockStates]
  BY WireAssumption DEF RetryConnection, ForeignInv, TypeOK, WireTypeOK, Streams
<1>2. /\ sock' = [sock EXCEPT ![stream + 1] = "connecting"]
      /\ UNCHANGED <<toServer, toClient, srv, subscriptionSet>>
  BY DEF RetryConnection, SetSock, modal
<1>3. FutureUnused'
  BY <1>1, <1>2 DEF ForeignInv, FutureUnused, Unused, Streams
<1>4. toServer[stream'] = <<>> /\ srv[stream'].subs = {}
  BY <1>1 DEF ForeignInv, FutureUnused, Unused, NewConnection
<1>5. Forgotten'
  BY <1>2, <1>4 DEF Forgotten, EndsWithout
<1> QED BY <1>2, <1>3, <1>5 DEF ForeignInv, GuestsWithout

\* Every step.
LEMMA ForeignStep ==
  ASSUME ForeignInv, [Next]_vars
  PROVE  FutureUnused' /\ GuestsWithout' /\ Forgotten'
<1>1. CASE UNCHANGED <<wire, stream, subscriptionSet>>
  BY <1>1, ForeignKept DEF wire, Writable
<1>2. ASSUME NEW s \in Streams, Server(s)
      PROVE  FutureUnused' /\ GuestsWithout' /\ Forgotten'
  BY <1>2, ServerForeign
<1>3. ASSUME NEW s \in Streams, IOEvent(s)
      PROVE  FutureUnused' /\ GuestsWithout' /\ Forgotten'
  <2>1. CASE OnData(s)
    <3>1. sock[s] # "none" /\ UNCHANGED <<stream, subscriptionSet, sock, toServer, srv>>
      BY <2>1 DEF OnData, connection
    <3>2. toClient' = [toClient EXCEPT ![s] = Tail(@)] /\ toClient \in [Streams -> ReplySeq]
      BY <2>1 DEF OnData, ForeignInv, TypeOK, WireTypeOK
    <3> QED
      BY <3>1, <3>2 DEF ForeignInv, FutureUnused, Unused, GuestsWithout, Forgotten, Writable
  <2>2. CASE ~OnData(s)
    <3>1. /\ sock[s] # "none" /\ UNCHANGED <<stream, subscriptionSet>>
          /\ \/ sock[s] = "connecting" /\ SetSock(s, "open")
             \/ Drop(s, "eof") \/ Drop(s, "errored") \/ SetSock(s, "closed")
      BY <1>3, <2>2
      DEF IOEvent, OnConnect, OnEnd, OnClose, OnError, ConnectionGone, Writable, connection, modal
    <3>2. ~(s > stream)
      BY <3>1 DEF ForeignInv, FutureUnused, Unused
    <3> QED BY <3>1, <3>2, SocketForeign DEF Alive
  <2> QED BY <2>1, <2>2
<1>4. CASE CheckTimer \/ AuthTimer \/ RestoreMonitor \/ RunReaction
  BY <1>1, <1>4 DEF CheckTimer, AuthTimer, RestoreMonitor, RunReaction, connection, modal
<1>5. CASE RetryConnection
  BY <1>5, RetryForeign
<1>6. CASE End
  <2>1. /\ stream \in Streams /\ ~(stream > stream)
        /\ UNCHANGED <<stream, subscriptionSet>> /\ Drop(stream, "detached")
    BY <1>6 DEF End, modal, ForeignInv, TypeOK, Streams
  <2> QED BY <2>1, SocketForeign DEF Alive
<1>7. ASSUME NEW c \in Command, NEW force, NEW oq, NEW m, Send(c, force, oq, m),
             UNCHANGED stream
      PROVE  FutureUnused' /\ GuestsWithout' /\ Forgotten'
  BY <1>7, SendForeign
<1>8. CASE DoAuth \/ ReadyCheck \/ OnReady \/ Issue \/ Resubscribe \/ SendOfflineQueue
  <2>1. UNCHANGED stream
    BY <1>8 DEF DoAuth, ReadyCheck, OnReady, Issue, Resubscribe, SendOfflineQueue
  <2> QED BY <1>1, <1>7, <1>8, <2>1, SendingStep DEF ForeignInv
<1>9. CASE UNCHANGED vars
  BY <1>1, <1>9 DEF vars, connection, modal
<1> QED
  BY <1>2, <1>3, <1>4, <1>5, <1>6, <1>7, <1>8, <1>9 DEF Next, Timer, Continue

\* No assumption is needed.
LEMMA ForeignCorrect == Spec => []ForeignInv
<1>1. Init => ForeignInv
  <2>1. Init => FutureUnused /\ GuestsWithout
    BY WireAssumption DEF Init, WireInit, FutureUnused, Unused, GuestsWithout, NewConnection,
      Streams
  <2>2. Init => Forgotten
    BY WireAssumption DEF Init, WireInit, Forgotten, EndsWithout, NewConnection, Streams
  <2> QED BY <2>1, <2>2, TypeInit DEF ForeignInv
<1>2. ForeignInv /\ [Next]_vars => ForeignInv'
  BY TypeStep, ForeignStep DEF ForeignInv
<1> QED BY <1>1, <1>2, PTL DEF Spec

\* A quiet server's subscriptions are the client's (client.js:719-733): what the
\* client has taken out of subscriptionSet, or never put there, the server does
\* not deliver, whatever is lost, repeated or in flight, under every option.
THEOREM NoneForeign == Spec => []NoForeignSubscription
<1>1. ForeignInv => NoForeignSubscription
  <2> SUFFICES ASSUME ForeignInv, Quiet, NEW ch \in srv[stream].subs
               PROVE  ch \in subscriptionSet
    BY DEF NoForeignSubscription
  <2>1. ch \in Channels
    BY DEF ForeignInv, TypeOK, WireTypeOK, ServerState
  <2>2. Writable(stream) /\ toServer[stream] = <<>>
    BY DEF Quiet, Writable
  <2> QED BY <2>1, <2>2 DEF ForeignInv, Forgotten, EndsWithout
<1> QED BY <1>1, ForeignCorrect, PTL

------------------------------------------------------------------------------
(***************************************************************************)
(* The line of replies owed: lemmas about Rank and Owed.                   *)
(***************************************************************************)

\* The replies of q up to the nth that answer a command.
Answering(q, n) == {i \in 1..n : q[i].cmd # Null}

\* Rank counts them one by one.
LEMMA RankCounts ==
  ASSUME NEW q, NEW n \in Nat
  PROVE  /\ Rank(q, n) = Cardinality(Answering(q, n))
         /\ IsFiniteSet(Answering(q, n)) /\ Rank(q, n) \in Nat
         /\ Rank(q, 0) = 0
         /\ q[n + 1].cmd # Null => Rank(q, n + 1) = Rank(q, n) + 1
         /\ q[n + 1].cmd = Null => Rank(q, n + 1) = Rank(q, n)
<1>1. \A m \in Nat : Rank(q, m) = Cardinality(Answering(q, m))
  BY DEF Rank, Answering
<1>2. IsFiniteSet(Answering(q, n))
  <2>1. IsFiniteSet(1..n)
    BY FS_Interval
  <2> QED BY <2>1, FS_Subset DEF Answering
<1>3. Cardinality(Answering(q, n)) \in Nat
  BY <1>2, FS_CardinalityType
<1>4. Rank(q, 0) = 0
  <2>1. Answering(q, 0) = {}
    BY DEF Answering
  <2> QED BY <1>1, <2>1, FS_EmptySet
<1>5. CASE q[n + 1].cmd # Null
  <2>1. Answering(q, n + 1) = Answering(q, n) \cup {n + 1}
    BY <1>5 DEF Answering
  <2>2. n + 1 \notin Answering(q, n)
    BY DEF Answering
  <2>3. Cardinality(Answering(q, n) \cup {n + 1}) = Cardinality(Answering(q, n)) + 1
    BY <1>2, <2>2, FS_AddElement
  <2> QED BY <1>1, <1>2, <1>3, <1>4, <1>5, <2>1, <2>3
<1>6. CASE q[n + 1].cmd = Null
  <2>1. Answering(q, n + 1) = Answering(q, n)
    BY <1>6 DEF Answering
  <2> QED BY <1>1, <1>2, <1>3, <1>4, <1>6, <2>1
<1> QED BY <1>5, <1>6

\* It grows, and the nth reply, if it is an answer, has a place.
LEMMA RankGrows ==
  ASSUME NEW q, NEW n \in Nat, NEW m \in 0..n
  PROVE  /\ Rank(q, m) \in Nat /\ Rank(q, m) <= Rank(q, n)
         /\ m > 0 /\ q[m].cmd # Null => Rank(q, m) > 0
<1>1. m \in Nat /\ Answering(q, m) \subseteq Answering(q, n)
  BY DEF Answering
<1>2. Cardinality(Answering(q, m)) <= Cardinality(Answering(q, n))
  BY <1>1, RankCounts, FS_Subset
<1>3. ASSUME m > 0, q[m].cmd # Null PROVE Rank(q, m) > 0
  <2>1. m - 1 \in Nat /\ (m - 1) + 1 = m
    BY <1>3
  <2>2. Rank(q, m - 1) \in Nat
    BY <2>1, RankCounts
  <2>3. Rank(q, m) = Rank(q, m - 1) + 1
    BY <1>3, <2>1, RankCounts
  <2> QED BY <2>2, <2>3
<1> QED BY <1>1, <1>2, <1>3, RankCounts

\* Replies that come later do not change it.
LEMMA RankAppend ==
  ASSUME NEW q \in ReplySeq, NEW r, NEW n \in 0..Len(q)
  PROVE  Rank(Append(q, r), n) = Rank(q, n)
<1>1. \A i \in 1..n : Append(q, r)[i] = q[i]
  BY DEF ReplySeq
<1>2. {i \in 1..n : Append(q, r)[i].cmd # Null} = {i \in 1..n : q[i].cmd # Null}
  BY <1>1
<1> QED BY <1>2 DEF Rank

\* Without the first reply all move up.
LEMMA RankTail ==
  ASSUME NEW q \in ReplySeq, q # <<>>, NEW n \in 0..(Len(q) - 1)
  PROVE  Rank(q, n + 1) = Rank(Tail(q), n) + Rank(q, 1)
<1> DEFINE A == Answering(Tail(q), n)
           B == Answering(q, n + 1) \ {1}
           f == [i \in A |-> i + 1]
<1>0. n \in Nat /\ n + 1 \in Nat
  OBVIOUS
<1>1. \A i \in 1..n : Tail(q)[i] = q[i + 1]
  BY DEF ReplySeq
<1>2. \A i \in 1..n : i \in A <=> i + 1 \in B
  BY <1>0, <1>1 DEF Answering
<1>3. \A j \in B : j - 1 \in 1..n /\ (j - 1) + 1 = j
  BY <1>0 DEF Answering
<1>4. A \subseteq 1..n
  BY DEF Answering
<1>5. ExistsBijection(A, B)
  <2>1. f \in [A -> B]
    BY <1>2, <1>4
  <2>2. \A i, j \in A : f[i] = f[j] => i = j
    BY <1>0, <1>4
  <2>3. \A j \in B : \E i \in A : f[i] = j
    <3> SUFFICES ASSUME NEW j \in B PROVE \E i \in A : f[i] = j
      OBVIOUS
    <3>1. j - 1 \in A /\ f[j - 1] = j
      BY <1>2, <1>3
    <3> QED BY <3>1
  <2> QED BY <2>1, <2>2, <2>3 DEF ExistsBijection, Bijection, Injection, IsInjective, Surjection
<1>6. IsFiniteSet(A) /\ Cardinality(B) = Cardinality(A) /\ Cardinality(A) \in Nat
  BY <1>0, <1>5, RankCounts, FS_Bijection, FS_CardinalityType
<1>7. Cardinality(B) = IF 1 \in Answering(q, n + 1) THEN Cardinality(Answering(q, n + 1)) - 1
                       ELSE Cardinality(Answering(q, n + 1))
  BY <1>0, RankCounts, FS_RemoveElement
<1>8. Rank(q, 1) = IF q[1].cmd # Null THEN 1 ELSE 0
  <2>1. Rank(q, 0) = 0 /\ 0 \in Nat /\ 0 + 1 = 1
    BY RankCounts
  <2> QED BY <2>1, RankCounts
<1>9. 1 \in Answering(q, n + 1) <=> q[1].cmd # Null
  BY <1>0 DEF Answering
<1> HIDE DEF A, B, f
<1>10. /\ Rank(Tail(q), n) = Cardinality(A)
       /\ Rank(q, n + 1) = Cardinality(Answering(q, n + 1)) /\ Rank(q, n + 1) \in Nat
  BY <1>0, RankCounts DEF A
<1> QED BY <1>6, <1>7, <1>8, <1>9, <1>10

\* Nothing is owed by empty pipes.
LEMMA OwedNothing == Owed(<<>>, <<>>, <<>>)
  BY RankCounts DEF Owed

\* A command is written: it goes to the end of both queues.
LEMMA OwedSend ==
  ASSUME NEW q \in ReplySeq, NEW ts \in CommandSeq, NEW cq \in CommandSeq,
         NEW c \in Command, Owed(q, ts, cq)
  PROVE  Owed(q, Append(ts, c), Append(cq, c))
<1> DEFINE n == Rank(q, Len(q)) ts2 == Append(ts, c) cq2 == Append(cq, c)
<1>1. /\ Len(ts2) = Len(ts) + 1 /\ DOMAIN ts2 = 1..(Len(ts) + 1) /\ ts2[Len(ts) + 1] = c
      /\ \A i \in 1..Len(ts) : ts2[i] = ts[i]
      /\ Len(cq2) = Len(cq) + 1 /\ cq2[Len(cq) + 1] = c
      /\ \A i \in 1..Len(cq) : cq2[i] = cq[i]
      /\ DOMAIN ts = 1..Len(ts) /\ Len(ts) \in Nat /\ Len(cq) \in Nat
      /\ DOMAIN q = 1..Len(q) /\ Len(q) \in Nat
  BY DEF CommandSeq, ReplySeq
<1>2. n \in Nat /\ Len(cq) = n + Len(ts)
  BY <1>1, RankCounts DEF Owed
<1> HIDE DEF n, ts2, cq2
<1>3. ASSUME NEW i \in DOMAIN q, q[i].cmd # Null PROVE cq2[Rank(q, i)] = q[i].cmd
  <2>1. Rank(q, i) \in 1..n
    BY <1>1, <1>3, RankGrows, SMTT(30) DEF n
  <2>2. cq[Rank(q, i)] = q[i].cmd
    BY <1>3 DEF Owed
  <2> QED BY <1>1, <1>2, <2>1, <2>2
<1>4. ASSUME NEW i \in DOMAIN ts2 PROVE cq2[n + i] = ts2[i]
  <2>1. CASE i = Len(ts) + 1
    BY <1>1, <1>2, <2>1
  <2>2. CASE i \in DOMAIN ts
    <3>1. cq[n + i] = ts[i]
      BY <2>2 DEF Owed, n
    <3>2. n + i \in 1..Len(cq)
      BY <1>1, <1>2, <2>2
    <3> QED BY <1>1, <2>2, <3>1, <3>2
  <2> QED BY <1>1, <2>1, <2>2
<1>5. Len(cq2) = n + Len(ts2)
  BY <1>1, <1>2
<1> QED BY <1>3, <1>4, <1>5 DEF Owed, n, ts2, cq2

\* The server answers the first command it has been sent.
LEMMA OwedAnswer ==
  ASSUME NEW q \in ReplySeq, NEW ts \in CommandSeq, NEW cq \in CommandSeq,
         NEW r \in Reply, ts # <<>>, r.cmd = Head(ts), Owed(q, ts, cq)
  PROVE  Owed(Append(q, r), Tail(ts), cq)
<1> DEFINE n == Rank(q, Len(q)) ts2 == Tail(ts) q2 == Append(q, r)
<1>1. /\ Len(ts2) = Len(ts) - 1 /\ DOMAIN ts2 = 1..(Len(ts) - 1) /\ ts[1] = Head(ts)
      /\ \A i \in DOMAIN ts2 : ts2[i] = ts[i + 1] /\ i + 1 \in DOMAIN ts
      /\ DOMAIN ts = 1..Len(ts) /\ Len(ts) \in Nat \ {0}
      /\ Len(q2) = Len(q) + 1 /\ DOMAIN q2 = 1..(Len(q) + 1) /\ q2[Len(q) + 1] = r
      /\ \A i \in DOMAIN q : q2[i] = q[i]
      /\ DOMAIN q = 1..Len(q) /\ Len(q) \in Nat
  BY DEF CommandSeq, ReplySeq
<1>2. r.cmd # Null
  BY CommandQueues, NullAssumption
<1>3. Rank(q2, Len(q)) = n
  BY <1>1, RankAppend
<1>4. n \in Nat /\ Len(cq) = n + Len(ts)
  BY <1>1, RankCounts DEF Owed
<1>5. Rank(q2, Len(q2)) = n + 1
  <2>1. Rank(q2, Len(q) + 1) = Rank(q2, Len(q)) + 1
    BY <1>1, <1>2, RankCounts
  <2> QED BY <1>1, <1>3, <2>1
<1> HIDE DEF n, ts2, q2
<1>6. ASSUME NEW i \in DOMAIN q2, q2[i].cmd # Null PROVE cq[Rank(q2, i)] = q2[i].cmd
  <2>1. CASE i = Len(q) + 1
    <3>1. \A j \in DOMAIN ts : cq[n + j] = ts[j]
      BY DEF Owed, n
    <3>2. cq[n + 1] = ts[1]
      BY <1>1, <3>1
    <3> QED BY <1>1, <1>5, <2>1, <3>2
  <2>2. CASE i \in DOMAIN q
    <3>1. Rank(q2, i) = Rank(q, i)
      BY <1>1, <2>2, RankAppend DEF q2
    <3> QED BY <1>1, <1>6, <2>2, <3>1 DEF Owed
  <2> QED BY <1>1, <2>1, <2>2
<1>7. ASSUME NEW i \in DOMAIN ts2 PROVE cq[n + 1 + i] = ts2[i]
  <2>1. cq[n + (i + 1)] = ts[i + 1]
    BY <1>1 DEF Owed, n
  <2> QED BY <1>1, <1>4, <2>1
<1>8. Len(cq) = n + 1 + Len(ts2)
  BY <1>1, <1>4
<1> QED BY <1>5, <1>6, <1>7, <1>8 DEF Owed, ts2, q2

\* The server sends something unasked.
LEMMA OwedPush ==
  ASSUME NEW q \in ReplySeq, NEW ts \in CommandSeq, NEW cq \in CommandSeq,
         NEW r, r.cmd = Null, Owed(q, ts, cq)
  PROVE  Owed(Append(q, r), ts, cq)
<1> DEFINE n == Rank(q, Len(q)) q2 == Append(q, r)
<1>1. /\ Len(q2) = Len(q) + 1 /\ DOMAIN q2 = 1..(Len(q) + 1) /\ q2[Len(q) + 1] = r
      /\ \A i \in DOMAIN q : q2[i] = q[i]
      /\ DOMAIN q = 1..Len(q) /\ Len(q) \in Nat
  BY DEF ReplySeq
<1>2. Rank(q2, Len(q)) = n
  BY <1>1, RankAppend
<1>3. Rank(q2, Len(q2)) = n
  <2>1. Rank(q2, Len(q) + 1) = Rank(q2, Len(q))
    BY <1>1, RankCounts
  <2> QED BY <1>1, <1>2, <2>1
<1> HIDE DEF n, q2
<1>4. ASSUME NEW i \in DOMAIN q2, q2[i].cmd # Null PROVE cq[Rank(q2, i)] = q2[i].cmd
  <2>1. i \in DOMAIN q
    BY <1>1, <1>4
  <2>2. Rank(q2, i) = Rank(q, i)
    BY <1>1, <2>1, RankAppend DEF q2
  <2> QED BY <1>1, <1>4, <2>1, <2>2 DEF Owed
<1> QED BY <1>3, <1>4 DEF Owed, n, q2

\* The client hears an answer: it is the one to the first command owed.
LEMMA OwedDelivery ==
  ASSUME NEW q \in ReplySeq, NEW ts \in CommandSeq, NEW cq \in CommandSeq,
         q # <<>>, Head(q).cmd # Null, Owed(q, ts, cq)
  PROVE  cq # <<>> /\ Head(cq) = Head(q).cmd /\ Owed(Tail(q), ts, Tail(cq))
<1> DEFINE n == Rank(q, Len(q)) q2 == Tail(q) cq2 == Tail(cq)
<1>1. /\ Len(q2) = Len(q) - 1 /\ DOMAIN q2 = 1..(Len(q) - 1) /\ q[1] = Head(q)
      /\ \A i \in DOMAIN q2 : q2[i] = q[i + 1] /\ i + 1 \in DOMAIN q
      /\ DOMAIN q = 1..Len(q) /\ Len(q) \in Nat \ {0} /\ 1 \in DOMAIN q
      /\ DOMAIN ts = 1..Len(ts) /\ Len(ts) \in Nat /\ Len(cq) \in Nat
  BY DEF CommandSeq, ReplySeq
<1>2. Rank(q, 1) = 1
  <2>1. Rank(q, 0) = 0 /\ 0 \in Nat /\ 0 + 1 = 1
    BY RankCounts
  <2> QED BY <1>1, <2>1, RankCounts
<1>3. n \in Nat /\ n >= 1 /\ Len(cq) = n + Len(ts)
  BY <1>1, <1>2, RankGrows, RankCounts DEF Owed
<1>4. cq # <<>> /\ Head(cq) = Head(q).cmd
  <2>1. cq[1] = q[1].cmd
    BY <1>1, <1>2 DEF Owed
  <2> QED BY <1>1, <1>3, <2>1 DEF CommandSeq
<1>5. /\ Len(cq2) = Len(cq) - 1
      /\ \A i \in 1..(Len(cq) - 1) : cq2[i] = cq[i + 1]
  BY <1>4 DEF CommandSeq
<1>6. \A i \in 0..(Len(q) - 1) : Rank(q, i + 1) = Rank(q2, i) + 1 /\ Rank(q2, i) \in Nat
  BY <1>2, RankTail, RankCounts
<1>7. Rank(q2, Len(q2)) = n - 1
  <2>1. Len(q) - 1 \in 0..(Len(q) - 1) /\ (Len(q) - 1) + 1 = Len(q)
    BY <1>1
  <2> QED BY <1>1, <1>6, <2>1
<1>8. ASSUME NEW i \in DOMAIN q2, q2[i].cmd # Null
      PROVE  Rank(q2, i) \in 1..(n - 1) /\ cq[Rank(q2, i) + 1] = q2[i].cmd
  <2>1. i \in 1..(Len(q) - 1) /\ q2[i] = q[i + 1] /\ i + 1 \in DOMAIN q
    BY <1>1
  <2>2. Rank(q, i + 1) = Rank(q2, i) + 1
    BY <1>6, <2>1
  <2>3. Rank(q2, i) > 0 /\ Rank(q2, i) <= Rank(q2, Len(q2)) /\ Rank(q2, i) \in Nat
    <3>1. Len(q2) \in Nat /\ i \in 0..Len(q2) /\ i > 0
      BY <1>1
    <3> HIDE DEF q2
    <3> QED BY <1>8, <3>1, RankGrows
  <2> QED BY <1>3, <1>7, <1>8, <2>1, <2>2, <2>3 DEF Owed
<1> HIDE DEF n, q2, cq2
<1>9. \A i \in DOMAIN q2 : q2[i].cmd # Null => cq2[Rank(q2, i)] = q2[i].cmd
  BY <1>3, <1>5, <1>8
<1>10. ASSUME NEW i \in DOMAIN ts PROVE cq2[(n - 1) + i] = ts[i]
  <2>1. cq[n + i] = ts[i]
    BY DEF Owed, n
  <2>2. (n - 1) + i \in 1..(Len(cq) - 1) /\ ((n - 1) + i) + 1 = n + i
    BY <1>1, <1>3
  <2> QED BY <1>5, <2>1, <2>2
<1>11. Len(cq2) = (n - 1) + Len(ts)
  BY <1>1, <1>3, <1>5
<1>12. Owed(q2, ts, cq2)
  BY <1>7, <1>9, <1>10, <1>11 DEF Owed
<1> QED BY <1>4, <1>12 DEF q2, cq2

\* The client hears something it has not asked for.
LEMMA OwedUnasked ==
  ASSUME NEW q \in ReplySeq, NEW ts \in CommandSeq, NEW cq \in CommandSeq,
         q # <<>>, Head(q).cmd = Null, Owed(q, ts, cq)
  PROVE  Owed(Tail(q), ts, cq)
<1> DEFINE n == Rank(q, Len(q)) q2 == Tail(q)
<1>1. /\ Len(q2) = Len(q) - 1 /\ DOMAIN q2 = 1..(Len(q) - 1) /\ q[1] = Head(q)
      /\ \A i \in DOMAIN q2 : q2[i] = q[i + 1] /\ i + 1 \in DOMAIN q
      /\ DOMAIN q = 1..Len(q) /\ Len(q) \in Nat \ {0}
  BY DEF ReplySeq
<1>2. Rank(q, 1) = 0
  <2>1. Rank(q, 0) = 0 /\ 0 \in Nat /\ 0 + 1 = 1
    BY RankCounts
  <2> QED BY <1>1, <2>1, RankCounts
<1>3. \A i \in 0..(Len(q) - 1) : Rank(q, i + 1) = Rank(q2, i)
  BY <1>2, RankTail, RankCounts
<1>4. Rank(q2, Len(q2)) = n
  <2>1. Len(q) - 1 \in 0..(Len(q) - 1) /\ (Len(q) - 1) + 1 = Len(q)
    BY <1>1
  <2> QED BY <1>1, <1>3, <2>1
<1>5. ASSUME NEW i \in DOMAIN q2, q2[i].cmd # Null PROVE cq[Rank(q2, i)] = q2[i].cmd
  BY <1>1, <1>3, <1>5 DEF Owed
<1> HIDE DEF n, q2
<1> QED BY <1>4, <1>5 DEF Owed, n, q2

\* An empty line owes nothing; and a command not yet taken stands in the line.
LEMMA OwedTakes ==
  ASSUME NEW q \in ReplySeq, NEW ts \in CommandSeq, NEW cq \in CommandSeq, Owed(q, ts, cq)
  PROVE  /\ \A i \in DOMAIN ts : \E j \in DOMAIN cq : cq[j] = ts[i] /\ j >= i
         /\ \A i \in DOMAIN q : q[i].cmd # Null => \E j \in DOMAIN cq : cq[j] = q[i].cmd
         /\ cq = <<>> => ts = <<>>
         /\ \A i \in DOMAIN ts, k \in DOMAIN q :
              q[k].cmd # Null => \E j \in DOMAIN cq : cq[j] = ts[i] /\ j > i
<1> DEFINE n == Rank(q, Len(q))
<1>1. /\ DOMAIN ts = 1..Len(ts) /\ Len(ts) \in Nat /\ DOMAIN q = 1..Len(q) /\ Len(q) \in Nat
      /\ DOMAIN cq = 1..Len(cq) /\ Len(cq) \in Nat
  BY DEF CommandSeq, ReplySeq
<1>2. n \in Nat /\ Len(cq) = n + Len(ts)
  BY <1>1, RankCounts DEF Owed
<1>3. ASSUME NEW i \in DOMAIN ts PROVE n + i \in DOMAIN cq /\ cq[n + i] = ts[i]
  BY <1>1, <1>2 DEF Owed
<1>4. ASSUME NEW i \in DOMAIN q, q[i].cmd # Null
      PROVE  Rank(q, i) \in 1..n /\ cq[Rank(q, i)] = q[i].cmd
  <2>1. Len(q) \in Nat /\ i \in 0..Len(q) /\ i > 0
    BY <1>1
  <2>2. Rank(q, i) \in Nat /\ Rank(q, i) <= n /\ Rank(q, i) > 0
    BY <1>4, <2>1, RankGrows
  <2> QED BY <1>2, <1>4, <2>2 DEF Owed
<1> HIDE DEF n
<1>5. cq = <<>> => ts = <<>>
  BY <1>1, <1>2 DEF CommandSeq
<1>6. ASSUME NEW i \in DOMAIN ts, NEW k \in DOMAIN q, q[k].cmd # Null PROVE n + i > i
  BY <1>1, <1>2, <1>4, <1>6
<1> QED BY <1>1, <1>2, <1>3, <1>4, <1>5, <1>6

------------------------------------------------------------------------------
(***************************************************************************)
(* An orderly client.  A chunk may bring several replies before reactions  *)
(* run, and reactions of a SELECT may be left when the connection is lost; *)
(* only a reaction that starts the client comes before that.  No command   *)
(* is forced past the ready check, the server is not loading its data set, *)
(* a (un)subscription names one channel, and MONITOR goes with no lines to *)
(* be pushed: without any of these the code loses the line of replies.     *)
(* The user selects databases or subscribes, not both: resetPubSub turns   *)
(* pub/sub mode off when it comes after the reply to a SUBSCRIBE           *)
(* (client.js:287-291), and a message is then taken for a reply.           *)
(***************************************************************************)

\* The server answers c once.
AnsweredOnce(c) ==
  (c.kind \in SubKinds => Len(c.args) = 1) /\ (c.kind = "monitor" => MaxPushes = 0)

Selects == \E u \in UserCommands : u.kind = "select"

Subscribes == \E u \in UserCommands : u.kind \in SubKinds

OrderlyClient ==
  /\ ~LateClose /\ ~LateStart /\ ~ForcedCalls /\ MaxLoads = 0
  /\ \A u \in UserCommands : AnsweredOnce(u)
  /\ ~(Selects /\ Subscribes)

\* A command there can be, the client's own included.
Fits(c) ==
  /\ AnsweredOnce(c)
  /\ c.kind = "select" => Selects
  /\ c.kind \in SubKinds => Subscribes

Open == sock[stream] = "open"

\* The SELECT of onReady; the commands that come before the client is ready.
OwnSelect(c) == c.id = 0 /\ c.kind = "select"

OwnStart(c) == c.id = 0 /\ c.kind \in {"auth", "info"}

\* What an orderly client can be sent.
Shaped(r) ==
  \/ r.cmd = Null /\ r.type = "eof"
  \/ r.cmd = Null /\ r.type = "message" /\ Subscribes
  \/ r.cmd # Null /\ Fits(r.cmd) /\ r.type \in {"ok", "error", "noPassSet"}
  \/ r.cmd # Null /\ Fits(r.cmd) /\ r.type = "subscription" /\ r.cmd.kind \in SubKinds

AllFit(q) == \A i \in DOMAIN q : Fits(q[i])

AllShaped(q) == \A i \in DOMAIN q : Shaped(q[i])

\* The offline queue keeps commands of the user only.
KeptFit(q) == AllFit(q) /\ \A i \in DOMAIN q : q[i].id # 0

PipesFit ==
  /\ sock[stream] = "connecting" =>
       /\ toServer[stream] = <<>> /\ toClient[stream] = <<>>
       /\ srv[stream] = NewConnection
  /\ KeptFit(offlineQueue) /\ AllFit(commandQueue)
  /\ AllFit(toServer[stream]) /\ AllShaped(toClient[stream])
  /\ srv[stream].monitor => MaxPushes = 0

\* A reaction of an orderly client.
Sane(r) ==
  /\ r.run \notin {"checkLater", "authLater"}
  /\ r.run = "resetPubSub" => OwnSelect(r.cmd)
  /\ r.run = "selectResolved" => r.cmd.kind = "select"
  /\ Fits(r.cmd)

\* No reaction is left beside a callback that is running, or from the last
\* connection.
TurnFits ==
  /\ checkTimers = 0 /\ authTimers = 0
  /\ task # "idle" \/ sock[stream] = "connecting" => reactions = <<>>
  /\ \A i \in DOMAIN reactions : Sane(reactions[i])
  /\ task \in {"doAuth", "readyCheck", "onReady"} => Open /\ ~ready
  /\ task \in {"resubscribe", "sendOfflineQueue"} => Open /\ ready

\* Until the client is ready it sends AUTH and INFO, one at a time, and waits.
StartFits ==
  Open /\ ~ready =>
    /\ srv[stream].subs = {}
    /\ \A i \in DOMAIN toClient[stream] : toClient[stream][i].type # "message"
    /\ Len(commandQueue) <= 1 /\ Len(reactions) <= 1
    /\ \A i \in DOMAIN commandQueue : OwnStart(commandQueue[i])
    /\ commandQueue # <<>> => task = "idle" /\ reactions = <<>>

\* From then on neither is in the queue, and the SELECT of onReady is its first.
ReadyFits ==
  Open /\ ready =>
    /\ \A i \in DOMAIN commandQueue :
         ~OwnStart(commandQueue[i]) /\ (OwnSelect(commandQueue[i]) => i = 1)
    /\ \A i \in DOMAIN reactions : reactions[i].run \notin {"onReady", "authDone"}

LineFits == Open => Owed(toClient[stream], toServer[stream], commandQueue)

\* The mode the client will be in when it hears the nth of the replies q, if it
\* is now in the mode m.
ModeAt(q, m, n) ==
  \/ \E k \in 1..(n - 1) : /\ q[k].type = "subscription" /\ ~q[k].none
                           /\ \A l \in (k + 1)..(n - 1) : q[l].type # "subscription"
  \/ m /\ \A k \in 1..(n - 1) : q[k].type # "subscription"

\* It is in pub/sub mode for every message on the way, and for those to come.
ModeView(q, subs, m) ==
  /\ \A i \in DOMAIN q : q[i].type = "message" => ModeAt(q, m, i)
  /\ subs # {} => ModeAt(q, m, Len(q) + 1)

ModeFits ==
  Open /\ ready => ModeView(toClient[stream], srv[stream].subs, modes.pubSubMode)

Fit == PipesFit /\ TurnFits /\ StartFits /\ ReadyFits /\ LineFits /\ ModeFits

\* A database or a subscription is there because the user selects or subscribes.
UseFits ==
  /\ Restored.selectedDb # Null => Selects
  /\ resubKeys # {} \/ subscriptionSet # {} \/ srv[stream].subs # {} => Subscribes

OrderlyInv == UsableInv /\ ForeignInv /\ Fit /\ UseFits

\* The places of a queue that grows or is shortened.
LEMMA Places ==
  ASSUME NEW S, NEW q \in Seq(S)
  PROVE  /\ DOMAIN q = 1..Len(q) /\ Len(q) \in Nat
         /\ \A x : /\ Len(Append(q, x)) = Len(q) + 1
                   /\ DOMAIN Append(q, x) = 1..(Len(q) + 1)
                   /\ \A i \in DOMAIN q : Append(q, x)[i] = q[i]
                   /\ Append(q, x)[Len(q) + 1] = x
         /\ q # <<>> => /\ 1 \in DOMAIN q /\ Head(q) = q[1]
                        /\ Len(Tail(q)) = Len(q) - 1 /\ DOMAIN Tail(q) = 1..(Len(q) - 1)
                        /\ \A i \in DOMAIN Tail(q) : i + 1 \in DOMAIN q /\ Tail(q)[i] = q[i + 1]
         /\ q = <<>> <=> Len(q) = 0
  OBVIOUS

\* Fitting queues stay so.
LEMMA FitQueues ==
  ASSUME NEW q \in CommandSeq
  PROVE  /\ AllFit(<<>>) /\ KeptFit(<<>>) /\ AllShaped(<<>>)
         /\ \A c : AllFit(q) /\ Fits(c) => AllFit(Append(q, c))
         /\ \A c : KeptFit(q) /\ Fits(c) /\ c.id # 0 => KeptFit(Append(q, c))
         /\ AllFit(q) /\ q # <<>> => Fits(Head(q)) /\ AllFit(Tail(q)) /\ Fits(Last(q))
         /\ KeptFit(q) /\ q # <<>> => Fits(Head(q)) /\ Head(q).id # 0 /\ KeptFit(Tail(q))
<1>1. /\ DOMAIN q = 1..Len(q) /\ Len(q) \in Nat
      /\ \A x : /\ DOMAIN Append(q, x) = 1..(Len(q) + 1)
                /\ \A i \in DOMAIN q : Append(q, x)[i] = q[i]
                /\ Append(q, x)[Len(q) + 1] = x
      /\ q # <<>> => /\ 1 \in DOMAIN q /\ Head(q) = q[1]
                     /\ \A i \in DOMAIN Tail(q) : i + 1 \in DOMAIN q /\ Tail(q)[i] = q[i + 1]
                     /\ Last(q) = q[Len(q)] /\ Len(q) \in DOMAIN q
  BY Places DEF CommandSeq, Last
<1>2. \A x : \A i \in DOMAIN Append(q, x) : i \in DOMAIN q \/ i = Len(q) + 1
  BY <1>1
<1>3. AllFit(<<>>) /\ KeptFit(<<>>) /\ AllShaped(<<>>)
  BY DEF AllFit, KeptFit, AllShaped
<1>4. ASSUME NEW c, AllFit(q), Fits(c) PROVE AllFit(Append(q, c))
  BY <1>1, <1>2, <1>4 DEF AllFit
<1>5. ASSUME NEW c, KeptFit(q), Fits(c), c.id # 0 PROVE KeptFit(Append(q, c))
  BY <1>1, <1>2, <1>4, <1>5 DEF KeptFit
<1>6. ASSUME q # <<>> 
      PROVE  /\ AllFit(q) => Fits(Head(q)) /\ AllFit(Tail(q)) /\ Fits(Last(q))
             /\ KeptFit(q) => Fits(Head(q)) /\ Head(q).id # 0 /\ KeptFit(Tail(q))
  BY <1>1, <1>6 DEF AllFit, KeptFit
<1> QED BY <1>3, <1>4, <1>5, <1>6

\* And fitting replies.
LEMMA ShapedQueues ==
  ASSUME NEW q \in ReplySeq, AllShaped(q)
  PROVE  /\ \A r : Shaped(r) => AllShaped(Append(q, r))
         /\ q # <<>> => Shaped(Head(q)) /\ AllShaped(Tail(q))
<1>1. /\ DOMAIN q = 1..Len(q) /\ Len(q) \in Nat
      /\ \A x : /\ DOMAIN Append(q, x) = 1..(Len(q) + 1)
                /\ \A i \in DOMAIN q : Append(q, x)[i] = q[i]
                /\ Append(q, x)[Len(q) + 1] = x
      /\ q # <<>> => /\ 1 \in DOMAIN q /\ Head(q) = q[1]
                     /\ \A i \in DOMAIN Tail(q) : i + 1 \in DOMAIN q /\ Tail(q)[i] = q[i + 1]
  BY Places DEF ReplySeq
<1>2. \A x : \A i \in DOMAIN Append(q, x) : i \in DOMAIN q \/ i = Len(q) + 1
  BY <1>1
<1>3. ASSUME NEW r, Shaped(r) PROVE AllShaped(Append(q, r))
  BY <1>1, <1>2, <1>3 DEF AllShaped
<1>4. ASSUME q # <<>> PROVE Shaped(Head(q)) /\ AllShaped(Tail(q))
  BY <1>1, <1>4 DEF AllShaped
<1> QED BY <1>3, <1>4

\* Another reply is sent: a message to a subscriber, or the number of
\* subscriptions that are left.
LEMMA ModeAppend ==
  ASSUME NEW q \in ReplySeq, NEW subs, NEW left, NEW m \in BOOLEAN, NEW r,
         ModeView(q, subs, m),
         r.type = "message" => subs # {},
         r.type = "subscription" /\ left # {} => ~r.none,
         r.type # "subscription" /\ left # {} => subs # {}
  PROVE  ModeView(Append(q, r), left, m)
<1> DEFINE q2 == Append(q, r) n == Len(q)
<1>1. /\ DOMAIN q = 1..n /\ n \in Nat /\ DOMAIN q2 = 1..(n + 1) /\ Len(q2) = n + 1
      /\ \A i \in 1..n : q2[i] = q[i]
      /\ q2[n + 1] = r
  BY Places DEF ReplySeq
<1> HIDE DEF q2, n
<1>2. \A i \in 1..(n + 1) : ModeAt(q, m, i) => ModeAt(q2, m, i)
  <2> SUFFICES ASSUME NEW i \in 1..(n + 1), ModeAt(q, m, i) PROVE ModeAt(q2, m, i)
    OBVIOUS
  <2>1. \A k \in 1..(i - 1) : k \in 1..n /\ q2[k] = q[k]
    BY <1>1
  <2>2. ASSUME NEW k \in 1..(i - 1), q[k].type = "subscription", ~q[k].none,
               \A l \in (k + 1)..(i - 1) : q[l].type # "subscription"
        PROVE  ModeAt(q2, m, i)
    <3>1. \A l \in (k + 1)..(i - 1) : l \in 1..(i - 1)
      BY <1>1
    <3>2. \A l \in (k + 1)..(i - 1) : q2[l].type # "subscription"
      BY <2>1, <2>2, <3>1
    <3> QED BY <2>1, <2>2, <3>2 DEF ModeAt
  <2>3. CASE m /\ \A k \in 1..(i - 1) : q[k].type # "subscription"
    BY <2>1, <2>3 DEF ModeAt
  <2> QED BY <2>2, <2>3 DEF ModeAt
<1>3. subs # {} => ModeAt(q2, m, n + 1)
  BY <1>1, <1>2 DEF ModeView, n
<1>4. ASSUME NEW i \in DOMAIN q2, q2[i].type = "message" PROVE ModeAt(q2, m, i)
  <2>1. CASE i \in DOMAIN q
    BY <1>1, <1>2, <1>4, <2>1 DEF ModeView
  <2>2. CASE i = n + 1
    BY <1>1, <1>3, <1>4, <2>2
  <2> QED BY <1>1, <2>1, <2>2
<1>5. ASSUME left # {} PROVE ModeAt(q2, m, n + 2)
  <2>0. (n + 2) - 1 = n + 1 /\ (n + 1) - 1 = n
    BY <1>1
  <2>1. CASE r.type = "subscription"
    <3>1. n + 1 \in 1..(n + 1) /\ \A l \in ((n + 1) + 1)..(n + 1) : FALSE
      BY <1>1
    <3>2. q2[n + 1].type = "subscription" /\ ~q2[n + 1].none
      BY <1>1, <1>5, <2>1
    <3> QED BY <2>0, <3>1, <3>2 DEF ModeAt
  <2>2. CASE r.type # "subscription"
    <3>1. ModeAt(q2, m, n + 1)
      BY <1>3, <1>5, <2>2
    <3>2. q2[n + 1].type # "subscription" /\ \A l \in 1..(n + 1) : l \in 1..n \/ l = n + 1
      BY <1>1, <2>2
    <3>3. ASSUME NEW k \in 1..n, q2[k].type = "subscription", ~q2[k].none,
                 \A l \in (k + 1)..n : q2[l].type # "subscription"
          PROVE  ModeAt(q2, m, n + 2)
      <4>1. k \in 1..(n + 1) /\ \A l \in (k + 1)..(n + 1) : l \in (k + 1)..n \/ l = n + 1
        BY <1>1
      <4> QED BY <2>0, <3>2, <3>3, <4>1 DEF ModeAt
    <3>4. ASSUME m, \A k \in 1..n : q2[k].type # "subscription" PROVE ModeAt(q2, m, n + 2)
      BY <2>0, <3>2, <3>4 DEF ModeAt
    <3> QED BY <2>0, <3>1, <3>3, <3>4 DEF ModeAt
  <2> QED BY <2>1, <2>2
<1>6. Len(q2) + 1 = n + 2
  BY <1>1
<1>7. ModeView(q2, left, m)
  BY <1>4, <1>5, <1>6 DEF ModeView
<1> QED BY <1>7 DEF q2

\* The first reply is heard.
LEMMA ModeTail ==
  ASSUME NEW q \in ReplySeq, q # <<>>, NEW subs, NEW m \in BOOLEAN, ModeView(q, subs, m)
  PROVE  /\ Head(q).type = "message" => m
         /\ Head(q).type # "subscription" => ModeView(Tail(q), subs, m)
         /\ Head(q).type = "subscription" => ModeView(Tail(q), subs, ~Head(q).none)
<1> DEFINE r == Tail(q) n == Len(q) m2 == IF q[1].type = "subscription" THEN ~q[1].none ELSE m
<1>1. /\ DOMAIN q = 1..n /\ n \in Nat \ {0} /\ 1 \in DOMAIN q /\ Head(q) = q[1]
      /\ DOMAIN r = 1..(n - 1) /\ Len(r) = n - 1
      /\ \A i \in 1..(n - 1) : r[i] = q[i + 1]
  BY Places DEF ReplySeq
<1>2. Head(q).type = "message" => m
  <2>1. q[1].type = "message" => ModeAt(q, m, 1)
    BY <1>1 DEF ModeView
  <2> QED BY <1>1, <2>1 DEF ModeAt
<1> HIDE DEF r, n
<1>3. ASSUME NEW i \in 1..n, ModeAt(q, m, i + 1) PROVE ModeAt(r, m2, i)
  <2>0. (i + 1) - 1 = i /\ 1 \in 1..i
    BY <1>1
  <2>1. \A k \in 1..(i - 1) : r[k] = q[k + 1] /\ k + 1 \in 2..i
    BY <1>1
  <2>2. ASSUME NEW k \in 1..i, q[k].type = "subscription", ~q[k].none,
               \A l \in (k + 1)..i : q[l].type # "subscription"
        PROVE  ModeAt(r, m2, i)
    <3>1. CASE k = 1
      <4>1. \A l \in 1..(i - 1) : l + 1 \in (k + 1)..i
        BY <3>1
      <4>2. \A l \in 1..(i - 1) : r[l].type # "subscription"
        BY <2>1, <2>2, <4>1
      <4> QED BY <2>2, <3>1, <4>2 DEF ModeAt
    <3>2. CASE k # 1
      <4>1. k - 1 \in 1..(i - 1) /\ r[k - 1] = q[k]
        <5>1. k - 1 \in 1..(i - 1) /\ (k - 1) + 1 = k
          BY <3>2
        <5> QED BY <2>1, <5>1
      <4>2. ASSUME NEW l \in ((k - 1) + 1)..(i - 1) PROVE r[l].type # "subscription"
        <5>1. l \in 1..(i - 1) /\ l + 1 \in (k + 1)..i
          OBVIOUS
        <5> QED BY <2>1, <2>2, <5>1
      <4> QED BY <2>2, <4>1, <4>2 DEF ModeAt
    <3> QED BY <3>1, <3>2
  <2>3. CASE m /\ \A k \in 1..i : q[k].type # "subscription"
    <3>1. \A k \in 1..(i - 1) : k + 1 \in 1..i
      OBVIOUS
    <3>2. \A k \in 1..(i - 1) : r[k].type # "subscription"
      BY <2>1, <2>3, <3>1
    <3> QED BY <2>0, <2>3, <3>2 DEF ModeAt
  <2> QED BY <1>3, <2>0, <2>2, <2>3 DEF ModeAt
<1>4. ASSUME NEW i \in DOMAIN r, r[i].type = "message" PROVE ModeAt(r, m2, i)
  <2>1. i \in 1..n /\ i + 1 \in DOMAIN q /\ q[i + 1].type = "message"
    BY <1>1, <1>4
  <2> QED BY <1>3, <2>1 DEF ModeView
<1>5. ASSUME subs # {} PROVE ModeAt(r, m2, Len(r) + 1)
  <2>1. ModeAt(q, m, n + 1)
    BY <1>5 DEF ModeView, n
  <2>2. n \in 1..n /\ Len(r) + 1 = n
    BY <1>1
  <2> QED BY <1>3, <2>1, <2>2
<1>6. ModeView(r, subs, m2)
  BY <1>4, <1>5 DEF ModeView
<1> QED BY <1>1, <1>2, <1>6 DEF r

\* What does not leave the mode may enter it; and where nobody is subscribed and
\* no message is on the way there is nothing to see.
LEMMA ModeOther ==
  ASSUME NEW q, NEW subs
  PROVE  /\ \A m, m2 \in BOOLEAN : ModeView(q, subs, m) /\ (m => m2) => ModeView(q, subs, m2)
         /\ subs = {} /\ (\A i \in DOMAIN q : q[i].type # "message")
              => \A m \in BOOLEAN : ModeView(q, subs, m)
  BY DEF ModeView, ModeAt

\* The server's answer to one command.
LEMMA OneAnswer ==
  ASSUME NEW v \in ServerState, NEW c \in Command, Fits(c)
  PROVE  \E r \in Reply :
           /\ Replies(v, c) = <<r>> \/ Replies(v, c) = <<r, Push("eof")>>
           /\ r.cmd = c /\ Shaped(r) /\ r.type # "message"
           /\ r.type = "subscription" /\ Executed(v, c).subs # {} => ~r.none
           /\ r.type # "subscription" => Executed(v, c).subs = v.subs
<1>0. c # Null
  BY NullAssumption
<1>1. \A type \in ReplyTypes : ReplyTo(c, type) \in Reply
  BY DEF ReplyTo, Reply
<1>2. \A type \in {"ok", "error", "noPassSet"} :
        /\ ReplyTo(c, type) \in Reply /\ ReplyTo(c, type).cmd = c
        /\ Shaped(ReplyTo(c, type))
        /\ ReplyTo(c, type).type \notin {"message", "subscription"}
  BY <1>0, <1>1 DEF ReplyTo, ReplyTypes, ErrorTypes, Shaped
<1>3. CASE Refuses(v, c)
  <2>1. Replies(v, c) = <<ReplyTo(c, "error")>> /\ Executed(v, c) = v
    BY <1>3 DEF Replies, Executed
  <2> QED BY <1>2, <2>1
<1>4. CASE ~Refuses(v, c) /\ c.kind \notin SubKinds
  <2>1. \E type \in {"ok", "error", "noPassSet"} :
          \/ Replies(v, c) = <<ReplyTo(c, type)>>
          \/ Replies(v, c) = <<ReplyTo(c, type), Push("eof")>>
    BY <1>4 DEF Replies, AuthReply, SubKinds
  <2>2. Executed(v, c).subs = v.subs
    BY <1>4 DEF Executed, SubKinds, ServerState
  <2> QED BY <1>2, <2>1, <2>2
<1>5. CASE ~Refuses(v, c) /\ c.kind \in SubKinds
  <2>1. DOMAIN c.args = {1} /\ c.args # <<>> /\ ToSet(c.args) = {c.args[1]}
    <3> DEFINE a == c.args
    <3>1. a \in Seq(Channels) /\ Len(a) = 1
      BY <1>5 DEF Command, Fits, AnsweredOnce
    <3> HIDE DEF a
    <3>2. DOMAIN a = 1..1 /\ a # <<>>
      BY <3>1, Places
    <3> QED BY <3>2 DEF ToSet, a
  <2>2. \A left : /\ SubscriptionReply(c, left) \in Reply
                  /\ SubscriptionReply(c, left).cmd = c
                  /\ SubscriptionReply(c, left).type = "subscription"
                  /\ Shaped(SubscriptionReply(c, left))
                  /\ SubscriptionReply(c, left).none = (left = {})
    BY <1>0, <1>5 DEF SubscriptionReply, Reply, ReplyTypes, Shaped
  <2>3. CASE c.kind = "subscribe"
    <3>1. Replies(v, c) = [i \in {1} |-> SubscriptionReply(c, {c.args[i]})]
      BY <1>5, <2>1, <2>3 DEF Replies, SubscribeReplies
    <3>2. Replies(v, c) = <<SubscriptionReply(c, {c.args[1]})>>
      BY <3>1
    <3> DEFINE r == SubscriptionReply(c, {c.args[1]})
    <3>3. /\ r \in Reply /\ r.cmd = c /\ r.type = "subscription" /\ Shaped(r) /\ ~r.none
          /\ r.type # "message"
      BY <2>2
    <3> HIDE DEF r
    <3> QED BY <3>2, <3>3 DEF r
  <2>4. CASE c.kind = "unsubscribe"
    <3>1. Replies(v, c) = [i \in {1} |-> SubscriptionReply(c, v.subs \ {c.args[j] : j \in 1..i})]
      BY <1>5, <2>1, <2>4 DEF Replies, UnsubscribeReplies
    <3>2. Replies(v, c) = <<SubscriptionReply(c, v.subs \ {c.args[j] : j \in 1..1})>>
      BY <3>1
    <3>3. Executed(v, c).subs = v.subs \ {c.args[1]}
      BY <1>5, <2>1, <2>4 DEF Executed, ServerState
    <3>4. {c.args[j] : j \in 1..1} = {c.args[1]}
      OBVIOUS
    <3> DEFINE r == SubscriptionReply(c, v.subs \ {c.args[j] : j \in 1..1})
    <3>5. /\ r \in Reply /\ r.cmd = c /\ r.type = "subscription" /\ Shaped(r)
          /\ r.type # "message"
          /\ r.none = (v.subs \ {c.args[j] : j \in 1..1} = {})
      BY <2>2
    <3>6. Executed(v, c).subs # {} => ~r.none
      BY <3>3, <3>4, <3>5
    <3> HIDE DEF r
    <3> QED BY <3>2, <3>5, <3>6 DEF r
  <2> QED BY <1>5, <2>3, <2>4 DEF SubKinds
<1> QED BY <1>3, <1>4, <1>5

\* What a step of the server adds to the replies of the present stream: an answer
\* to the first command, a message, or the end.
LEMMA ServerMoves ==
  ASSUME OrderlyClient, OrderlyInv, NEW s \in Streams, Server(s)
  PROVE  /\ s = stream /\ Open /\ sock' = sock
         /\ \/ \E r \in Reply :
                 /\ toServer[s] # <<>> /\ r.cmd = Head(toServer[s])
                 /\ toServer'[s] = Tail(toServer[s])
                 /\ srv'[s] = Executed(srv[s], Head(toServer[s]))
                 /\ \/ toClient'[s] = Append(toClient[s], r)
                    \/ toClient'[s] = Append(Append(toClient[s], r), Push("eof"))
                 /\ Shaped(r) /\ r.type # "message"
                 /\ r.type = "subscription" /\ srv'[s].subs # {} => ~r.none
                 /\ r.type # "subscription" => srv'[s].subs = srv[s].subs
                 /\ Replies(srv[s], Head(toServer[s])) \in {<<r>>, <<r, Push("eof")>>}
            \/ /\ toServer' = toServer /\ srv' = srv
               /\ \E type \in {"message", "eof"} :
                    /\ toClient'[s] = Append(toClient[s], Push(type))
                    /\ type = "message" => srv[s].subs # {}
<1>1. sock[s] = "open" /\ sock' = sock
  BY DEF Server, ServerExecutes, ServerPushes, ServerCloses, ServerUp
<1>2. s = stream
  BY <1>1, OnlyStream DEF OrderlyInv, UsableInv, Gone
<1>3. /\ toServer \in [Streams -> CommandSeq] /\ toClient \in [Streams -> ReplySeq]
      /\ srv \in [Streams -> ServerState] /\ loads \in 0..MaxLoads /\ pushes \in 0..MaxPushes
      /\ toServer[s] \in CommandSeq /\ toClient[s] \in ReplySeq /\ srv[s] \in ServerState
  BY DEF OrderlyInv, ForeignInv, TypeOK, WireTypeOK
<1>4. \A x, y : /\ toClient[s] \o <<x>> = Append(toClient[s], x)
                /\ toClient[s] \o <<x, y>> = Append(Append(toClient[s], x), y)
  BY <1>3 DEF ReplySeq
<1>5. CASE ServerExecutes(s)
  <2> DEFINE c == Head(toServer[s]) v == srv[s]
  <2>1. /\ toServer[s] # <<>> /\ toServer'[s] = Tail(toServer[s])
        /\ srv'[s] = Executed(v, c) /\ toClient'[s] = toClient[s] \o Replies(v, c)
    BY <1>3, <1>5 DEF OrderlyClient, ServerExecutes, ServerSends
  <2>2. c \in Command /\ Fits(c)
    BY <1>2, <1>3, <2>1, CommandQueues, FitQueues DEF OrderlyInv, Fit, PipesFit
  <2>3. PICK r \in Reply :
           /\ Replies(v, c) = <<r>> \/ Replies(v, c) = <<r, Push("eof")>>
           /\ r.cmd = c /\ Shaped(r) /\ r.type # "message"
           /\ r.type = "subscription" /\ Executed(v, c).subs # {} => ~r.none
           /\ r.type # "subscription" => Executed(v, c).subs = v.subs
    BY <1>3, <2>2, OneAnswer
  <2>4. \/ toClient'[s] = Append(toClient[s], r)
        \/ toClient'[s] = Append(Append(toClient[s], r), Push("eof"))
    BY <1>4, <2>1, <2>3
  <2> QED BY <1>1, <1>2, <2>1, <2>3, <2>4 DEF Open
<1>6. CASE ServerPushes(s)
  <2>1. MaxPushes # 0 /\ toServer' = toServer /\ srv' = srv
    BY <1>3, <1>6 DEF ServerPushes
  <2>2. ~srv[s].monitor
    BY <1>2, <2>1 DEF OrderlyInv, Fit, PipesFit
  <2>3. srv[s].subs # {} /\ toClient'[s] = Append(toClient[s], Push("message"))
    BY <1>3, <1>4, <1>6, <2>2 DEF ServerPushes, ServerSends
  <2> QED BY <1>1, <1>2, <2>1, <2>3 DEF Open
<1>7. CASE ServerCloses(s)
  <2>1. toServer' = toServer /\ srv' = srv /\ toClient'[s] = Append(toClient[s], Push("eof"))
    BY <1>3, <1>4, <1>7 DEF ServerCloses, ServerSends
  <2> QED BY <1>1, <1>2, <2>1 DEF Open
<1> QED BY <1>5, <1>6, <1>7 DEF Server

\* One reply more, on the present stream.
LEMMA ReplySent ==
  ASSUME NEW q \in ReplySeq, NEW r, Shaped(r), AllShaped(q),
         NEW subs, NEW left,
         r.type = "message" => subs # {},
         r.type = "subscription" /\ left # {} => ~r.none,
         r.type # "subscription" /\ left # {} => subs # {}
  PROVE  /\ AllShaped(Append(q, r))
         /\ \A m \in BOOLEAN : ModeView(q, subs, m) => ModeView(Append(q, r), left, m)
         /\ r.type # "message" /\ (\A i \in DOMAIN q : q[i].type # "message")
              => \A i \in DOMAIN Append(q, r) : Append(q, r)[i].type # "message"
<1>1. AllShaped(Append(q, r))
  BY ShapedQueues
<1>2. \A m \in BOOLEAN : ModeView(q, subs, m) => ModeView(Append(q, r), left, m)
  BY ModeAppend
<1>3. ASSUME r.type # "message", \A i \in DOMAIN q : q[i].type # "message"
      PROVE  \A i \in DOMAIN Append(q, r) : Append(q, r)[i].type # "message"
  <2>1. \A i \in DOMAIN Append(q, r) :
          (i \in DOMAIN q /\ Append(q, r)[i] = q[i]) \/ Append(q, r)[i] = r
    BY DEF ReplySeq
  <2> QED BY <1>3, <2>1
<1> QED BY <1>1, <1>2, <1>3

\* The server moves.
LEMMA ServerFit ==
  ASSUME OrderlyClient, OrderlyInv, NEW s \in Streams, Server(s)
  PROVE  Fit'
<1> DEFINE q == toClient[stream] ts == toServer[stream] v == srv[stream]
           q2 == toClient'[stream] ts2 == toServer'[stream] v2 == srv'[stream]
           m == modes.pubSubMode
           eof == Push("eof")
<1>0. s = stream /\ Open /\ sock' = sock
  BY ServerMoves
<1>1. UNCHANGED <<stream, ready, commandQueue, offlineQueue, modes, reactions, task,
                  checkTimers, authTimers>>
  BY DEF Server, connection, commands, modal, timers, turn
<1>2. /\ q \in ReplySeq /\ ts \in CommandSeq /\ v \in ServerState
      /\ commandQueue \in CommandSeq /\ modes.pubSubMode \in BOOLEAN
  BY DEF OrderlyInv, ForeignInv, TypeOK, WireTypeOK, Modes
<1>3. /\ AllShaped(q) /\ AllFit(ts) /\ Owed(q, ts, commandQueue)
      /\ v.monitor => MaxPushes = 0
      /\ v.subs # {} => Subscribes
      /\ ready => ModeView(q, v.subs, m)
      /\ ~ready => v.subs = {} /\ \A i \in DOMAIN q : q[i].type # "message"
      /\ ~ready => \A i \in DOMAIN commandQueue : OwnStart(commandQueue[i])
  BY <1>0 DEF OrderlyInv, Fit, PipesFit, LineFits, ModeFits, StartFits, UseFits
<1>4. m \in BOOLEAN
  BY <1>2
<1>5. eof.cmd = Null /\ eof.type = "eof" /\ Shaped(eof)
  BY DEF Push, Shaped
<1> HIDE DEF m, eof
<1>6. SUFFICES /\ AllShaped(q2) /\ AllFit(ts2) /\ Owed(q2, ts2, commandQueue)
               /\ v2.monitor => MaxPushes = 0
               /\ ready => ModeView(q2, v2.subs, m)
               /\ ~ready => v2.subs = {} /\ \A i \in DOMAIN q2 : q2[i].type # "message"
  BY <1>0, <1>1
  DEF OrderlyInv, Fit, PipesFit, TurnFits, StartFits, ReadyFits, LineFits, ModeFits, Open, m
<1>7. ASSUME NEW r \in Reply, ts # <<>>, r.cmd = Head(ts), ts2 = Tail(ts),
             v2 = Executed(v, Head(ts)),
             q2 = Append(q, r) \/ q2 = Append(Append(q, r), eof),
             Shaped(r), r.type # "message",
             r.type = "subscription" /\ v2.subs # {} => ~r.none,
             r.type # "subscription" => v2.subs = v.subs
      PROVE  /\ AllShaped(q2) /\ AllFit(ts2) /\ Owed(q2, ts2, commandQueue)
             /\ v2.monitor => MaxPushes = 0
             /\ ready => ModeView(q2, v2.subs, m)
             /\ ~ready => v2.subs = {} /\ \A i \in DOMAIN q2 : q2[i].type # "message"
  <2> DEFINE c == Head(ts) q1 == Append(q, r)
  <2>1. /\ Fits(c) /\ AllFit(ts2) /\ ts2 \in CommandSeq /\ c \in Command
        /\ \A i \in DOMAIN ts : TRUE
    BY <1>2, <1>3, <1>7, FitQueues, CommandQueues
  <2>2. q1 \in ReplySeq
    BY <1>2, <1>7 DEF ReplySeq
  <2>3. v2.monitor => MaxPushes = 0
    BY <1>2, <1>3, <1>7, <2>1 DEF Executed, ServerState, Fits, AnsweredOnce
  <2>4. ~ready => r.type # "subscription"
    <3>1. 1 \in DOMAIN ts /\ ts[1] = c
      BY <1>2, <1>7 DEF CommandSeq
    <3>2. PICK j \in DOMAIN commandQueue : commandQueue[j] = c
      BY <1>2, <1>3, <3>1, OwedTakes
    <3>3. ~ready => c.kind \in {"auth", "info"}
      BY <1>3, <3>2 DEF OwnStart
    <3> QED BY <1>7, <3>3 DEF Shaped, SubKinds
  <2>5. ~ready => v2.subs = {}
    BY <1>3, <1>7, <2>4
  <2>6. /\ AllShaped(q1) /\ Owed(q1, ts2, commandQueue)
        /\ ready => ModeView(q1, v2.subs, m)
        /\ ~ready => \A i \in DOMAIN q1 : q1[i].type # "message"
    <3> HIDE DEF q, ts, v, q2, ts2, v2
    <3>1. Owed(q1, Tail(ts), commandQueue)
      <4>1. r \in Reply /\ r.cmd = Head(ts) /\ Head(ts) # Null
        BY <1>7, <2>1, NullAssumption
      <4> QED BY <1>2, <1>3, <1>7, <4>1, OwedAnswer
    <3>2. /\ AllShaped(q1)
          /\ \A n \in BOOLEAN : ModeView(q, v.subs, n) => ModeView(q1, v2.subs, n)
          /\ r.type # "message" /\ (\A i \in DOMAIN q : q[i].type # "message")
               => \A i \in DOMAIN q1 : q1[i].type # "message"
      <4>1. r.type # "subscription" /\ v2.subs # {} => v.subs # {}
        BY <1>7
      <4> QED BY <1>2, <1>3, <1>7, <4>1, ReplySent
    <3> QED BY <1>3, <1>4, <1>7, <3>1, <3>2
  <2> HIDE DEF q1, c
  <2>7. CASE q2 = q1
    BY <2>1, <2>3, <2>5, <2>6, <2>7
  <2>8. CASE q2 = Append(q1, eof)
    <3>1. /\ AllShaped(q2)
          /\ ready => ModeView(q2, v2.subs, m)
          /\ ~ready => \A i \in DOMAIN q2 : q2[i].type # "message"
      BY <1>4, <1>5, <2>2, <2>6, <2>8, ReplySent
    <3>2. Owed(q2, ts2, commandQueue)
      BY <1>2, <1>5, <2>1, <2>2, <2>6, <2>8, OwedPush
    <3> QED BY <2>1, <2>3, <2>5, <3>1, <3>2
  <2> QED BY <1>7, <2>7, <2>8 DEF q1
<1>8. ASSUME NEW r, ts2 = ts, v2 = v, q2 = Append(q, r),
             r.cmd = Null, r.type \in {"message", "eof"}, r.type = "message" => v.subs # {}
      PROVE  /\ AllShaped(q2) /\ AllFit(ts2) /\ Owed(q2, ts2, commandQueue)
             /\ v2.monitor => MaxPushes = 0
             /\ ready => ModeView(q2, v2.subs, m)
             /\ ~ready => v2.subs = {} /\ \A i \in DOMAIN q2 : q2[i].type # "message"
  <2>1. Shaped(r) /\ r.type # "subscription"
    BY <1>3, <1>8 DEF Shaped
  <2>2. ~ready => r.type # "message"
    BY <1>3, <1>8
  <2>3. Owed(q2, ts2, commandQueue)
    BY <1>2, <1>3, <1>8, OwedPush
  <2>4. /\ AllShaped(q2)
        /\ ready => ModeView(q2, v2.subs, m)
        /\ ~ready => \A i \in DOMAIN q2 : q2[i].type # "message"
    <3> HIDE DEF q, ts, v, q2, ts2, v2
    <3>1. /\ AllShaped(Append(q, r))
          /\ \A n \in BOOLEAN : ModeView(q, v.subs, n) => ModeView(Append(q, r), v.subs, n)
          /\ r.type # "message" /\ (\A i \in DOMAIN q : q[i].type # "message")
               => \A i \in DOMAIN Append(q, r) : Append(q, r)[i].type # "message"
      <4>1. /\ r.type = "message" => v.subs # {}
            /\ r.type = "subscription" /\ v.subs # {} => ~r.none
            /\ r.type # "subscription" /\ v.subs # {} => v.subs # {}
        BY <1>8, <2>1
      <4>2. q \in ReplySeq /\ AllShaped(q) /\ Shaped(r)
        BY <1>2, <1>3, <2>1
      <4> QED BY ONLY <4>1, <4>2, ReplySent
    <3> QED BY <1>3, <1>4, <1>8, <2>2, <3>1
  <2> QED BY <1>3, <1>8, <2>3, <2>4
<1>9. \A type : Push(type).cmd = Null /\ Push(type).type = type
  BY DEF Push
<1> HIDE DEF q, ts, v, q2, ts2, v2
<1>10. \/ \E r \in Reply :
             /\ ts # <<>> /\ r.cmd = Head(ts) /\ ts2 = Tail(ts)
             /\ v2 = Executed(v, Head(ts))
             /\ q2 = Append(q, r) \/ q2 = Append(Append(q, r), eof)
             /\ Shaped(r) /\ r.type # "message"
             /\ r.type = "subscription" /\ v2.subs # {} => ~r.none
             /\ r.type # "subscription" => v2.subs = v.subs
       \/ /\ ts2 = ts /\ v2 = v
          /\ \E type \in {"message", "eof"} :
               q2 = Append(q, Push(type)) /\ (type = "message" => v.subs # {})
  BY <1>0, ServerMoves DEF q, ts, v, q2, ts2, v2, eof
<1> QED BY <1>7, <1>8, <1>9, <1>10

------------------------------------------------------------------------------
(* The client's steps                                                      *)

\* The client hears that it is connected.
LEMMA ConnectFit ==
  ASSUME OrderlyClient, OrderlyInv, NEW s \in Streams, OnConnect(s)
  PROVE  Fit'
<1>1. s = stream /\ stream' = stream /\ sock[stream] = "connecting"
  BY OnlyStream DEF OnConnect, OrderlyInv, UsableInv, Gone
<1>2. sock'[stream] = "open" /\ UNCHANGED <<toServer, toClient, srv>>
  BY <1>1 DEF OnConnect, SetSock, OrderlyInv, ForeignInv, TypeOK, WireTypeOK
<1>3. toServer[stream] = <<>> /\ toClient[stream] = <<>> /\ srv[stream] = NewConnection
  BY <1>1 DEF OrderlyInv, Fit, PipesFit
<1>4. reactions = <<>> /\ UNCHANGED <<offlineQueue, reactions, checkTimers, authTimers>>
  BY <1>1 DEF OnConnect, timers, OrderlyInv, Fit, TurnFits
<1>5. ~ready' /\ commandQueue' = <<>> /\ task' \in {"doAuth", "onReady", "readyCheck"}
  BY DEF OnConnect, AfterConnect
<1>6. LineFits'
  BY <1>1, <1>2, <1>3, <1>5, OwedNothing DEF LineFits
<1>7. PipesFit' /\ TurnFits'
  BY <1>1, <1>2, <1>3, <1>4, <1>5
  DEF OrderlyInv, Fit, PipesFit, TurnFits, Open, NewConnection, AllFit
<1>8. StartFits' /\ ReadyFits' /\ ModeFits'
  <2>1. Len(commandQueue') <= 1 /\ Len(reactions') <= 1
    BY <1>4, <1>5
  <2> QED BY <1>1, <1>2, <1>3, <1>5, <2>1 DEF StartFits, ReadyFits, ModeFits, NewConnection
<1> QED BY <1>6, <1>7, <1>8 DEF Fit

\* The reaction a promise of the command c may have.
Settles(run, c) ==
  /\ Fits(c)
  /\ run \in {"onReady", "authDone"} => OwnStart(c)
  /\ run = "selectResolved" => c.kind = "select"
  /\ run = "resetPubSub" => OwnSelect(c)

\* What the handlers of a promise do about the command c.
Outcome(rs, new, c) ==
  \/ new = rs
  \/ \E run \in {"onReady", "authDone", "selectResolved", "resetPubSub"} :
       new = Append(rs, [run |-> run, cmd |-> c]) /\ Settles(run, c)

\* It is one reaction more at most.
LEMMA OutcomeFits ==
  ASSUME NEW rs \in ReactionSeq, NEW new, NEW c, Outcome(rs, new, c)
  PROVE  /\ (\A i \in DOMAIN rs : Sane(rs[i])) => \A i \in DOMAIN new : Sane(new[i])
         /\ ~OwnStart(c) /\ (\A i \in DOMAIN rs : rs[i].run \notin {"onReady", "authDone"})
              => \A i \in DOMAIN new : new[i].run \notin {"onReady", "authDone"}
         /\ rs = <<>> => Len(new) <= 1
<1>1. CASE new = rs
  BY <1>1
<1>2. ASSUME NEW run \in {"onReady", "authDone", "selectResolved", "resetPubSub"},
             new = Append(rs, [run |-> run, cmd |-> c]),
             Settles(run, c)
      PROVE  /\ (\A i \in DOMAIN rs : Sane(rs[i])) => \A i \in DOMAIN new : Sane(new[i])
             /\ ~OwnStart(c) /\ (\A i \in DOMAIN rs : rs[i].run \notin {"onReady", "authDone"})
                  => \A i \in DOMAIN new : new[i].run \notin {"onReady", "authDone"}
             /\ rs = <<>> => Len(new) <= 1
  <2> DEFINE x == [run |-> run, cmd |-> c]
  <2>1. Sane(x) /\ x.run = run /\ x.cmd = c
    BY <1>2 DEF Settles, Sane
  <2> HIDE DEF x
  <2>2. \A i \in DOMAIN new : (i \in DOMAIN rs /\ new[i] = rs[i]) \/ new[i] = x
    BY <1>2, Places DEF ReactionSeq, x
  <2>3. ~OwnStart(c) => run \notin {"onReady", "authDone"}
    BY <1>2 DEF Settles
  <2>4. rs = <<>> => Len(new) <= 1
    BY <1>2
  <2> QED BY <2>1, <2>2, <2>3, <2>4
<1> QED BY <1>1, <1>2 DEF Outcome

\* A reply or the loss of the connection settles a promise.
LEMMA Outcomes ==
  ASSUME NEW rs \in ReactionSeq, NEW c, Fits(c)
  PROVE  /\ Outcome(rs, rs \o RejectReactions(c), c)
         /\ \A r : r.type # "loading" => Outcome(rs, rs \o ResolveReactions(c, r), c)
         /\ \A r : r.type # "stillLoading" => Outcome(rs, rs \o ErrorReactions(c, r), c)
<1>0. rs \o <<>> = rs /\ \A x : rs \o <<x>> = Append(rs, x)
  BY DEF ReactionSeq
<1>1. Outcome(rs, rs \o RejectReactions(c), c)
  <2>1. CASE OwnSelect(c)
    <3>1. RejectReactions(c) = <<[run |-> "resetPubSub", cmd |-> c]>>
      BY <2>1 DEF RejectReactions, OwnSelect
    <3>2. Settles("resetPubSub", c)
      BY <2>1 DEF Settles
    <3> QED BY <1>0, <3>1, <3>2 DEF Outcome
  <2>2. CASE ~OwnSelect(c)
    <3>1. RejectReactions(c) = <<>>
      BY <2>2 DEF RejectReactions, OwnSelect
    <3> QED BY <1>0, <3>1 DEF Outcome
  <2> QED BY <2>1, <2>2
<1>2. ASSUME NEW run \in {"onReady", "authDone", "selectResolved", "resetPubSub"},
             Settles(run, c), NEW os, os = <<[run |-> run, cmd |-> c]>>
      PROVE  Outcome(rs, rs \o os, c)
  BY <1>0, <1>2 DEF Outcome
<1>3. Outcome(rs, rs \o <<>>, c)
  BY <1>0 DEF Outcome
<1>4. ASSUME NEW r, r.type # "loading"
      PROVE  Outcome(rs, rs \o ResolveReactions(c, r), c)
  <2>1. CASE c.kind = "select"
    <3>1. ResolveReactions(c, r) = <<[run |-> "selectResolved", cmd |-> c]>>
      BY <2>1 DEF ResolveReactions
    <3>2. Settles("selectResolved", c)
      BY <2>1 DEF Settles
    <3> QED BY <1>2, <3>1, <3>2
  <2>2. CASE c.kind = "info" /\ c.id = 0
    <3>1. ResolveReactions(c, r) = <<[run |-> "onReady", cmd |-> c]>>
      BY <1>4, <2>2 DEF ResolveReactions
    <3>2. Settles("onReady", c)
      BY <2>2 DEF Settles, OwnStart
    <3> QED BY <1>2, <3>1, <3>2
  <2>3. CASE c.kind = "auth" /\ c.id = 0
    <3>1. ResolveReactions(c, r) = <<[run |-> "authDone", cmd |-> c]>>
      BY <2>3 DEF ResolveReactions
    <3>2. Settles("authDone", c)
      BY <2>3 DEF Settles, OwnStart
    <3> QED BY <1>2, <3>1, <3>2
  <2>4. CASE c.kind # "select" /\ ~(c.kind \in {"auth", "info"} /\ c.id = 0)
    <3>1. ResolveReactions(c, r) = <<>>
      BY <2>4 DEF ResolveReactions
    <3> QED BY <1>3, <3>1
  <2> QED BY <2>1, <2>2, <2>3, <2>4
<1>5. ASSUME NEW r, r.type # "stillLoading"
      PROVE  Outcome(rs, rs \o ErrorReactions(c, r), c)
  <2>1. CASE c.id = 0 /\ c.kind = "auth" /\ r.type = "noPassSet"
    <3>1. ErrorReactions(c, r) = <<[run |-> "authDone", cmd |-> c]>>
      BY <2>1 DEF ErrorReactions
    <3>2. Settles("authDone", c)
      BY <2>1 DEF Settles, OwnStart
    <3> QED BY <1>2, <3>1, <3>2
  <2>2. CASE ~(c.id = 0 /\ c.kind = "auth" /\ r.type = "noPassSet")
    <3>1. ErrorReactions(c, r) = RejectReactions(c)
      BY <1>5, <2>2 DEF ErrorReactions
    <3> QED BY <1>1, <3>1
  <2> QED BY <2>1, <2>2
<1> QED BY <1>1, <1>4, <1>5

\* Of the two queues together, the last command is the last of one of them.
LEMMA LastOfBoth ==
  ASSUME NEW oq \in CommandSeq, NEW cq \in CommandSeq, oq \o cq # <<>>
  PROVE  \/ cq # <<>> /\ Last(oq \o cq) = Last(cq)
         \/ oq # <<>> /\ Last(oq \o cq) = Last(oq)
<1>1. /\ Len(oq \o cq) = Len(oq) + Len(cq) /\ Len(oq) \in Nat /\ Len(cq) \in Nat
      /\ \A i \in 1..Len(oq) : (oq \o cq)[i] = oq[i]
      /\ \A i \in 1..Len(cq) : (oq \o cq)[Len(oq) + i] = cq[i]
  BY DEF CommandSeq
<1>2. CASE cq # <<>>
  <2>1. Len(cq) \in 1..Len(cq)
    BY <1>1, <1>2 DEF CommandSeq
  <2>2. (oq \o cq)[Len(oq) + Len(cq)] = cq[Len(cq)]
    BY <1>1, <2>1
  <2>3. Last(oq \o cq) = cq[Len(cq)] /\ Last(cq) = cq[Len(cq)]
    BY <1>1, <2>2 DEF Last
  <2> QED BY <1>2, <2>3
<1>3. CASE cq = <<>>
  <2>1. oq \o cq = oq
    BY <1>3 DEF CommandSeq
  <2> QED BY <2>1
<1> QED BY <1>2, <1>3

\* The connection is lost: at most one reaction is added.
LEMMA LostFit ==
  ASSUME OrderlyClient, OrderlyInv,
         UNCHANGED <<stream, srv, checkTimers, authTimers>>, task' = "idle",
         sock'[stream] \notin Alive,
         toServer'[stream] \in {<<>>, toServer[stream]},
         toClient'[stream] \in {<<>>, toClient[stream]},
         offlineQueue' \in {<<>>, offlineQueue}, commandQueue' \in {<<>>, commandQueue},
         NEW c, Outcome(reactions, reactions', c)
  PROVE  Fit'
<1>1. PipesFit'
  BY FitQueues, CommandQueues DEF OrderlyInv, Fit, PipesFit, Alive, AllFit, AllShaped, KeptFit
<1>2. TurnFits'
  <2>1. reactions \in ReactionSeq
    BY DEF OrderlyInv, ForeignInv, TypeOK
  <2> QED BY <2>1, OutcomeFits DEF OrderlyInv, Fit, TurnFits, Alive
<1> QED BY <1>1, <1>2 DEF Fit, StartFits, ReadyFits, LineFits, ModeFits, Open, Alive

\* goDown: everything in the queues is rejected.
LEMMA DownOutcome ==
  ASSUME OrderlyInv, GoDown
  PROVE  /\ offlineQueue' = <<>> /\ commandQueue' = <<>>
         /\ \E c : Outcome(reactions, reactions', c)
<1> DEFINE all == offlineQueue \o commandQueue
<1>1. offlineQueue' = <<>> /\ commandQueue' = <<>>
  BY DEF GoDown, FlushAndError
<1>2. CASE all = <<>>
  <2>1. reactions' = reactions
    BY <1>2 DEF GoDown, FlushAndError
  <2>2. Outcome(reactions, reactions', Null)
    BY <2>1 DEF Outcome
  <2> QED BY <1>1, <2>2
<1>3. CASE all # <<>>
  <2>1. reactions' = reactions \o RejectReactions(Last(all))
    BY <1>3 DEF GoDown, FlushAndError
  <2>2. /\ offlineQueue \in CommandSeq /\ commandQueue \in CommandSeq
        /\ AllFit(offlineQueue) /\ AllFit(commandQueue) /\ reactions \in ReactionSeq
    BY DEF OrderlyInv, ForeignInv, TypeOK, Fit, PipesFit, KeptFit
  <2>3. Fits(Last(all))
    BY <1>3, <2>2, LastOfBoth, FitQueues
  <2>4. Outcome(reactions, reactions', Last(all))
    BY <2>1, <2>2, <2>3, Outcomes
  <2> QED BY <1>1, <2>4
<1> QED BY <1>2, <1>3

\* 'end', 'close' and 'error'.
LEMMA LossFit ==
  ASSUME OrderlyClient, OrderlyInv, NEW s \in Streams, OnEnd(s) \/ OnClose(s) \/ OnError(s)
  PROVE  Fit'
<1>1. s = stream
  BY OnlyStream DEF OnEnd, OnClose, OnError, Writable, OrderlyInv, UsableInv, Gone
<1>2. task = "idle" /\ stream' = stream
  BY DEF OnEnd, OnClose, OnError, ConnectionGone, LossTurn, IOTurn, Idle, connection
<1>3. UNCHANGED <<srv, checkTimers, authTimers, task>>
  BY DEF OnEnd, OnClose, OnError, Drop, SetSock, ConnectionGone, timers, turn
<1>4. /\ sock'[stream] \notin Alive
      /\ toServer'[stream] \in {<<>>, toServer[stream]}
      /\ toClient'[stream] \in {<<>>, toClient[stream]}
  BY <1>1 DEF OnEnd, OnClose, OnError, Drop, SetSock, Alive, OrderlyInv, ForeignInv, TypeOK,
    WireTypeOK
<1>5. UNCHANGED <<offlineQueue, commandQueue, reactions>> \/ GoDown
  BY DEF OnEnd, OnClose, OnError, ConnectionGone, commands, turn
<1>6. /\ offlineQueue' \in {<<>>, offlineQueue} /\ commandQueue' \in {<<>>, commandQueue}
      /\ \E c : Outcome(reactions, reactions', c)
  BY <1>5, DownOutcome DEF Outcome
<1>7. PICK c : Outcome(reactions, reactions', c)
  BY <1>6
<1> QED BY <1>2, <1>3, <1>4, <1>6, <1>7, LostFit

\* end().
LEMMA EndFit ==
  ASSUME OrderlyClient, OrderlyInv, End
  PROVE  Fit'
<1>1. task = "idle" /\ stream' = stream
  BY DEF End, Idle
<1>2. UNCHANGED <<srv, checkTimers, authTimers, task, offlineQueue, commandQueue, reactions>>
  BY DEF End, Drop, timers, turn, commands
<1>3. sock'[stream] \notin Alive /\ toServer'[stream] = <<>> /\ toClient'[stream] = <<>>
  BY DEF End, Drop, Alive, OrderlyInv, ForeignInv, TypeOK, WireTypeOK
<1>4. Outcome(reactions, reactions', Null)
  BY <1>2 DEF Outcome
<1> QED BY <1>1, <1>2, <1>3, <1>4, LostFit

\* A new stream.
LEMMA RetryFit ==
  ASSUME OrderlyClient, OrderlyInv, RetryConnection
  PROVE  Fit'
<1>1. /\ stream \in Nat /\ stream + 1 \in Streams /\ stream' = stream + 1
      /\ sock \in [Streams -> SockStates]
  BY WireAssumption DEF RetryConnection, OrderlyInv, ForeignInv, TypeOK, WireTypeOK, Streams
<1>2. sock'[stream'] = "connecting" /\ UNCHANGED <<toServer, toClient, srv>>
  BY <1>1 DEF RetryConnection, SetSock
<1>3. Unused(stream')
  BY <1>1 DEF OrderlyInv, ForeignInv, FutureUnused
<1>4. /\ UNCHANGED <<offlineQueue, commandQueue, reactions, checkTimers, authTimers, task>>
      /\ task = "idle" /\ reactions = <<>>
  BY DEF RetryConnection, TimerTurn, Idle, commands, timers, turn
<1>5. PipesFit'
  BY <1>2, <1>3, <1>4
  DEF OrderlyInv, Fit, PipesFit, Unused, NewConnection, AllFit, AllShaped
<1>6. TurnFits'
  BY <1>4 DEF OrderlyInv, Fit, TurnFits
<1> QED BY <1>2, <1>5, <1>6 DEF Fit, StartFits, ReadyFits, LineFits, ModeFits, Open

\* A reply that tells the client of a new database.
SelectOk(r) == r.cmd # Null /\ r.cmd.kind = "select" /\ r.type = "ok"

\* The client hears a reply to its first command: what it does about it.
LEMMA ReplyHeard ==
  ASSUME OrderlyClient, OrderlyInv, NEW s \in Streams, OnData(s),
         NEW r, r = Head(toClient[stream]), Head(toClient[s]).cmd # Null
  PROVE  /\ commandQueue # <<>> /\ Head(commandQueue) = r.cmd
         /\ commandQueue' = Tail(commandQueue)
         /\ Outcome(reactions, reactions', r.cmd)
         /\ r.type = "subscription" =>
              modes' = [modes EXCEPT !.pubSubMode = ~r.none] /\ r.cmd.kind \in SubKinds
         /\ r.type # "subscription" => modes' = modes
         /\ SelectOk(r) =>
              reactions' = Append(reactions, [run |-> "selectResolved", cmd |-> r.cmd])
         /\ ~SelectOk(r) =>
              \/ reactions' = reactions
              \/ \E x : reactions' = Append(reactions, x) /\ x.run # "selectResolved"
<1> DEFINE q == toClient[stream] c == Head(commandQueue)
<1>1. s = stream /\ Open /\ toClient[s] # <<>> /\ reactions \in ReactionSeq
  BY OnlyStream DEF OnData, OrderlyInv, UsableInv, Gone, Open, ForeignInv, TypeOK
<1>2. /\ q \in ReplySeq /\ commandQueue \in CommandSeq /\ toServer[stream] \in CommandSeq
      /\ modes \in Modes
  BY <1>1 DEF OnData, OrderlyInv, ForeignInv, TypeOK, WireTypeOK
<1>3. AllShaped(q) /\ Owed(q, toServer[stream], commandQueue) /\ r.cmd # Null
  BY <1>1 DEF OrderlyInv, Fit, PipesFit, LineFits
<1>4. commandQueue # <<>> /\ c = r.cmd
  BY <1>1, <1>2, <1>3, OwedDelivery
<1>5. Shaped(r)
  BY <1>1, <1>2, <1>3, ShapedQueues
<1>6. Fits(c)
  BY <1>3, <1>4, <1>5 DEF Shaped
<1> HIDE DEF c
<1>7. \A x : reactions \o <<x>> = Append(reactions, x)
  BY <1>1 DEF ReactionSeq
<1>8. Outcome(reactions, reactions', c) /\ c.kind # "select" =>
        \/ reactions' = reactions
        \/ \E x : reactions' = Append(reactions, x) /\ x.run # "selectResolved"
  <2> SUFFICES ASSUME Outcome(reactions, reactions', c), c.kind # "select",
                      reactions' # reactions
               PROVE  \E x : reactions' = Append(reactions, x) /\ x.run # "selectResolved"
    OBVIOUS
  <2>1. PICK run \in {"onReady", "authDone", "selectResolved", "resetPubSub"} :
          reactions' = Append(reactions, [run |-> run, cmd |-> c]) /\ Settles(run, c)
    BY DEF Outcome
  <2>2. run # "selectResolved"
    BY <2>1 DEF Settles
  <2>3. [run |-> run, cmd |-> c].run # "selectResolved"
    BY <2>2
  <2> QED BY <2>1, <2>3
<1>9. CASE r.type \in ErrorTypes
  <2>1. /\ commandQueue' = Tail(commandQueue) /\ modes' = modes
        /\ reactions' = reactions \o ErrorReactions(c, r)
    BY <1>1, <1>4, <1>9 DEF OnData, ReturnError, c
  <2>2. r.type \in {"error", "noPassSet"}
    BY <1>3, <1>5, <1>9 DEF Shaped, ErrorTypes
  <2>3. Outcome(reactions, reactions', c)
    BY <1>1, <1>6, <2>1, <2>2, Outcomes
  <2>4. \/ reactions' = reactions
        \/ \E x : reactions' = Append(reactions, x) /\ x.run # "selectResolved"
    <3>1. CASE c.kind = "select" /\ c.id = 0
      <4>1. ErrorReactions(c, r) = <<[run |-> "resetPubSub", cmd |-> c]>>
        BY <2>2, <3>1 DEF ErrorReactions, RejectReactions
      <4>2. [run |-> "resetPubSub", cmd |-> c].run # "selectResolved"
        OBVIOUS
      <4> QED BY <1>7, <2>1, <4>1, <4>2
    <3>2. CASE c.kind = "select" /\ c.id # 0
      <4>1. ErrorReactions(c, r) = <<>>
        BY <2>2, <3>2 DEF ErrorReactions, RejectReactions
      <4> QED BY <1>1, <2>1, <4>1 DEF ReactionSeq
    <3> QED BY <1>8, <2>3, <3>1, <3>2
  <2>5. ~SelectOk(r) /\ r.type # "subscription"
    BY <2>2 DEF SelectOk
  <2> QED BY <1>4, <2>1, <2>3, <2>4, <2>5 DEF c
<1>10. CASE r.type \notin ErrorTypes
  <2>1. r.type \in {"ok", "subscription"} /\ (r.type = "subscription" => c.kind \in SubKinds)
    BY <1>3, <1>4, <1>5, <1>10 DEF Shaped, ErrorTypes
  <2>2. ReturnReply(r) /\ Pops(r)
    BY <1>1, <1>10, <2>1 DEF OnData, Pops
  <2>3. /\ commandQueue' = Tail(commandQueue)
        /\ reactions' = IF Verdict(c, r) = "resolved" THEN reactions \o ResolveReactions(c, r)
                        ELSE reactions
    BY <1>1, <1>4, <2>2 DEF ReturnReply, c
  <2>4. Outcome(reactions, reactions', c)
    <3>1. Outcome(reactions, reactions \o ResolveReactions(c, r), c)
      <4>1. r.type # "loading"
        BY <2>1
      <4> QED BY <1>1, <1>6, <4>1, Outcomes
    <3>2. Outcome(reactions, reactions, c)
      BY DEF Outcome
    <3> QED BY <2>3, <3>1, <3>2
  <2>5. modes' = IF r.type = "subscription" THEN [modes EXCEPT !.pubSubMode = ~r.none]
                 ELSE modes
    BY <1>4, <2>1, <2>2 DEF ReturnReply, ModeFromReply, IsSub, c
  <2>6. CASE c.kind = "select"
    <3>1. r.type = "ok" /\ SelectOk(r)
      BY <1>3, <1>4, <2>1, <2>6 DEF SubKinds, SelectOk
    <3>2. reactions' = reactions \o <<[run |-> "selectResolved", cmd |-> c]>>
      BY <2>3, <2>6 DEF Verdict, IsSub, SubKinds, ResolveReactions
    <3>3. reactions' = Append(reactions, [run |-> "selectResolved", cmd |-> c])
      BY <1>7, <3>2
    <3> QED BY <1>4, <2>1, <2>3, <2>4, <2>5, <3>1, <3>3 DEF c
  <2>7. CASE c.kind # "select"
    <3>1. ~SelectOk(r)
      BY <1>4, <2>7 DEF SelectOk
    <3>2. \/ reactions' = reactions
          \/ \E x : reactions' = Append(reactions, x) /\ x.run # "selectResolved"
      BY <1>8, <2>4, <2>7
    <3> QED BY <1>4, <2>1, <2>3, <2>4, <2>5, <3>1, <3>2 DEF c
  <2> QED BY <2>6, <2>7
<1> QED BY <1>9, <1>10

\* It is still owed the others.
LEMMA ReplyFit ==
  ASSUME OrderlyClient, OrderlyInv, NEW s \in Streams, OnData(s),
         Head(toClient[s]).cmd # Null
  PROVE  Fit'
<1> DEFINE q == toClient[stream] r == Head(q) c == Head(commandQueue) cq2 == Tail(commandQueue)
           m == modes.pubSubMode
<1>1. s = stream /\ Open /\ toClient[s] # <<>>
  BY OnlyStream DEF OnData, OrderlyInv, UsableInv, Gone, Open
<1>2. task = "idle" /\ reactions \in ReactionSeq
  BY DEF OnData, IOTurn, Idle, OrderlyInv, ForeignInv, TypeOK
<1>3. UNCHANGED <<stream, sock, toServer, srv, ready, offlineQueue, checkTimers, authTimers, task>>
  BY DEF OnData, connection, timers
<1>4. /\ q \in ReplySeq /\ q # <<>> /\ commandQueue \in CommandSeq
      /\ toServer[stream] \in CommandSeq /\ modes.pubSubMode \in BOOLEAN /\ modes \in Modes
      /\ toClient'[stream] = Tail(q)
  BY <1>1 DEF OnData, OrderlyInv, ForeignInv, TypeOK, WireTypeOK, Modes
<1>5. /\ AllShaped(q) /\ Owed(q, toServer[stream], commandQueue) /\ r.cmd # Null
      /\ ready => ModeView(q, srv[stream].subs, m)
  BY <1>1 DEF OrderlyInv, Fit, PipesFit, LineFits, ModeFits
<1>6. /\ commandQueue # <<>> /\ c = r.cmd
      /\ Owed(Tail(q), toServer[stream], cq2)
  BY <1>4, <1>5, OwedDelivery
<1>7. Shaped(r) /\ AllShaped(Tail(q))
  BY <1>4, <1>5, ShapedQueues
<1>8. /\ commandQueue[1] = c /\ 1 \in DOMAIN commandQueue
      /\ \A i \in DOMAIN cq2 : i + 1 \in DOMAIN commandQueue /\ cq2[i] = commandQueue[i + 1]
                               /\ i \in Nat \ {0}
      /\ Len(cq2) = Len(commandQueue) - 1 /\ Len(commandQueue) \in Nat
      /\ Len(cq2) = 0 => cq2 = <<>>
  BY <1>4, <1>6, Places DEF CommandSeq
<1>9. /\ commandQueue' = cq2 /\ Outcome(reactions, reactions', c)
      /\ r.type = "subscription" => modes'.pubSubMode = ~r.none
      /\ r.type # "subscription" => modes' = modes
  BY <1>1, <1>4, <1>5, ReplyHeard DEF Modes
<1>10. ready => /\ \A i \in DOMAIN commandQueue :
                     ~OwnStart(commandQueue[i]) /\ (OwnSelect(commandQueue[i]) => i = 1)
                /\ ~OwnStart(c)
  BY <1>1, <1>8 DEF OrderlyInv, Fit, ReadyFits
<1>11. ready => \A i \in DOMAIN cq2 : ~OwnStart(cq2[i]) /\ ~OwnSelect(cq2[i])
  <2> SUFFICES ASSUME ready, NEW i \in DOMAIN cq2 PROVE ~OwnStart(cq2[i]) /\ ~OwnSelect(cq2[i])
    OBVIOUS
  <2>1. i + 1 # 1
    BY <1>8
  <2> QED BY <1>8, <1>10, <2>1
<1>12. ~ready => cq2 = <<>> /\ reactions = <<>>
  <2>1. ~ready => Len(commandQueue) <= 1 /\ (commandQueue # <<>> => reactions = <<>>)
    BY <1>1 DEF OrderlyInv, Fit, StartFits
  <2> QED BY <1>6, <1>8, <2>1
<1>13. ready => ModeView(Tail(q), srv[stream].subs, modes'.pubSubMode)
  <2> SUFFICES ASSUME ready PROVE ModeView(Tail(q), srv[stream].subs, modes'.pubSubMode)
    OBVIOUS
  <2>0. m \in BOOLEAN
    BY <1>4
  <2>1. CASE r.type = "subscription"
    <3> HIDE DEF m
    <3>1. ModeView(Tail(q), srv[stream].subs, ~r.none)
      BY <1>4, <1>5, <2>0, <2>1, ModeTail
    <3> QED BY <1>9, <2>1, <3>1
  <2>2. CASE r.type # "subscription"
    <3>1. modes'.pubSubMode = m
      BY <1>9, <2>2
    <3> HIDE DEF m
    <3>2. ModeView(Tail(q), srv[stream].subs, m)
      BY <1>4, <1>5, <2>0, <2>2, ModeTail
    <3> QED BY <3>1, <3>2
  <2> QED BY <2>1, <2>2
<1>14. PipesFit'
  <2>1. AllFit(cq2)
    BY <1>4, <1>6, FitQueues DEF OrderlyInv, Fit, PipesFit
  <2> QED BY <1>3, <1>4, <1>7, <1>9, <2>1 DEF OrderlyInv, Fit, PipesFit
<1>15. TurnFits'
  BY <1>1, <1>2, <1>3, <1>9, OutcomeFits DEF OrderlyInv, Fit, TurnFits, Open
<1>16. StartFits'
  <2>1. \A i \in DOMAIN Tail(q) : \E j \in DOMAIN q : Tail(q)[i] = q[j]
    BY <1>4, Places DEF ReplySeq
  <2>2. Len(<<>>) <= 1 /\ DOMAIN <<>> = {}
    OBVIOUS
  <2>3. ~ready => Len(reactions') <= 1
    BY <1>2, <1>9, <1>12, OutcomeFits
  <2> QED
    BY <1>3, <1>4, <1>9, <1>12, <2>1, <2>2, <2>3 DEF OrderlyInv, Fit, StartFits, Open
<1>17. ReadyFits'
  <2>1. ready => \A i \in DOMAIN reactions' : reactions'[i].run \notin {"onReady", "authDone"}
    <3>1. ready => \A i \in DOMAIN reactions : reactions[i].run \notin {"onReady", "authDone"}
      BY <1>1 DEF OrderlyInv, Fit, ReadyFits
    <3> QED BY <1>2, <1>9, <1>10, <3>1, OutcomeFits
  <2> QED BY <1>3, <1>9, <1>11, <2>1 DEF ReadyFits
<1>18. LineFits' /\ ModeFits'
  BY <1>3, <1>4, <1>6, <1>9, <1>13 DEF LineFits, ModeFits
<1> QED BY <1>14, <1>15, <1>16, <1>17, <1>18 DEF Fit

\* The client hears a message.
LEMMA MessageHeard ==
  ASSUME OrderlyClient, OrderlyInv, NEW s \in Streams, OnData(s),
         Head(toClient[s]).cmd = Null
  PROVE  ready /\ modes.pubSubMode /\ UNCHANGED <<commandQueue, reactions, modes>>
<1> DEFINE q == toClient[stream] r == Head(q) m == modes.pubSubMode
<1>1. s = stream /\ Open /\ toClient[s] # <<>>
  BY OnlyStream DEF OnData, OrderlyInv, UsableInv, Gone, Open
<1>4. /\ q \in ReplySeq /\ q # <<>> /\ modes.pubSubMode \in BOOLEAN
  BY <1>1 DEF OnData, OrderlyInv, ForeignInv, TypeOK, WireTypeOK, Modes
<1>5. /\ AllShaped(q) /\ r.cmd = Null
      /\ ready => ModeView(q, srv[stream].subs, m)
  BY <1>1 DEF OrderlyInv, Fit, PipesFit, LineFits, ModeFits
<1>6. Shaped(r)
  BY <1>4, <1>5, ShapedQueues
<1>7. r.type = "message"
  BY <1>1, <1>5, <1>6 DEF Shaped, OnData
<1>8. ready
  <2>1. 1 \in DOMAIN q /\ r = q[1]
    BY <1>4, Places DEF ReplySeq
  <2> QED BY <1>1, <1>7, <2>1 DEF OrderlyInv, Fit, StartFits
<1>9. modes.pubSubMode
  <2>1. m \in BOOLEAN
    BY <1>4
  <2> HIDE DEF m
  <2>2. m
    BY <1>4, <1>5, <1>7, <1>8, <2>1, ModeTail
  <2> QED BY <2>2 DEF m
<1>10. UNCHANGED <<commandQueue, reactions, modes>>
  <2>1. r.type \notin ErrorTypes /\ r.type # "subscription"
    BY <1>7 DEF ErrorTypes
  <2>2. ReturnReply(r)
    BY <1>1, <2>1 DEF OnData
  <2> QED BY <1>7, <1>9, <2>1, <2>2 DEF ReturnReply, Pops, ModeFromReply
<1> QED BY <1>8, <1>9, <1>10

\* Nothing else changes.
LEMMA MessageFit ==
  ASSUME OrderlyClient, OrderlyInv, NEW s \in Streams, OnData(s),
         Head(toClient[s]).cmd = Null
  PROVE  Fit'
<1> DEFINE q == toClient[stream] r == Head(q) m == modes.pubSubMode
<1>1. s = stream /\ Open /\ toClient[s] # <<>>
  BY OnlyStream DEF OnData, OrderlyInv, UsableInv, Gone, Open
<1>2. task = "idle"
  BY DEF OnData, IOTurn, Idle
<1>3. UNCHANGED <<stream, sock, toServer, srv, ready, offlineQueue, checkTimers, authTimers, task>>
  BY DEF OnData, connection, timers
<1>4. /\ q \in ReplySeq /\ q # <<>> /\ commandQueue \in CommandSeq
      /\ toServer[stream] \in CommandSeq /\ modes.pubSubMode \in BOOLEAN
      /\ toClient'[stream] = Tail(q)
  BY <1>1 DEF OnData, OrderlyInv, ForeignInv, TypeOK, WireTypeOK, Modes
<1>5. /\ AllShaped(q) /\ Owed(q, toServer[stream], commandQueue) /\ r.cmd = Null
      /\ ready => ModeView(q, srv[stream].subs, m)
  BY <1>1 DEF OrderlyInv, Fit, PipesFit, LineFits, ModeFits
<1>6. Shaped(r) /\ AllShaped(Tail(q)) /\ Owed(Tail(q), toServer[stream], commandQueue)
  BY <1>4, <1>5, ShapedQueues, OwedUnasked
<1>7. ready /\ modes.pubSubMode /\ UNCHANGED <<commandQueue, reactions, modes>>
  BY <1>1, MessageHeard
<1>8. r.type = "message"
  BY <1>1, <1>5, <1>6 DEF Shaped, OnData
<1>9. ModeView(Tail(q), srv[stream].subs, m)
  <2>1. m \in BOOLEAN /\ ModeView(q, srv[stream].subs, m)
    BY <1>4, <1>5, <1>7
  <2> HIDE DEF m
  <2> QED BY <1>4, <1>8, <2>1, ModeTail
<1>10. PipesFit' /\ TurnFits'
  BY <1>1, <1>3, <1>4, <1>6, <1>7 DEF OrderlyInv, Fit, PipesFit, TurnFits, Open
<1>11. StartFits' /\ ReadyFits'
  BY <1>3, <1>7 DEF OrderlyInv, Fit, StartFits, ReadyFits, Open
<1>12. LineFits' /\ ModeFits'
  BY <1>3, <1>4, <1>6, <1>7, <1>9 DEF LineFits, ModeFits
<1> QED BY <1>10, <1>11, <1>12 DEF Fit

\* The first reaction is taken off the queue.
LEMMA ReactionTaken ==
  ASSUME OrderlyInv, RunReaction, NEW r, r = Head(reactions)
  PROVE  /\ reactions # <<>> /\ reactions \in ReactionSeq /\ Tail(reactions) \in ReactionSeq
         /\ r = reactions[1] /\ 1 \in DOMAIN reactions /\ Sane(r) /\ r \in Reaction
         /\ \A i \in DOMAIN Tail(reactions) :
              i + 1 \in DOMAIN reactions /\ Tail(reactions)[i] = reactions[i + 1]
         /\ Len(reactions) <= 1 => Tail(reactions) = <<>>
         /\ Outcome(Tail(reactions), reactions', r.cmd)
         /\ r.run # "selectResolved" => reactions' = Tail(reactions)
         /\ \/ reactions' = Tail(reactions)
            \/ \E x : reactions' = Append(Tail(reactions), x) /\ x.run # "selectResolved"
<1>1. reactions # <<>> /\ reactions \in ReactionSeq
  BY DEF RunReaction, OrderlyInv, ForeignInv, TypeOK
<1>2. /\ 1 \in DOMAIN reactions /\ r = reactions[1]
      /\ \A i \in DOMAIN Tail(reactions) :
           i + 1 \in DOMAIN reactions /\ Tail(reactions)[i] = reactions[i + 1]
      /\ Tail(reactions) \in ReactionSeq
      /\ Len(reactions) <= 1 => Tail(reactions) = <<>>
  BY <1>1 DEF ReactionSeq
<1>3. r \in Reaction
  BY <1>1, ReactionQueues
<1>4. Sane(r) /\ Fits(r.cmd)
  BY <1>2 DEF OrderlyInv, Fit, TurnFits, Sane
<1>5. reactions' = Tail(reactions) \o
        (IF r.run = "selectResolved" THEN RejectReactions(r.cmd) ELSE <<>>)
  BY DEF RunReaction
<1>6. CASE r.run = "selectResolved"
  <2>1. Outcome(Tail(reactions), Tail(reactions) \o RejectReactions(r.cmd), r.cmd)
    BY <1>2, <1>4, Outcomes
  <2>2. \/ reactions' = Tail(reactions)
        \/ \E x : reactions' = Append(Tail(reactions), x) /\ x.run # "selectResolved"
    <3>1. CASE RejectReactions(r.cmd) = <<>>
      BY <1>2, <1>5, <1>6, <3>1 DEF ReactionSeq
    <3>2. CASE RejectReactions(r.cmd) = <<[run |-> "resetPubSub", cmd |-> r.cmd]>>
      <4>1. reactions' = Append(Tail(reactions), [run |-> "resetPubSub", cmd |-> r.cmd])
        BY <1>2, <1>5, <1>6, <3>2 DEF ReactionSeq
      <4>2. [run |-> "resetPubSub", cmd |-> r.cmd].run # "selectResolved"
        OBVIOUS
      <4> QED BY <4>1, <4>2
    <3> QED BY <3>1, <3>2 DEF RejectReactions
  <2> QED BY <1>1, <1>2, <1>3, <1>4, <1>5, <1>6, <2>1, <2>2
<1>7. CASE r.run # "selectResolved"
  <2>1. reactions' = Tail(reactions)
    BY <1>2, <1>5, <1>7 DEF ReactionSeq
  <2>2. Outcome(Tail(reactions), reactions', r.cmd)
    BY <2>1 DEF Outcome
  <2> QED BY <1>1, <1>2, <1>3, <1>4, <2>1, <2>2
<1> QED BY <1>6, <1>7

\* A reaction runs.
LEMMA ReactionFit ==
  ASSUME OrderlyClient, OrderlyInv, RunReaction
  PROVE  Fit'
<1> DEFINE r == Head(reactions) rest == Tail(reactions)
<1>1. /\ reactions # <<>> /\ reactions \in ReactionSeq /\ rest \in ReactionSeq
      /\ r = reactions[1] /\ 1 \in DOMAIN reactions /\ Sane(r) /\ r \in Reaction
      /\ \A i \in DOMAIN rest : i + 1 \in DOMAIN reactions /\ rest[i] = reactions[i + 1]
      /\ Len(reactions) <= 1 => rest = <<>>
      /\ Outcome(rest, reactions', r.cmd)
      /\ r.run # "selectResolved" => reactions' = rest
  BY ReactionTaken
<1>2. task = "idle" /\ sock[stream] # "connecting"
  BY <1>1 DEF RunReaction, Idle, OrderlyInv, Fit, TurnFits
<1>3. UNCHANGED <<stream, sock, toServer, toClient, srv, ready, commandQueue, offlineQueue>>
  BY DEF RunReaction, wire, commands
<1>4. ReactionEffect(r)
  BY DEF RunReaction
<1>5. Open /\ ~ready => commandQueue = <<>> /\ rest = <<>>
  BY <1>1 DEF OrderlyInv, Fit, StartFits
<1>6. \A i \in DOMAIN rest : Sane(rest[i])
  BY <1>1 DEF OrderlyInv, Fit, TurnFits
<1> HIDE DEF r, rest
<1>7. \A i \in DOMAIN reactions' : Sane(reactions'[i])
  BY <1>1, <1>6, OutcomeFits
<1>8. StartFits'
  <2>1. Open /\ ~ready => Len(reactions') <= 1
    BY <1>1, <1>5, OutcomeFits
  <2> QED BY <1>3, <1>5, <2>1 DEF OrderlyInv, Fit, StartFits, Open
<1>9. CASE r.run \in {"onReady", "authDone"}
  <2>1. Open /\ ~ready
    BY <1>1, <1>9 DEF OrderlyInv, UsableInv, OpenInv, Leads, Open, Fit, ReadyFits
  <2>2. task' \in {"onReady", "readyCheck"} /\ UNCHANGED <<checkTimers, authTimers>>
    BY <1>4, <1>9 DEF ReactionEffect, AfterConnect, timers
  <2>3. reactions' = <<>>
    BY <1>1, <1>5, <1>9, <2>1
  <2>4. PipesFit' /\ TurnFits'
    BY <1>3, <2>1, <2>2, <2>3 DEF OrderlyInv, Fit, PipesFit, TurnFits, Open
  <2>5. ReadyFits' /\ LineFits' /\ ModeFits'
    BY <1>3, <2>1 DEF OrderlyInv, Fit, ReadyFits, LineFits, ModeFits, Open
  <2> QED BY <1>8, <2>4, <2>5 DEF Fit
<1>10. CASE r.run \in {"selectResolved", "resetPubSub"}
  <2>1. UNCHANGED <<task, checkTimers, authTimers>>
    BY <1>4, <1>10 DEF ReactionEffect, timers
  <2>2. ~OwnStart(r.cmd) /\ Selects
    BY <1>1, <1>10 DEF Sane, Fits, OwnSelect, OwnStart
  <2>3. modes' \in Modes
    BY ReactionType DEF OrderlyInv, ForeignInv, TypeOK
  <2>4. ModeFits'
    <3>1. srv[stream].subs = {} /\ \A i \in DOMAIN toClient[stream] : toClient[stream][i].type # "message"
      BY <2>2 DEF OrderlyClient, OrderlyInv, UseFits, Fit, PipesFit, AllShaped, Shaped
    <3>2. modes'.pubSubMode \in BOOLEAN
      BY <2>3 DEF Modes
    <3> QED BY <1>3, <3>1, <3>2, ModeOther DEF ModeFits
  <2>5. PipesFit' /\ LineFits'
    BY <1>3 DEF OrderlyInv, Fit, PipesFit, LineFits, Open
  <2>6. TurnFits'
    BY <1>2, <1>3, <1>7, <2>1 DEF OrderlyInv, Fit, TurnFits
  <2>7. ReadyFits'
    <3>1. Open /\ ready => \A i \in DOMAIN rest : rest[i].run \notin {"onReady", "authDone"}
      BY <1>1 DEF OrderlyInv, Fit, ReadyFits
    <3>2. Open /\ ready =>
            \A i \in DOMAIN reactions' : reactions'[i].run \notin {"onReady", "authDone"}
      BY <1>1, <2>2, <3>1, OutcomeFits
    <3> QED BY <1>3, <3>2 DEF OrderlyInv, Fit, ReadyFits, Open
  <2> QED BY <1>8, <2>4, <2>5, <2>6, <2>7 DEF Fit
<1> QED BY <1>1, <1>9, <1>10 DEF Sane, Reaction, ReactionNames

\* _send: the command goes to both pipes, to the offline queue or nowhere.
LEMMA SendParts ==
  ASSUME OrderlyClient, OrderlyInv,
         NEW c \in Command, NEW force, NEW oq \in CommandSeq, NEW m,
         Send(c, force, oq, m), UNCHANGED stream,
         Fits(c), KeptFit(oq), c.id = 0 => Open /\ (ready \/ force),
         force => sock[stream] # "connecting"
  PROVE  /\ UNCHANGED <<sock, toClient, srv>> /\ PipesFit' /\ LineFits'
         /\ \/ commandQueue' = commandQueue /\ modes' = m
            \/ /\ commandQueue' = Append(commandQueue, c) /\ Open /\ (ready \/ force)
               /\ modes' = ModesAfter(c, m)
<1> DEFINE d == Disposition(c, force, m)
<1>1. UNCHANGED <<sock, toClient, srv>>
  BY DEF Send
<1>2. /\ toServer \in [Streams -> CommandSeq] /\ stream \in Streams
      /\ toServer[stream] \in CommandSeq /\ toClient[stream] \in ReplySeq
      /\ commandQueue \in CommandSeq
  BY DEF OrderlyInv, ForeignInv, TypeOK, WireTypeOK
<1>3. ready => sock[stream] # "connecting"
  BY DEF OrderlyInv, UsableInv, OpenInv, ReadyMeansOpen
<1>4. KeptFit(offlineQueue)'
  <2>1. CASE d = "queued"
    <3>1. offlineQueue' = Append(oq, c)
      BY <2>1 DEF Send
    <3>2. c.id # 0
      BY <2>1 DEF Disposition, Writable, Open
    <3> QED BY <3>1, <3>2, FitQueues
  <2>2. CASE d # "queued"
    BY <2>2 DEF Send
  <2> QED BY <2>1, <2>2
<1>5. CASE d = "written"
  <2>1. Open /\ (ready \/ force)
    BY <1>3, <1>5 DEF Disposition, Writable, Open
  <2>2. /\ commandQueue' = Append(commandQueue, c) /\ modes' = ModesAfter(c, m)
        /\ toServer'[stream] = Append(toServer[stream], c)
    BY <1>2, <1>5 DEF Send
  <2>3. LineFits'
    <3>1. Owed(toClient[stream], toServer[stream], commandQueue)
      BY <2>1 DEF OrderlyInv, Fit, LineFits
    <3> QED BY <1>1, <1>2, <2>2, <3>1, OwedSend DEF LineFits
  <2>4. AllFit(toServer[stream])' /\ AllFit(commandQueue)'
    BY <1>2, <2>2, FitQueues DEF OrderlyInv, Fit, PipesFit
  <2>5. PipesFit'
    BY <1>1, <1>4, <2>1, <2>4 DEF OrderlyInv, Fit, PipesFit, Open
  <2> QED BY <1>1, <2>1, <2>2, <2>3, <2>5
<1>6. CASE d # "written"
  <2>1. UNCHANGED <<commandQueue, toServer>> /\ modes' = m
    BY <1>6 DEF Send
  <2> QED BY <1>1, <1>4, <2>1 DEF OrderlyInv, Fit, PipesFit, LineFits, Open
<1> QED BY <1>5, <1>6

\* A command is issued, replayed or sent again.
LEMMA LaterFit ==
  ASSUME OrderlyClient, OrderlyInv, NEW c \in Command, NEW oq \in CommandSeq,
         Send(c, FALSE, oq, modes), UNCHANGED <<stream, ready, reactions, checkTimers, authTimers>>,
         Fits(c), KeptFit(oq), c.id = 0 => Open /\ ready, ~OwnStart(c), ~OwnSelect(c),
         task' = task \/ (ready /\ task' = "idle")
  PROVE  Fit'
<1>1. /\ UNCHANGED <<sock, toClient, srv>> /\ PipesFit' /\ LineFits'
      /\ \/ commandQueue' = commandQueue /\ modes' = modes
         \/ /\ commandQueue' = Append(commandQueue, c) /\ Open /\ ready
            /\ modes' = ModesAfter(c, modes)
  BY SendParts
<1>2. TurnFits'
  BY <1>1 DEF OrderlyInv, Fit, TurnFits, Open
<1>3. CASE commandQueue' = commandQueue /\ modes' = modes
  <2>1. StartFits' /\ ReadyFits' /\ ModeFits'
    BY <1>1, <1>3 DEF OrderlyInv, Fit, StartFits, ReadyFits, ModeFits, Open
  <2> QED BY <1>1, <1>2, <2>1 DEF Fit
<1>4. CASE /\ commandQueue' = Append(commandQueue, c) /\ Open /\ ready
           /\ modes' = ModesAfter(c, modes)
  <2>1. commandQueue \in CommandSeq /\ modes \in Modes
    BY DEF OrderlyInv, ForeignInv, TypeOK
  <2>2. \A i \in DOMAIN commandQueue' :
          \/ i \in DOMAIN commandQueue /\ commandQueue'[i] = commandQueue[i]
          \/ commandQueue'[i] = c
    BY <1>4, <2>1, Places DEF CommandSeq
  <2>3. ReadyFits'
    BY <1>1, <1>4, <2>2 DEF OrderlyInv, Fit, ReadyFits, Open
  <2>4. /\ modes.pubSubMode \in BOOLEAN /\ modes'.pubSubMode \in BOOLEAN
        /\ modes.pubSubMode => modes'.pubSubMode
    BY <1>4, <2>1 DEF ModesAfter, Modes
  <2>5. ModeFits'
    BY <1>1, <1>4, <2>4, ModeOther DEF OrderlyInv, Fit, ModeFits, Open
  <2>6. StartFits'
    BY <1>4 DEF StartFits
  <2> QED BY <1>1, <1>2, <2>3, <2>5, <2>6 DEF Fit
<1> QED BY <1>1, <1>3, <1>4

\* AUTH and INFO.
LEMMA StartFit ==
  ASSUME OrderlyClient, OrderlyInv, DoAuth \/ ReadyCheck
  PROVE  Fit'
<1>1. PICK kind \in {"auth", "info"} : SendOwn(Internal(kind), TRUE, modes)
  BY DEF DoAuth, ReadyCheck
<1> DEFINE c == Internal(kind)
<1>2. /\ c \in Command /\ c.id = 0 /\ Fits(c) /\ OwnStart(c)
  BY InternalType DEF Internal, Cmd, Fits, AnsweredOnce, OwnStart, SubKinds, Kinds
<1>3. /\ Open /\ ~ready /\ reactions = <<>> /\ task # "idle"
  BY DEF DoAuth, ReadyCheck, OrderlyInv, Fit, TurnFits
<1>4. /\ UNCHANGED <<stream, ready, reactions, checkTimers, authTimers>> /\ task' = "idle"
  BY DEF DoAuth, ReadyCheck, TaskDone, timers
<1>5. commandQueue = <<>>
  BY <1>3 DEF OrderlyInv, Fit, StartFits
<1>6. offlineQueue \in CommandSeq /\ KeptFit(offlineQueue)
  BY DEF OrderlyInv, ForeignInv, TypeOK, Fit, PipesFit
<1> HIDE DEF c
<1>7. /\ UNCHANGED <<sock, toClient, srv>> /\ PipesFit' /\ LineFits'
      /\ commandQueue' = commandQueue \/ commandQueue' = Append(commandQueue, c)
  <2>1. Send(c, TRUE, offlineQueue, modes)
    BY <1>1 DEF SendOwn, c
  <2> QED BY <1>2, <1>3, <1>4, <1>6, <2>1, SendParts DEF Open
<1>8. commandQueue' \in {<<>>, <<c>>}
  BY <1>5, <1>7
<1>9. TurnFits'
  BY <1>3, <1>4 DEF OrderlyInv, Fit, TurnFits
<1>10. StartFits'
  <2>1. /\ Len(commandQueue') <= 1 /\ Len(reactions') <= 1
        /\ \A i \in DOMAIN commandQueue' : OwnStart(commandQueue'[i])
    <3>1. Len(<<>>) <= 1 /\ Len(<<c>>) <= 1 /\ DOMAIN <<>> = {} /\ DOMAIN <<c>> = {1} /\ <<c>>[1] = c
      OBVIOUS
    <3>2. Len(reactions') <= 1
      BY <1>3, <1>4, <3>1
    <3>3. CASE commandQueue' = <<>>
      BY <3>1, <3>2, <3>3
    <3>4. CASE commandQueue' = <<c>>
      <4>1. \A i \in DOMAIN commandQueue' : commandQueue'[i] = c
        BY <3>1, <3>4
      <4>2. Len(commandQueue') <= 1
        BY <3>1, <3>4
      <4> QED BY <1>2, <3>2, <4>1, <4>2
    <3> QED BY <1>8, <3>3, <3>4
  <2> QED BY <1>3, <1>4, <1>7, <2>1 DEF OrderlyInv, Fit, StartFits, Open
<1> QED BY <1>3, <1>4, <1>7, <1>9, <1>10 DEF Fit, ReadyFits, ModeFits

\* onReady.
LEMMA OnReadyFit ==
  ASSUME OrderlyClient, OrderlyInv, OnReady
  PROVE  Fit'
<1>1. /\ Open /\ ~ready /\ reactions = <<>> /\ task # "idle" /\ task = "onReady"
  BY DEF OnReady, OrderlyInv, Fit, TurnFits
<1>2. /\ commandQueue = <<>> /\ srv[stream].subs = {}
      /\ \A i \in DOMAIN toClient[stream] : toClient[stream][i].type # "message"
  BY <1>1 DEF OrderlyInv, Fit, StartFits
<1>3. UNCHANGED <<stream, checkTimers, authTimers>> /\ ready'
  BY DEF OnReady, timers
<1>4. Restored \in Modes /\ offlineQueue \in CommandSeq /\ KeptFit(offlineQueue)
  BY DEF Restored, OrderlyInv, ForeignInv, TypeOK, Fit, PipesFit
<1>5. SUFFICES
        /\ UNCHANGED <<sock, toClient, srv>> /\ PipesFit' /\ LineFits'
        /\ \A i \in DOMAIN commandQueue' :
             ~OwnStart(commandQueue'[i]) /\ (OwnSelect(commandQueue'[i]) => i = 1)
        /\ reactions' = <<>> /\ task' \in {"resubscribe", "monitor", "sendOfflineQueue"}
        /\ modes' \in Modes
  <2>1. SUFFICES StartFits' /\ ReadyFits' /\ ModeFits' /\ TurnFits'
    BY <1>5 DEF Fit
  <2>2. modes'.pubSubMode \in BOOLEAN
    BY <1>5 DEF Modes
  <2>3. ModeFits'
    BY <1>2, <1>3, <1>5, <2>2, ModeOther DEF ModeFits
  <2>4. StartFits' /\ ReadyFits'
    BY <1>3, <1>5 DEF StartFits, ReadyFits
  <2>5. TurnFits'
    BY <1>1, <1>3, <1>5 DEF OrderlyInv, Fit, TurnFits, Open
  <2> QED BY <2>3, <2>4, <2>5
<1>6. CASE Restored.selectedDb = Null
  <2>1. UNCHANGED <<sock, toServer, toClient, srv, commandQueue, offlineQueue, reactions>>
    BY <1>6 DEF OnReady, RestoreModes, wire, commands
  <2>2. task' \in {"resubscribe", "monitor", "sendOfflineQueue"} /\ modes' = Restored
    BY <1>6 DEF OnReady, RestoreModes, RestoreTask
  <2> QED BY <1>1, <1>2, <1>3, <1>4, <2>1, <2>2 DEF OrderlyInv, Fit, PipesFit, LineFits, Open
<1>7. CASE Restored.selectedDb # Null
  <2> DEFINE c == Cmd(0, "select", <<>>, Restored.selectedDb, Restored.pubSubMode)
             off == [Restored EXCEPT !.pubSubMode = FALSE]
  <2>1. /\ c \in Command /\ c.id = 0 /\ c.kind = "select" /\ off \in Modes /\ ~off.pubSubMode
    <3>1. c \in Command /\ c.id = 0 /\ c.kind = "select"
      BY <1>4, <1>7 DEF Cmd, Command, Modes, Kinds
    <3>2. off \in Modes /\ ~off.pubSubMode
      BY <1>4 DEF Modes
    <3> QED BY <3>1, <3>2
  <2>2. Fits(c) /\ ~OwnStart(c)
    BY <1>7, <2>1 DEF OrderlyInv, UseFits, Fits, AnsweredOnce, OwnStart, SubKinds
  <2>3. /\ Send(c, TRUE, offlineQueue, off) /\ task' = RestoreTask(off)
        /\ reactions' = reactions \o
             (IF Disposition(c, TRUE, off) = "rejected" THEN RejectReactions(c) ELSE <<>>)
    BY <1>7 DEF OnReady, RestoreDb, SendOwn
  <2> HIDE DEF c, off
  <2>4. Disposition(c, TRUE, off) = "written"
    BY <1>1, <2>1 DEF Disposition, Writable, Barred, Open
  <2>5. /\ UNCHANGED <<sock, toClient, srv>> /\ PipesFit' /\ LineFits'
    BY <1>1, <1>3, <1>4, <2>1, <2>2, <2>3, SendParts DEF Open
  <2>6. commandQueue' = Append(commandQueue, c) /\ modes' = ModesAfter(c, off)
    BY <2>3, <2>4 DEF Send
  <2>7. reactions' = <<>>
    <3>1. reactions' = <<>> \o <<>>
      BY <1>1, <2>3, <2>4
    <3> QED BY <3>1
  <2>8. task' \in {"resubscribe", "monitor", "sendOfflineQueue"}
    BY <2>3 DEF RestoreTask
  <2>9. modes' \in Modes
    BY <2>1, <2>6 DEF ModesAfter, Modes
  <2>10. commandQueue' = <<c>>
    BY <1>2, <2>6
  <2> QED BY <2>2, <2>5, <2>7, <2>8, <2>9, <2>10
<1> QED BY <1>6, <1>7

\* The keys of subscriptionSet, and the commands of the offline queue.
LEMMA LoopFit ==
  ASSUME OrderlyClient, OrderlyInv, Resubscribe \/ SendOfflineQueue
  PROVE  Fit'
<1>1. /\ Open /\ ready /\ reactions = <<>>
  BY DEF Resubscribe, SendOfflineQueue, OrderlyInv, Fit, TurnFits
<1>2. /\ UNCHANGED <<stream, ready, reactions, checkTimers, authTimers>>
      /\ task' = task \/ task' = "idle"
  BY DEF Resubscribe, SendOfflineQueue, TaskDone, timers
<1>3. offlineQueue \in CommandSeq /\ KeptFit(offlineQueue)
  BY DEF OrderlyInv, ForeignInv, TypeOK, Fit, PipesFit
<1>4. ASSUME NEW key \in resubKeys,
             SendOwn(Cmd(0, "subscribe", <<key>>, DefaultDb, FALSE), FALSE, modes)
      PROVE  Fit'
  <2> DEFINE c == Cmd(0, "subscribe", <<key>>, DefaultDb, FALSE)
  <2>1. c \in Command /\ ~OwnStart(c) /\ ~OwnSelect(c) /\ c.kind = "subscribe" /\ Len(c.args) = 1
    <3>1. c \in Command /\ c.kind = "subscribe" /\ c.args = <<key>>
      BY WireAssumption DEF OrderlyInv, ForeignInv, TypeOK, Cmd, Command, Kinds, SubKinds
    <3> QED BY <3>1 DEF OwnStart, OwnSelect
  <2>3. Subscribes
    BY DEF OrderlyInv, UseFits
  <2>4. Fits(c)
    BY <2>1, <2>3 DEF Fits, AnsweredOnce, SubKinds
  <2>2. Send(c, FALSE, offlineQueue, modes)
    BY <1>4 DEF SendOwn
  <2> HIDE DEF c
  <2> QED BY <1>1, <1>2, <1>3, <2>1, <2>2, <2>4, LaterFit
<1>5. ASSUME offlineQueue # <<>>, Send(Head(offlineQueue), FALSE, Tail(offlineQueue), modes)
      PROVE  Fit'
  <2> DEFINE c == Head(offlineQueue) oq == Tail(offlineQueue)
  <2>1. c \in Command /\ oq \in CommandSeq
    BY <1>3, <1>5, CommandQueues
  <2>2. Fits(c) /\ c.id # 0 /\ KeptFit(oq)
    BY <1>3, <1>5, FitQueues
  <2>3. ~OwnStart(c) /\ ~OwnSelect(c)
    BY <2>2 DEF OwnStart, OwnSelect
  <2> HIDE DEF c, oq
  <2>4. Send(c, FALSE, oq, modes)
    BY <1>5 DEF c, oq
  <2> QED BY <1>1, <1>2, <2>1, <2>2, <2>3, <2>4, LaterFit
<1>6. CASE UNCHANGED <<wire, commands, modes>>
  <2>1. UNCHANGED <<sock, toServer, toClient, srv, commandQueue, offlineQueue, modes>>
    BY <1>6 DEF wire, commands
  <2>2. PipesFit' /\ LineFits' /\ ModeFits'
    BY <1>2, <2>1 DEF OrderlyInv, Fit, PipesFit, LineFits, ModeFits, Open
  <2>3. TurnFits' /\ StartFits' /\ ReadyFits'
    BY <1>1, <1>2, <2>1 DEF OrderlyInv, Fit, TurnFits, StartFits, ReadyFits, Open
  <2> QED BY <2>2, <2>3 DEF Fit
<1>7. CASE Resubscribe
  BY <1>4, <1>6, <1>7 DEF Resubscribe
<1>8. CASE SendOfflineQueue
  BY <1>5, <1>6, <1>8 DEF SendOfflineQueue
<1> QED BY <1>7, <1>8

\* The user issues a command.
LEMMA IssueFit ==
  ASSUME OrderlyClient, OrderlyInv, Issue
  PROVE  Fit'
<1>1. PICK u \in UserCommands :
        Send(Cmd(Len(promise) + 1, u.kind, u.args, u.db, FALSE), FALSE, offlineQueue, modes)
  BY DEF Issue, OrderlyClient
<1> DEFINE c == Cmd(Len(promise) + 1, u.kind, u.args, u.db, FALSE)
<1>2. c \in Command /\ c.id # 0
  BY ClientAssumption DEF OrderlyInv, ForeignInv, TypeOK, PromiseSeq, Cmd, Command
<1>3. Fits(c)
  <2>1. AnsweredOnce(u) /\ (u.kind = "select" => Selects) /\ (u.kind \in SubKinds => Subscribes)
    BY DEF OrderlyClient, Selects, Subscribes
  <2> QED BY <2>1 DEF Fits, AnsweredOnce, Cmd
<1>4. ~OwnStart(c) /\ ~OwnSelect(c)
  BY <1>2 DEF OwnStart, OwnSelect
<1>5. UNCHANGED <<stream, ready, reactions, checkTimers, authTimers, task>>
  BY DEF Issue, timers, turn
<1>6. offlineQueue \in CommandSeq /\ KeptFit(offlineQueue)
  BY DEF OrderlyInv, ForeignInv, TypeOK, Fit, PipesFit
<1> HIDE DEF c
<1>7. Send(c, FALSE, offlineQueue, modes)
  BY <1>1 DEF c
<1> QED BY <1>2, <1>3, <1>4, <1>5, <1>6, <1>7, LaterFit

\* MONITOR cannot be sent again.
LEMMA MonitorFit ==
  ASSUME OrderlyClient, OrderlyInv, RestoreMonitor
  PROVE  Fit'
<1>1. UNCHANGED <<sock, toServer, toClient, srv, stream, ready, commandQueue, offlineQueue, modes,
                  checkTimers, authTimers, reactions>>
  BY DEF RestoreMonitor, wire, connection, commands, modal, timers
<1>2. task = "monitor" /\ task' \in {"idle", "crashed"}
  BY DEF RestoreMonitor, TaskDone
<1>3. PipesFit' /\ LineFits' /\ ModeFits' /\ ReadyFits'
  BY <1>1 DEF OrderlyInv, Fit, PipesFit, LineFits, ModeFits, ReadyFits, Open
<1>4. TurnFits' /\ StartFits'
  BY <1>1, <1>2 DEF OrderlyInv, Fit, TurnFits, StartFits, Open
<1> QED BY <1>3, <1>4 DEF Fit

\* Every step.
LEMMA FitStep ==
  ASSUME OrderlyClient, OrderlyInv, [Next]_vars
  PROVE  Fit'
<1>1. CASE UNCHANGED vars
  <2>1. UNCHANGED <<sock, toServer, toClient, srv, stream, ready, commandQueue, offlineQueue,
                    modes, checkTimers, authTimers, reactions, task>>
    BY <1>1 DEF vars, wire, connection, commands, modal, timers, turn
  <2>2. PipesFit' /\ LineFits' /\ ModeFits' /\ ReadyFits'
    BY <2>1 DEF OrderlyInv, Fit, PipesFit, LineFits, ModeFits, ReadyFits, Open
  <2>3. TurnFits' /\ StartFits'
    BY <2>1 DEF OrderlyInv, Fit, TurnFits, StartFits, Open
  <2> QED BY <2>2, <2>3 DEF Fit
<1>2. ASSUME NEW s \in Streams, Server(s) \/ IOEvent(s) PROVE Fit'
  BY <1>2, ServerFit, ConnectFit, ReplyFit, MessageFit, LossFit DEF IOEvent
<1>3. CASE Timer
  <2>1. ~CheckTimer /\ ~AuthTimer
    BY DEF CheckTimer, AuthTimer, OrderlyInv, Fit, TurnFits
  <2> QED BY <1>3, <2>1, RetryFit DEF Timer
<1>4. CASE Continue
  BY <1>4, StartFit, OnReadyFit, LoopFit, MonitorFit DEF Continue
<1>5. CASE RunReaction \/ Issue \/ End
  BY <1>5, ReactionFit, IssueFit, EndFit
<1> QED BY <1>1, <1>2, <1>3, <1>4, <1>5 DEF Next

\* And the first state.
LEMMA FitInit == Init => Fit
<1> SUFFICES ASSUME Init PROVE Fit
  OBVIOUS
<1>1. 1 \in Streams /\ stream = 1 /\ sock[1] = "connecting"
  BY WireAssumption DEF Init, WireInit, Streams
<1>2. toServer[1] = <<>> /\ toClient[1] = <<>> /\ srv[1] = NewConnection
  BY <1>1 DEF Init, WireInit
<1>3. PipesFit
  BY <1>1, <1>2 DEF Init, PipesFit, NewConnection, KeptFit, AllFit, AllShaped
<1>4. TurnFits
  BY DEF Init, TurnFits
<1> QED BY <1>1, <1>3, <1>4 DEF Fit, StartFits, ReadyFits, LineFits, ModeFits, Open

\* Only a command that is written changes the keys to subscribe again, and it is
\* then in commandQueue.
LEMMA KeysStep ==
  ASSUME TypeOK, [Next]_vars
  PROVE  /\ resubKeys' \subseteq resubKeys \union subscriptionSet
         /\ \/ subscriptionSet' \subseteq subscriptionSet
            \/ \E i \in DOMAIN commandQueue' : commandQueue'[i].kind \in SubKinds
<1>1. ASSUME NEW c, NEW force, NEW oq, NEW m, Send(c, force, oq, m)
      PROVE  \/ subscriptionSet' \subseteq subscriptionSet
             \/ \E i \in DOMAIN commandQueue' : commandQueue'[i].kind \in SubKinds
  <2>1. subscriptionSet' = subscriptionSet
        \/ /\ subscriptionSet' = SubscriptionsAfter(c)
           /\ commandQueue' = Append(commandQueue, c)
    BY <1>1 DEF Send
  <2>2. CASE c.kind # "subscribe"
    BY <2>1, <2>2 DEF SubscriptionsAfter
  <2>3. CASE c.kind = "subscribe" /\ commandQueue' = Append(commandQueue, c)
    <3>1. commandQueue \in Seq(Command)
      BY DEF TypeOK, CommandSeq
    <3>2. PICK n \in Nat : n \in DOMAIN commandQueue' /\ commandQueue'[n] = c
      BY <2>3, <3>1
    <3> QED BY <2>3, <3>2 DEF SubKinds
  <2> QED BY <2>1, <2>2, <2>3
<1>2. CASE DoAuth \/ ReadyCheck \/ OnReady \/ Issue \/ Resubscribe \/ SendOfflineQueue
  <2>1. \/ \E c \in Command : \E force, oq, m : Send(c, force, oq, m)
        \/ UNCHANGED <<wire, subscriptionSet>>
    BY <1>2, SendingStep
  <2>2. resubKeys' \subseteq resubKeys \union subscriptionSet
    BY <1>2 DEF DoAuth, ReadyCheck, OnReady, RestoreDb, RestoreModes, Issue, Resubscribe,
      SendOfflineQueue, turn
  <2> QED BY <1>1, <2>1, <2>2
<1>3. ASSUME NEW s \in Streams, Server(s) \/ IOEvent(s)
      PROVE  UNCHANGED <<resubKeys, subscriptionSet>>
  BY <1>3 DEF Server, IOEvent, OnConnect, OnData, OnEnd, OnClose, OnError, ConnectionGone, modal,
    turn
<1>4. CASE CheckTimer \/ AuthTimer \/ RetryConnection \/ RestoreMonitor \/ RunReaction \/ End
  BY <1>4 DEF CheckTimer, AuthTimer, RetryConnection, RestoreMonitor, RunReaction, End, modal, turn
<1>5. CASE UNCHANGED vars
  BY <1>5 DEF vars, modal, turn
<1> QED BY <1>2, <1>3, <1>4, <1>5 DEF Next, Timer, Continue

\* Only the server changes what it knows of a connection.
LEMMA ServerAlone ==
  ASSUME [Next]_vars, \A s \in Streams : ~Server(s)
  PROVE  UNCHANGED srv /\ (UNCHANGED stream \/ RetryConnection)
<1>1. CASE UNCHANGED vars
  BY <1>1 DEF vars, wire, connection
<1>2. ASSUME NEW s \in Streams, IOEvent(s) PROVE UNCHANGED <<srv, stream>>
  BY <1>2 DEF IOEvent, OnConnect, OnData, OnEnd, OnClose, OnError, ConnectionGone, SetSock, Drop,
    connection
<1>3. CASE Timer
  BY <1>3 DEF Timer, CheckTimer, AuthTimer, RetryConnection, SetSock, wire, connection
<1>4. CASE Continue
  BY <1>4 DEF Continue, DoAuth, ReadyCheck, OnReady, RestoreDb, RestoreModes, Resubscribe,
    RestoreMonitor, SendOfflineQueue, SendOwn, Send, wire, connection
<1>5. CASE RunReaction \/ Issue \/ End
  BY <1>5 DEF RunReaction, Issue, End, Send, Drop, wire
<1> QED BY <1>1, <1>2, <1>3, <1>4, <1>5 DEF Next

\* A database or a subscription comes from a command that fits.
LEMMA UseStep ==
  ASSUME OrderlyClient, OrderlyInv, [Next]_vars
  PROVE  UseFits'
<1>1. Fit'
  BY FitStep
<1>2. Restored'.selectedDb # Null => Selects
  <2>1. CASE Restored'.selectedDb = Restored.selectedDb
    BY <2>1 DEF OrderlyInv, UseFits
  <2>2. CASE Restored'.selectedDb # Restored.selectedDb
    <3>1. TypeOK
      BY DEF OrderlyInv, ForeignInv
    <3>2. reactions # <<>> /\ Head(reactions).run = "selectResolved"
      BY <2>2, <3>1, DbStep
    <3>3. 1 \in DOMAIN reactions /\ Head(reactions) = reactions[1]
      BY <3>1, <3>2 DEF TypeOK, ReactionSeq
    <3>4. Sane(Head(reactions))
      BY <3>3 DEF OrderlyInv, Fit, TurnFits
    <3> QED BY <3>2, <3>4 DEF Sane, Fits
  <2> QED BY <2>1, <2>2
<1>3. resubKeys' # {} \/ subscriptionSet' # {} => Subscribes
  <2>1. TypeOK
    BY DEF OrderlyInv, ForeignInv
  <2>2. /\ resubKeys' \subseteq resubKeys \union subscriptionSet
        /\ \/ subscriptionSet' \subseteq subscriptionSet
           \/ \E i \in DOMAIN commandQueue' : commandQueue'[i].kind \in SubKinds
    BY <2>1, KeysStep
  <2>3. \A i \in DOMAIN commandQueue' : Fits(commandQueue'[i])
    BY <1>1 DEF Fit, PipesFit, AllFit
  <2> QED BY <2>2, <2>3 DEF OrderlyInv, UseFits, Fits
<1>4. srv'[stream'].subs # {} => Subscribes
  <2>1. ASSUME NEW s \in Streams, Server(s) PROVE srv'[stream'].subs # {} => Subscribes
    <3>1. s = stream /\ stream' = stream
      BY <2>1, ServerMoves DEF Server, connection
    <3>2. /\ toServer[s] \in CommandSeq /\ srv[s] \in ServerState /\ AllFit(toServer[s])
          /\ srv[s].subs # {} => Subscribes
      BY <3>1 DEF OrderlyInv, ForeignInv, TypeOK, WireTypeOK, Fit, PipesFit, UseFits
    <3>3. \/ /\ toServer[s] # <<>> /\ srv'[s] = Executed(srv[s], Head(toServer[s]))
          \/ srv' = srv
      BY <2>1, ServerMoves
    <3>4. toServer[s] # <<>> => Fits(Head(toServer[s]))
      BY <3>2, FitQueues
    <3>5. toServer[s] # <<>> /\ ~Subscribes => Executed(srv[s], Head(toServer[s])).subs = srv[s].subs
      BY <3>2, <3>4 DEF Executed, Fits, SubKinds, ServerState
    <3> QED BY <3>1, <3>2, <3>3, <3>5
  <2>2. CASE \A s \in Streams : ~Server(s)
    <3>1. srv' = srv /\ (stream' = stream \/ RetryConnection)
      BY <2>2, ServerAlone
    <3>2. ASSUME RetryConnection PROVE srv'[stream'].subs = {}
      <4>1. stream \in Nat /\ stream + 1 \in Streams /\ stream' = stream + 1
        BY <3>2, WireAssumption DEF RetryConnection, OrderlyInv, ForeignInv, TypeOK, Streams
      <4>2. srv[stream'] = NewConnection
        BY <4>1 DEF OrderlyInv, ForeignInv, FutureUnused, Unused
      <4> QED BY <3>1, <4>2 DEF NewConnection
    <3> QED BY <3>1, <3>2 DEF OrderlyInv, UseFits
  <2> QED BY <2>1, <2>2
<1> QED BY <1>2, <1>3, <1>4 DEF UseFits

\* None is there at first.
LEMMA UseInit == Init => UseFits
<1> SUFFICES ASSUME Init PROVE UseFits
  OBVIOUS
<1>1. Restored.selectedDb = Null
  BY DEF Init, Restored, NoModes
<1>2. 1 \in Streams /\ stream = 1
  BY WireAssumption DEF Init, Streams
<1>3. srv[stream].subs = {}
  BY <1>2 DEF Init, WireInit, NewConnection
<1> QED BY <1>1, <1>3 DEF Init, UseFits

\* The whole of it is inductive for an orderly client.
LEMMA OrderlyCorrect ==
  ASSUME OrderlyClient
  PROVE  Spec => []OrderlyInv
<1>1. ~LateClose /\ ~LateStart
  BY DEF OrderlyClient
<1>2. Spec => []UsableInv
  BY <1>1, UsableCorrect
<1>3. UsableInv /\ ForeignInv /\ Fit /\ UseFits /\ [Next]_vars => Fit' /\ UseFits'
  BY FitStep, UseStep DEF OrderlyInv
<1> QED BY <1>2, <1>3, FitInit, UseInit, ForeignCorrect, PTL DEF Spec, OrderlyInv

\* commandQueue "holds sent commands to de-pipeline them" (client.js:87): it is
\* exactly the commands whose replies the open connection still owes, in the
\* order in which they will come, however many of them one chunk brings.
THEOREM LineAligned ==
  ASSUME OrderlyClient
  PROVE  Spec => []Aligned
<1>1. OrderlyInv => Aligned
  BY DEF OrderlyInv, Fit, LineFits, Aligned, Open
<1> QED BY <1>1, OrderlyCorrect, PTL

\* A message finds the client in pub/sub mode (client.js:524-533), over lost
\* connections and however many replies a chunk brings.  A client that selects
\* databases as well is not covered: client.js:288 turns the mode off too late.
THEOREM MessagesHeard ==
  ASSUME OrderlyClient
  PROVE  Spec => []MessagesNotMistaken
<1>1. ASSUME OrderlyInv PROVE MessagesNotMistaken
  <2> SUFFICES ASSUME NEW s \in Streams, sock[s] = "open", toClient[s] # <<>>,
                      Head(toClient[s]).type = "message"
               PROVE  modes.pubSubMode
    BY DEF MessagesNotMistaken
  <2> DEFINE q == toClient[stream]
  <2>1. s = stream
    BY <1>1, OnlyStream DEF OrderlyInv, UsableInv, Gone
  <2>2. q \in ReplySeq /\ modes.pubSubMode \in BOOLEAN
    BY <1>1, <2>1 DEF OrderlyInv, ForeignInv, TypeOK, WireTypeOK, Modes
  <2>3. 1 \in DOMAIN q /\ Head(q) = q[1]
    BY <2>1, <2>2, Places DEF ReplySeq
  <2>4. ready
    BY <1>1, <2>1, <2>3 DEF OrderlyInv, Fit, StartFits, Open
  <2>5. ModeView(q, srv[stream].subs, modes.pubSubMode)
    BY <1>1, <2>1, <2>4 DEF OrderlyInv, Fit, ModeFits, Open
  <2> QED BY <2>1, <2>2, <2>5, ModeTail
<1> QED BY <1>1, OrderlyCorrect, PTL

------------------------------------------------------------------------------
(***************************************************************************)
(* The database.  The client has the server's password.                    *)
(***************************************************************************)
HasPassword == RequirePass => AuthPass

\* Before it has given the password the client waits for the answer to AUTH.
AuthFits ==
  Open /\ RequirePass /\ ~srv[stream].authed =>
    /\ ~ready /\ task \in {"idle", "doAuth"} /\ reactions = <<>>
    /\ \A i \in DOMAIN toClient[stream] : toClient[stream][i].cmd = Null
    /\ \A i \in DOMAIN commandQueue : commandQueue[i].kind = "auth"

AuthInv == (RequirePass => authPass) /\ AuthFits

\* The client that believes itself in the database m will have noted db when the
\* reactions rs have run.
Noted(rs, m, db) ==
  \/ \E i \in DOMAIN rs : /\ rs[i].run = "selectResolved" /\ rs[i].cmd.db = db
                          /\ \A j \in DOMAIN rs : j > i => rs[j].run # "selectResolved"
  \/ m \in {Null, db} /\ \A i \in DOMAIN rs : rs[i].run # "selectResolved"

\* And when it has heard q, too, and run the reactions to that.
DbAgrees(q, rs, m, db) ==
  \/ \E i \in DOMAIN q : /\ SelectOk(q[i]) /\ q[i].cmd.db = db
                         /\ \A j \in DOMAIN q : j > i => ~SelectOk(q[j])
  \/ Noted(rs, m, db) /\ \A i \in DOMAIN q : ~SelectOk(q[i])

\* The SELECT of onReady is still to be executed.
SelectPending == toServer[stream] # <<>> /\ OwnSelect(toServer[stream][1])

DbFits ==
  /\ Open /\ ready /\ ~SelectPending =>
       DbAgrees(toClient[stream], reactions, modes.selectedDb, srv[stream].db)
  /\ Open /\ SelectPending => srv[stream].subs = {}
  /\ Open /\ ~ready => srv[stream].db = DefaultDb

\* What is known by now.
AgreedInv == OrderlyInv /\ AuthInv

\* The password is not taken back.
LEMMA AuthPassStep ==
  ASSUME [Next]_vars, authPass
  PROVE  authPass'
  BY DEF Next, Server, IOEvent, OnConnect, OnData, OnEnd, OnClose, OnError, ConnectionGone,
    Timer, CheckTimer, AuthTimer, RetryConnection, Continue, DoAuth, ReadyCheck, OnReady,
    Resubscribe, RestoreMonitor, SendOfflineQueue, RunReaction, Issue, End, vars, modal

\* Which steps there are while AUTH is under way.
LEMMA AuthServer ==
  ASSUME OrderlyClient, OrderlyInv, AuthInv, NEW s \in Streams, Server(s)
  PROVE  AuthFits'
<1>1. s = stream /\ UNCHANGED <<stream, ready, task, reactions, commandQueue>>
  BY ServerMoves DEF Server, connection, commands, turn
<1>2. ServerExecutes(s) => MaxLoads = 0 /\ loads \in 0..MaxLoads
  BY DEF OrderlyClient, OrderlyInv, ForeignInv, TypeOK, WireTypeOK
<1> SUFFICES ASSUME Open', RequirePass, ~srv'[stream].authed
             PROVE  /\ ~ready /\ task \in {"idle", "doAuth"} /\ reactions = <<>>
                    /\ \A i \in DOMAIN toClient'[stream] : toClient'[stream][i].cmd = Null
                    /\ \A i \in DOMAIN commandQueue : commandQueue[i].kind = "auth"
  BY <1>1 DEF AuthFits
<1> DEFINE q == toClient[stream] ts == toServer[stream] v == srv[stream]
<1>3. Open /\ q \in ReplySeq /\ ts \in CommandSeq /\ v \in ServerState
      /\ commandQueue \in CommandSeq
  BY <1>1, ServerMoves DEF OrderlyInv, ForeignInv, TypeOK, WireTypeOK
<1>4. CASE v.authed
  <2>1. srv'[stream] = v \/ (ts # <<>> /\ srv'[stream] = Executed(v, Head(ts)))
    BY <1>1, ServerMoves
  <2>2. srv'[stream].authed
    BY <1>3, <1>4, <2>1 DEF Executed, ServerState
  <2> QED BY <2>2
<1>5. CASE ~v.authed
  <2>1. /\ ~ready /\ task \in {"idle", "doAuth"} /\ reactions = <<>>
        /\ \A i \in DOMAIN q : q[i].cmd = Null
        /\ \A i \in DOMAIN commandQueue : commandQueue[i].kind = "auth"
    BY <1>3, <1>5 DEF AuthInv, AuthFits
  <2>2. CASE ts # <<>> /\ srv'[stream] = Executed(v, Head(ts))
    <3>1. 1 \in DOMAIN ts /\ ts[1] = Head(ts)
      BY <1>3, <2>2, Places DEF CommandSeq
    <3>2. Owed(q, ts, commandQueue)
      BY <1>3 DEF OrderlyInv, Fit, LineFits
    <3>3. Head(ts).kind = "auth"
      BY <1>3, <2>1, <3>1, <3>2, OwedTakes
    <3>4. ~Refuses(v, Head(ts))
      BY <1>3, <2>1, <3>3 DEF Refuses, OrderlyInv, Fit, StartFits
    <3>5. srv'[stream].authed
      BY <1>3, <2>2, <3>3, <3>4 DEF Executed, ServerState
    <3> QED BY <3>5
  <2>3. CASE \E type \in {"message", "eof"} : toClient'[stream] = Append(q, Push(type))
    <3>1. \A type : Push(type).cmd = Null
      BY DEF Push
    <3>2. \A i \in DOMAIN toClient'[stream] : toClient'[stream][i].cmd = Null
      <4>1. PICK type \in {"message", "eof"} : toClient'[stream] = Append(q, Push(type))
        BY <2>3
      <4>2. \A i \in DOMAIN Append(q, Push(type)) :
              (i \in DOMAIN q /\ Append(q, Push(type))[i] = q[i])
              \/ Append(q, Push(type))[i] = Push(type)
        BY <1>3, Places DEF ReplySeq
      <4> QED BY <2>1, <3>1, <4>1, <4>2
    <3> QED BY <2>1, <3>2
  <2> QED BY <1>1, <2>2, <2>3, ServerMoves
<1> QED BY <1>4, <1>5

\* The stream that is lost, left or not yet connected is not open.
LEMMA LossCloses ==
  ASSUME OrderlyInv
  PROVE  /\ \A s \in Streams : OnEnd(s) \/ OnClose(s) \/ OnError(s) => ~Open'
         /\ End \/ RetryConnection => ~Open'
<1>1. ASSUME NEW s \in Streams, OnEnd(s) \/ OnClose(s) \/ OnError(s) PROVE ~Open'
  <2>1. s = stream /\ stream' = stream
    BY <1>1, OnlyStream DEF OnEnd, OnClose, OnError, Writable, OrderlyInv, UsableInv, Gone,
      ConnectionGone, connection
  <2>2. sock'[stream] # "open"
    BY <1>1, <2>1 DEF OnEnd, OnClose, OnError, Drop, SetSock, OrderlyInv, ForeignInv, TypeOK,
      WireTypeOK
  <2> QED BY <2>1, <2>2 DEF Open
<1>2. sock \in [Streams -> SockStates] /\ stream \in Streams
  BY DEF OrderlyInv, ForeignInv, TypeOK, WireTypeOK
<1>3. ASSUME End PROVE ~Open'
  <2>1. stream' = stream /\ sock' = [sock EXCEPT ![stream] = "detached"]
    BY <1>3 DEF End, Drop
  <2> QED BY <1>2, <2>1 DEF Open
<1>4. ASSUME RetryConnection PROVE ~Open'
  <2>1. stream' = stream + 1 /\ stream + 1 \in Streams
    BY <1>2, <1>4, WireAssumption DEF RetryConnection, Streams
  <2>2. sock' = [sock EXCEPT ![stream + 1] = "connecting"]
    BY <1>4 DEF RetryConnection, SetSock
  <2> QED BY <1>2, <2>1, <2>2 DEF Open
<1> QED BY <1>1, <1>3, <1>4

\* Every other step.
LEMMA AuthStep ==
  ASSUME OrderlyClient, OrderlyInv, AuthInv, [Next]_vars
  PROVE  AuthInv'
<1>0. RequirePass => authPass'
  BY AuthPassStep DEF AuthInv
<1> SUFFICES AuthFits'
  BY <1>0 DEF AuthInv
<1>1. CASE ~Open'
  BY <1>1 DEF AuthFits
<1>2. CASE UNCHANGED <<sock, stream, srv, ready, task, reactions, toClient, commandQueue>>
  BY <1>2 DEF AuthInv, AuthFits, Open
<1>3. ASSUME NEW s \in Streams, OnConnect(s) PROVE AuthFits'
  <2>1. s = stream /\ stream' = stream /\ sock[stream] = "connecting"
    BY <1>3, OnlyStream DEF OnConnect, OrderlyInv, UsableInv, Gone
  <2>2. toClient'[stream] = <<>>
    BY <1>3, <2>1 DEF OnConnect, SetSock, OrderlyInv, Fit, PipesFit
  <2>3. ~ready' /\ commandQueue' = <<>> /\ reactions' = <<>> /\ (authPass => task' = "doAuth")
    BY <1>3, <2>1 DEF OnConnect, OrderlyInv, Fit, TurnFits
  <2> QED BY <2>1, <2>2, <2>3 DEF AuthInv, AuthFits
<1>4. ASSUME NEW s \in Streams, OnEnd(s) \/ OnClose(s) \/ OnError(s) PROVE AuthFits'
  BY <1>1, <1>4, LossCloses
<1>5. CASE End \/ RetryConnection
  BY <1>1, <1>5, LossCloses
\* What is left does not touch the socket or what the server keeps, and without
\* the password given hardly anything of it happens.
<1>6. ASSUME UNCHANGED <<sock, stream, srv>>,
             Open /\ RequirePass /\ ~srv[stream].authed => AuthFits'
      PROVE  AuthFits'
  BY <1>6 DEF AuthFits, Open
<1> DEFINE Guest == Open /\ RequirePass /\ ~srv[stream].authed
<1>7. Guest => /\ ~ready /\ task \in {"idle", "doAuth"} /\ reactions = <<>>
               /\ \A i \in DOMAIN toClient[stream] : toClient[stream][i].cmd = Null
               /\ \A i \in DOMAIN commandQueue : commandQueue[i].kind = "auth"
  BY DEF AuthInv, AuthFits
<1>8. ASSUME NEW s \in Streams, OnData(s) PROVE AuthFits'
  <2>1. UNCHANGED <<sock, stream, srv>> /\ s = stream /\ toClient[s] # <<>> /\ Open
    BY <1>8, OnlyStream DEF OnData, connection, OrderlyInv, UsableInv, Gone, Open
  <2>2. ASSUME Guest PROVE FALSE
    <3>1. /\ toClient[stream] \in ReplySeq /\ 1 \in DOMAIN toClient[stream]
          /\ Head(toClient[stream]) = toClient[stream][1]
      <4>1. toClient[stream] \in ReplySeq
        BY DEF OrderlyInv, ForeignInv, TypeOK, WireTypeOK
      <4> QED BY <2>1, <4>1, Places DEF ReplySeq
    <3>2. toClient[stream][1].cmd = Null /\ toClient[stream][1].type \notin {"message", "eof"}
      BY <1>7, <1>8, <2>1, <2>2, <3>1 DEF OnData, OrderlyInv, Fit, StartFits
    <3> QED BY <3>1, <3>2 DEF OrderlyInv, Fit, PipesFit, AllShaped, Shaped
  <2> QED BY <1>6, <2>1, <2>2
<1>9. CASE DoAuth
  <2>1. SendOwn(Internal("auth"), TRUE, modes) /\ UNCHANGED <<stream, ready, reactions>>
        /\ task' = "idle"
    BY <1>9 DEF DoAuth, TaskDone
  <2>2. /\ UNCHANGED <<sock, toClient, srv>>
        /\ commandQueue' = commandQueue \/ commandQueue' = Append(commandQueue, Internal("auth"))
    BY <2>1 DEF SendOwn, Send
  <2>3. \A i \in DOMAIN commandQueue' :
          \/ i \in DOMAIN commandQueue /\ commandQueue'[i] = commandQueue[i]
          \/ commandQueue'[i].kind = "auth"
    <3>1. commandQueue \in CommandSeq /\ Internal("auth").kind = "auth"
      BY DEF OrderlyInv, ForeignInv, TypeOK, Internal, Cmd
    <3> QED BY <2>2, <3>1, Places DEF CommandSeq
  <2> QED BY <1>7, <2>1, <2>2, <2>3 DEF AuthFits, Open
<1>10. CASE Issue
  <2>1. UNCHANGED <<stream, ready, task, reactions>>
    BY <1>10 DEF Issue, turn
  <2>2. PICK u \in UserCommands, force \in IF ForcedCalls THEN BOOLEAN ELSE {FALSE} :
          Send(Cmd(Len(promise) + 1, u.kind, u.args, u.db, FALSE), force, offlineQueue, modes)
    BY <1>10 DEF Issue
  <2>3. force = FALSE
    BY DEF OrderlyClient
  <2>4. UNCHANGED <<sock, toClient, srv>> /\ (~ready => commandQueue' = commandQueue)
    BY <2>2, <2>3 DEF Send, Disposition
  <2> QED BY <1>7, <2>1, <2>4 DEF AuthFits, Open
<1>11. CASE ReadyCheck \/ OnReady \/ Resubscribe \/ RestoreMonitor \/ SendOfflineQueue
  <2>1. UNCHANGED <<sock, stream, srv>>
    BY <1>11 DEF ReadyCheck, OnReady, Resubscribe, RestoreMonitor, SendOfflineQueue, RestoreDb,
      RestoreModes, SendOwn, Send, wire, connection
  <2>2. task \notin {"idle", "doAuth"}
    BY <1>11 DEF ReadyCheck, OnReady, Resubscribe, RestoreMonitor, SendOfflineQueue
  <2> QED BY <1>6, <1>7, <2>1, <2>2
<1>12. CASE RunReaction
  BY <1>6, <1>7, <1>12 DEF RunReaction, wire
<1>13. CASE CheckTimer \/ AuthTimer
  BY <1>13 DEF CheckTimer, AuthTimer, OrderlyInv, Fit, TurnFits
<1>14. ASSUME NEW s \in Streams, Server(s) PROVE AuthFits'
  BY <1>14, AuthServer
<1>15. CASE UNCHANGED vars
  BY <1>2, <1>15 DEF vars, wire, connection, commands, turn
<1> HIDE DEF Guest
<1> QED
  BY <1>1, <1>3, <1>4, <1>5, <1>8, <1>9, <1>10, <1>11, <1>12, <1>13, <1>14, <1>15
  DEF Next, IOEvent, Timer, Continue

\* The agreement about the password is inductive beside it.
LEMMA AgreedCorrect ==
  ASSUME OrderlyClient, HasPassword
  PROVE  Spec => []AgreedInv
<1>1. Init => AuthInv
  <2> SUFFICES ASSUME Init PROVE AuthInv
    OBVIOUS
  <2>1. ~Open /\ (RequirePass => authPass)
    BY WireAssumption DEF Init, WireInit, Open, Streams, HasPassword
  <2> QED BY <2>1 DEF AuthInv, AuthFits
<1>2. OrderlyInv /\ AuthInv /\ [Next]_vars => AuthInv'
  BY AuthStep
<1> QED BY <1>1, <1>2, OrderlyCorrect, PTL DEF Spec, AgreedInv

\* A reply more: what it says of the database is the last word.
LEMMA DbAppend ==
  ASSUME NEW q \in ReplySeq, NEW r, NEW rs, NEW m, NEW db
  PROVE  /\ ~SelectOk(r) /\ DbAgrees(q, rs, m, db) => DbAgrees(Append(q, r), rs, m, db)
         /\ SelectOk(r) => DbAgrees(Append(q, r), rs, m, r.cmd.db)
<1> DEFINE q2 == Append(q, r) n == Len(q)
<1>1. /\ DOMAIN q = 1..n /\ n \in Nat /\ DOMAIN q2 = 1..(n + 1)
      /\ \A i \in DOMAIN q : q2[i] = q[i]
      /\ q2[n + 1] = r
  BY Places DEF ReplySeq
<1> HIDE DEF q2, n
<1>2. ASSUME SelectOk(r) PROVE DbAgrees(q2, rs, m, r.cmd.db)
  <2>1. n + 1 \in DOMAIN q2 /\ \A j \in DOMAIN q2 : ~(j > n + 1)
    BY <1>1
  <2> QED BY <1>1, <1>2, <2>1 DEF DbAgrees
<1>3. ASSUME ~SelectOk(r), DbAgrees(q, rs, m, db) PROVE DbAgrees(q2, rs, m, db)
  <2>1. \A j \in DOMAIN q2 : SelectOk(q2[j]) => j \in DOMAIN q /\ SelectOk(q[j])
    BY <1>1, <1>3
  <2>2. CASE \A i \in DOMAIN q : ~SelectOk(q[i])
    BY <1>3, <2>1, <2>2 DEF DbAgrees
  <2>3. ASSUME NEW i \in DOMAIN q, SelectOk(q[i]), q[i].cmd.db = db,
               \A j \in DOMAIN q : j > i => ~SelectOk(q[j])
        PROVE  DbAgrees(q2, rs, m, db)
    <3>1. i \in DOMAIN q2 /\ q2[i] = q[i]
      BY <1>1
    <3>2. \A j \in DOMAIN q2 : j > i => ~SelectOk(q2[j])
      BY <2>1, <2>3
    <3> QED BY <2>3, <3>1, <3>2 DEF DbAgrees
  <2> QED BY <1>3, <2>2, <2>3 DEF DbAgrees
<1> QED BY <1>2, <1>3 DEF q2

\* One reaction more: a SELECT is the last word.
LEMMA NotedAppend ==
  ASSUME NEW rs \in ReactionSeq, NEW x, NEW m, NEW db
  PROVE  /\ x.run # "selectResolved" /\ Noted(rs, m, db) => Noted(Append(rs, x), m, db)
         /\ x.run = "selectResolved" => Noted(Append(rs, x), m, x.cmd.db)
<1> DEFINE rs2 == Append(rs, x) n == Len(rs)
<1>1. /\ DOMAIN rs = 1..n /\ n \in Nat /\ DOMAIN rs2 = 1..(n + 1)
      /\ \A i \in DOMAIN rs : rs2[i] = rs[i]
      /\ rs2[n + 1] = x
  BY Places DEF ReactionSeq
<1> HIDE DEF rs2, n
<1>2. ASSUME x.run = "selectResolved" PROVE Noted(rs2, m, x.cmd.db)
  <2>1. n + 1 \in DOMAIN rs2 /\ \A j \in DOMAIN rs2 : ~(j > n + 1)
    BY <1>1
  <2> QED BY <1>1, <1>2, <2>1 DEF Noted
<1>3. ASSUME x.run # "selectResolved", Noted(rs, m, db) PROVE Noted(rs2, m, db)
  <2>1. \A j \in DOMAIN rs2 :
          rs2[j].run = "selectResolved" => j \in DOMAIN rs /\ rs[j].run = "selectResolved"
    BY <1>1, <1>3
  <2>2. CASE m \in {Null, db} /\ \A i \in DOMAIN rs : rs[i].run # "selectResolved"
    BY <2>1, <2>2 DEF Noted
  <2>3. ASSUME NEW i \in DOMAIN rs, rs[i].run = "selectResolved", rs[i].cmd.db = db,
               \A j \in DOMAIN rs : j > i => rs[j].run # "selectResolved"
        PROVE  Noted(rs2, m, db)
    <3>1. i \in DOMAIN rs2 /\ rs2[i] = rs[i]
      BY <1>1
    <3>2. \A j \in DOMAIN rs2 : j > i => rs2[j].run # "selectResolved"
      BY <2>1, <2>3
    <3> QED BY <2>3, <3>1, <3>2 DEF Noted
  <2> QED BY <1>3, <2>2, <2>3 DEF Noted
<1> QED BY <1>2, <1>3 DEF rs2

\* The first reaction has run.
LEMMA NotedTail ==
  ASSUME NEW rs \in ReactionSeq, rs # <<>>, NEW m, NEW m2, NEW db, Noted(rs, m, db),
         m2 = IF Head(rs).run = "selectResolved" THEN Head(rs).cmd.db ELSE m
  PROVE  Noted(Tail(rs), m2, db)
<1> DEFINE rs2 == Tail(rs) r == Head(rs)
<1>1. /\ 1 \in DOMAIN rs /\ r = rs[1] /\ DOMAIN rs2 = 1..(Len(rs) - 1) /\ DOMAIN rs = 1..Len(rs)
      /\ \A i \in DOMAIN rs2 : i + 1 \in DOMAIN rs /\ rs2[i] = rs[i + 1]
      /\ Len(rs) \in Nat
  BY Places DEF ReactionSeq
<1>2. m2 = IF r.run = "selectResolved" THEN r.cmd.db ELSE m
  OBVIOUS
<1> HIDE DEF rs2, r
<1>3. ASSUME NEW i \in DOMAIN rs, rs[i].run = "selectResolved", rs[i].cmd.db = db,
             \A j \in DOMAIN rs : j > i => rs[j].run # "selectResolved"
      PROVE  Noted(rs2, m2, db)
  <2>1. CASE i = 1
    <3>1. \A j \in DOMAIN rs2 : rs2[j].run # "selectResolved"
      <4> SUFFICES ASSUME NEW j \in DOMAIN rs2 PROVE rs2[j].run # "selectResolved"
        OBVIOUS
      <4>1. j + 1 > i /\ j + 1 \in DOMAIN rs /\ rs2[j] = rs[j + 1]
        BY <1>1, <2>1
      <4> QED BY <1>3, <4>1
    <3>2. m2 = db
      BY <1>1, <1>2, <1>3, <2>1
    <3> QED BY <3>1, <3>2 DEF Noted
  <2>2. CASE i # 1
    <3>1. PICK k \in DOMAIN rs2 : k + 1 = i /\ rs2[k] = rs[i]
      <4>1. i - 1 \in DOMAIN rs2 /\ (i - 1) + 1 = i
        BY <1>1, <2>2
      <4> QED BY <1>1, <4>1
    <3>2. ASSUME NEW j \in DOMAIN rs2, j > k PROVE rs2[j].run # "selectResolved"
      <4>1. j + 1 > i /\ j + 1 \in DOMAIN rs /\ rs2[j] = rs[j + 1]
        BY <1>1, <3>1, <3>2
      <4> QED BY <1>3, <4>1
    <3> QED BY <1>3, <3>1, <3>2 DEF Noted
  <2> QED BY <2>1, <2>2
<1>4. ASSUME m \in {Null, db}, \A i \in DOMAIN rs : rs[i].run # "selectResolved"
      PROVE  Noted(rs2, m2, db)
  BY <1>1, <1>2, <1>4 DEF Noted
<1> QED BY <1>3, <1>4 DEF Noted, rs2

\* A reply is heard: if it tells of a database, a reaction is left to note it.
LEMMA DbTail ==
  ASSUME NEW q \in ReplySeq, q # <<>>, NEW rs \in ReactionSeq, NEW rs2, NEW m, NEW db,
         DbAgrees(q, rs, m, db),
         SelectOk(Head(q)) => rs2 = Append(rs, [run |-> "selectResolved", cmd |-> Head(q).cmd]),
         ~SelectOk(Head(q)) =>
           rs2 = rs \/ \E x : rs2 = Append(rs, x) /\ x.run # "selectResolved"
  PROVE  DbAgrees(Tail(q), rs2, m, db)
<1> DEFINE q2 == Tail(q) r == Head(q)
<1>1. /\ 1 \in DOMAIN q /\ r = q[1] /\ DOMAIN q2 = 1..(Len(q) - 1) /\ DOMAIN q = 1..Len(q)
      /\ \A i \in DOMAIN q2 : i + 1 \in DOMAIN q /\ q2[i] = q[i + 1]
      /\ Len(q) \in Nat
  BY Places DEF ReplySeq
<1>2. SelectOk(r) => Noted(rs2, m, r.cmd.db)
  <2> DEFINE x == [run |-> "selectResolved", cmd |-> r.cmd]
  <2>1. x.run = "selectResolved" /\ x.cmd = r.cmd /\ (SelectOk(r) => rs2 = Append(rs, x))
    OBVIOUS
  <2> HIDE DEF x, r
  <2> QED BY <2>1, NotedAppend
<1>3. ~SelectOk(r) /\ Noted(rs, m, db) => Noted(rs2, m, db)
  <2> SUFFICES ASSUME ~SelectOk(r), Noted(rs, m, db), rs2 # rs PROVE Noted(rs2, m, db)
    OBVIOUS
  <2>1. PICK x : rs2 = Append(rs, x) /\ x.run # "selectResolved"
    OBVIOUS
  <2> QED BY <2>1, NotedAppend
<1> HIDE DEF q2, r
<1>4. ASSUME NEW i \in DOMAIN q, SelectOk(q[i]), q[i].cmd.db = db,
             \A j \in DOMAIN q : j > i => ~SelectOk(q[j])
      PROVE  DbAgrees(q2, rs2, m, db)
  <2>1. CASE i = 1
    <3>1. \A j \in DOMAIN q2 : ~SelectOk(q2[j])
      <4> SUFFICES ASSUME NEW j \in DOMAIN q2 PROVE ~SelectOk(q2[j])
        OBVIOUS
      <4>1. j + 1 > i /\ j + 1 \in DOMAIN q /\ q2[j] = q[j + 1]
        BY <1>1, <2>1
      <4> QED BY <1>4, <4>1
    <3>2. Noted(rs2, m, db)
      BY <1>1, <1>2, <1>4, <2>1
    <3> QED BY <3>1, <3>2 DEF DbAgrees
  <2>2. CASE i # 1
    <3>1. PICK k \in DOMAIN q2 : k + 1 = i /\ q2[k] = q[i]
      <4>1. i - 1 \in DOMAIN q2 /\ (i - 1) + 1 = i
        BY <1>1, <2>2
      <4> QED BY <1>1, <4>1
    <3>2. ASSUME NEW j \in DOMAIN q2, j > k PROVE ~SelectOk(q2[j])
      <4>1. j + 1 > i /\ j + 1 \in DOMAIN q /\ q2[j] = q[j + 1]
        BY <1>1, <3>1, <3>2
      <4> QED BY <1>4, <4>1
    <3> QED BY <1>4, <3>1, <3>2 DEF DbAgrees
  <2> QED BY <2>1, <2>2
<1>5. ASSUME Noted(rs, m, db), \A i \in DOMAIN q : ~SelectOk(q[i])
      PROVE  DbAgrees(q2, rs2, m, db)
  BY <1>1, <1>3, <1>5 DEF DbAgrees
<1> QED BY <1>4, <1>5 DEF DbAgrees, q2

\* The server executes a command, of a client that is ready.
LEMMA ExecutedDb ==
  ASSUME NEW v \in ServerState, NEW c \in Command, Fits(c), NEW r,
         Replies(v, c) \in {<<r>>, <<r, Push("eof")>>}
  PROVE  /\ SelectOk(r) => c.kind = "select" /\ r.cmd = c /\ Executed(v, c).db = c.db
         /\ ~SelectOk(r) => Executed(v, c).db = v.db
         /\ c.kind = "select" /\ ~Refuses(v, c) => SelectOk(r)
<1>1. r = Replies(v, c)[1]
  OBVIOUS
<1>2. CASE Refuses(v, c)
  <2>1. r = ReplyTo(c, "error") /\ Executed(v, c) = v
    BY <1>1, <1>2 DEF Replies, Executed
  <2> QED BY <1>2, <2>1 DEF ReplyTo, SelectOk
<1>3. CASE ~Refuses(v, c) /\ c.kind = "select"
  <2>1. r = ReplyTo(c, "ok") /\ Executed(v, c).db = c.db
    BY <1>1, <1>3 DEF Replies, Executed, ServerState
  <2>2. c # Null
    BY NullAssumption
  <2> QED BY <1>3, <2>1, <2>2 DEF ReplyTo, SelectOk
<1>4. CASE ~Refuses(v, c) /\ c.kind # "select"
  <2>1. PICK x \in Reply : (Replies(v, c) = <<x>> \/ Replies(v, c) = <<x, Push("eof")>>) /\ x.cmd = c
    BY OneAnswer
  <2>2. r = x
    BY <1>1, <2>1
  <2>3. Executed(v, c).db = v.db
    BY <1>4 DEF Executed, ServerState
  <2> QED BY <1>4, <2>1, <2>2, <2>3 DEF SelectOk
<1> QED BY <1>2, <1>3, <1>4

\* The server moves.
LEMMA DbServer ==
  ASSUME OrderlyClient, AgreedInv, DbFits, NEW s \in Streams, Server(s)
  PROVE  DbFits'
<1> DEFINE q == toClient[stream] ts == toServer[stream] v == srv[stream]
           q2 == toClient'[stream] ts2 == toServer'[stream] v2 == srv'[stream]
           eof == Push("eof") m == modes.selectedDb
<1>1. s = stream /\ Open /\ Open' /\ UNCHANGED <<stream, ready, reactions, modes, commandQueue>>
  BY ServerMoves DEF Server, connection, modal, commands, turn, AgreedInv, Open
<1>2. /\ q \in ReplySeq /\ ts \in CommandSeq /\ v \in ServerState /\ commandQueue \in CommandSeq
  BY DEF AgreedInv, OrderlyInv, ForeignInv, TypeOK, WireTypeOK
<1>3. /\ AllFit(ts) /\ Owed(q, ts, commandQueue)
      /\ ready => \A i \in DOMAIN commandQueue : OwnSelect(commandQueue[i]) => i = 1
      /\ ~ready => \A i \in DOMAIN commandQueue : OwnStart(commandQueue[i])
      /\ RequirePass /\ ~v.authed => ~ready
  BY <1>1 DEF AgreedInv, AuthInv, AuthFits, OrderlyInv, Fit, PipesFit, LineFits, ReadyFits, StartFits
<1>4. ~SelectOk(eof) /\ \A type : ~SelectOk(Push(type))
  BY DEF Push, SelectOk
<1>5. /\ ready /\ ~SelectPending => DbAgrees(q, reactions, m, v.db)
      /\ SelectPending => v.subs = {}
      /\ ~ready => v.db = DefaultDb
  BY <1>1 DEF DbFits
<1> HIDE DEF q, q2, v, v2, eof, m, ts2
<1>6. CASE \E r \in Reply :
             /\ ts # <<>> /\ r.cmd = Head(ts) /\ ts2 = Tail(ts) /\ v2 = Executed(v, Head(ts))
             /\ q2 = Append(q, r) \/ q2 = Append(Append(q, r), eof)
             /\ Replies(v, Head(ts)) \in {<<r>>, <<r, Push("eof")>>}
  <2>1. PICK r \in Reply :
             /\ ts # <<>> /\ r.cmd = Head(ts) /\ ts2 = Tail(ts) /\ v2 = Executed(v, Head(ts))
             /\ q2 = Append(q, r) \/ q2 = Append(Append(q, r), eof)
             /\ Replies(v, Head(ts)) \in {<<r>>, <<r, Push("eof")>>}
    BY <1>6
  <2> DEFINE c == Head(ts)
  <2>2. /\ c \in Command /\ Fits(c) /\ 1 \in DOMAIN ts /\ ts[1] = c
        /\ \A i \in DOMAIN Tail(ts) : i + 1 \in DOMAIN ts /\ Tail(ts)[i] = ts[i + 1]
        /\ ts2 # <<>> => 1 \in DOMAIN ts2
    <3>1. c \in Command /\ Fits(c)
      BY <1>2, <1>3, <2>1, CommandQueues, FitQueues
    <3>2. /\ 1 \in DOMAIN ts /\ ts[1] = c
          /\ \A i \in DOMAIN Tail(ts) : i + 1 \in DOMAIN ts /\ Tail(ts)[i] = ts[i + 1]
      BY <1>2, <2>1, Places DEF CommandSeq
    <3>3. Tail(ts) \in CommandSeq
      BY <1>2, <2>1, CommandQueues
    <3>4. Tail(ts) # <<>> => 1 \in DOMAIN Tail(ts)
      BY <3>3, Places DEF CommandSeq
    <3> QED BY <2>1, <3>1, <3>2, <3>4
  <2>3. /\ SelectOk(r) => r.cmd = c /\ v2.db = c.db
        /\ ~SelectOk(r) => v2.db = v.db
        /\ c.kind = "select" /\ ~Refuses(v, c) => SelectOk(r)
        /\ SelectOk(r) => c.kind = "select"
    BY <1>2, <2>1, <2>2, ExecutedDb
  <2>4. ~SelectPending'
    <3>1. ASSUME SelectPending' PROVE FALSE
      <4>1. 1 \in DOMAIN ts2 /\ OwnSelect(ts2[1])
        <5>1. ts2 # <<>> /\ OwnSelect(ts2[1])
          BY <1>1, <3>1 DEF SelectPending, ts2
        <5> QED BY <2>2, <5>1
      <4>2. 1 + 1 = 2 /\ 2 \in DOMAIN ts /\ OwnSelect(ts[2])
        BY <2>1, <2>2, <4>1
      <4>3. PICK j \in DOMAIN commandQueue : commandQueue[j] = ts[2] /\ j >= 2
        BY <1>2, <1>3, <4>2, OwedTakes
      <4>4. ~OwnStart(ts[2])
        BY <4>2 DEF OwnSelect, OwnStart
      <4> QED BY <1>3, <4>2, <4>3, <4>4
    <3> QED BY <3>1
  <2>5. ASSUME ready PROVE DbAgrees(q2, reactions, m, v2.db)
    <3>1. DbAgrees(Append(q, r), reactions, m, v2.db)
      <4>1. CASE SelectOk(r)
        BY <1>2, <2>3, <4>1, DbAppend
      <4>2. CASE ~SelectOk(r)
        <5>1. ~SelectPending
          <6>1. ASSUME SelectPending PROVE FALSE
            <7>1. c.kind = "select" /\ v.subs = {}
              BY <1>5, <2>2, <6>1 DEF SelectPending, OwnSelect
            <7>2. ~Refuses(v, c)
              BY <1>3, <2>5, <7>1 DEF Refuses
            <7> QED BY <2>3, <4>2, <7>1, <7>2
          <6> QED BY <6>1
        <5>2. DbAgrees(q, reactions, m, v.db)
          BY <1>5, <2>5, <5>1
        <5> QED BY <1>2, <2>3, <4>2, <5>2, DbAppend
      <4> QED BY <4>1, <4>2
    <3>2. Append(q, r) \in ReplySeq
      BY <1>2 DEF ReplySeq
    <3> QED BY <1>4, <2>1, <3>1, <3>2, DbAppend
  <2>6. ASSUME ~ready PROVE v2.db = DefaultDb
    <3>1. c.kind # "select"
      <4>1. PICK j \in DOMAIN commandQueue : commandQueue[j] = c
        BY <1>2, <1>3, <2>2, OwedTakes
      <4> QED BY <1>3, <2>6, <4>1 DEF OwnStart
    <3> QED BY <1>5, <2>3, <2>6, <3>1
  <2> QED BY <1>1, <2>4, <2>5, <2>6 DEF DbFits, q2, v2, m
<1>7. CASE ts2 = ts /\ v2 = v /\ \E type : q2 = Append(q, Push(type))
  <2>1. SelectPending' = SelectPending
    BY <1>1, <1>7 DEF SelectPending, ts2
  <2>2. ready /\ ~SelectPending => DbAgrees(q2, reactions, m, v2.db)
    BY <1>2, <1>4, <1>5, <1>7, DbAppend
  <2> QED BY <1>1, <1>5, <1>7, <2>1, <2>2 DEF DbFits, q2, v2, m, v
<1>8. \/ \E r \in Reply :
             /\ ts # <<>> /\ r.cmd = Head(ts) /\ ts2 = Tail(ts) /\ v2 = Executed(v, Head(ts))
             /\ q2 = Append(q, r) \/ q2 = Append(Append(q, r), eof)
             /\ Replies(v, Head(ts)) \in {<<r>>, <<r, Push("eof")>>}
      \/ ts2 = ts /\ v2 = v /\ \E type : q2 = Append(q, Push(type))
  BY <1>1, ServerMoves DEF AgreedInv, q, v, q2, ts2, v2, eof
<1> QED BY <1>6, <1>7, <1>8

\* A reply is heard.
LEMMA DbData ==
  ASSUME OrderlyClient, AgreedInv, DbFits, NEW s \in Streams, OnData(s)
  PROVE  DbFits'
<1> DEFINE q == toClient[stream] r == Head(q) m == modes.selectedDb
<1>1. /\ s = stream /\ Open /\ toClient[s] # <<>>
      /\ UNCHANGED <<stream, sock, toServer, srv, ready>>
  BY OnlyStream DEF OnData, AgreedInv, OrderlyInv, UsableInv, Gone, Open, connection
<1>2. /\ q \in ReplySeq /\ q # <<>> /\ toClient'[stream] = Tail(q) /\ modes \in Modes
      /\ reactions \in ReactionSeq
  BY <1>1 DEF OnData, AgreedInv, OrderlyInv, ForeignInv, TypeOK, WireTypeOK
<1>3. SelectPending' = SelectPending
  BY <1>1 DEF SelectPending
<1>4. SUFFICES ready /\ ~SelectPending =>
                 DbAgrees(Tail(q), reactions', modes'.selectedDb, srv[stream].db)
  BY <1>1, <1>2, <1>3, <1>4 DEF DbFits, Open
<1>5. ready /\ ~SelectPending => DbAgrees(q, reactions, m, srv[stream].db)
  BY <1>1 DEF DbFits
<1>6. /\ modes'.selectedDb = m
      /\ SelectOk(r) => reactions' = Append(reactions, [run |-> "selectResolved", cmd |-> r.cmd])
      /\ ~SelectOk(r) => \/ reactions' = reactions
                         \/ \E x : reactions' = Append(reactions, x) /\ x.run # "selectResolved"
  <2>1. CASE r.cmd = Null
    BY <1>1, <2>1, MessageHeard DEF AgreedInv, SelectOk
  <2>2. CASE r.cmd # Null
    <3>1. modes'.selectedDb = m
      BY <1>1, <1>2, <2>2, ReplyHeard DEF AgreedInv, Modes
    <3> QED BY <1>1, <2>2, <3>1, ReplyHeard DEF AgreedInv
  <2> QED BY <2>1, <2>2
<1> HIDE DEF q, m
<1> QED BY <1>2, <1>5, <1>6, DbTail

\* The reaction notes the database.
LEMMA DbReaction ==
  ASSUME OrderlyClient, AgreedInv, DbFits, RunReaction
  PROVE  DbFits'
<1> DEFINE r == Head(reactions) q == toClient[stream] db == srv[stream].db rest == Tail(reactions)
           m == modes.selectedDb m2 == modes'.selectedDb
<1>1. UNCHANGED <<stream, sock, toServer, toClient, srv, ready>>
  BY DEF RunReaction, wire
<1>2. SelectPending' = SelectPending
  BY <1>1 DEF SelectPending
<1>3. /\ reactions # <<>> /\ reactions \in ReactionSeq /\ rest \in ReactionSeq
      /\ r \in Reaction
      /\ \/ reactions' = rest
         \/ \E x : reactions' = Append(rest, x) /\ x.run # "selectResolved"
  BY ReactionTaken DEF AgreedInv
<1>4. modes \in Modes
  BY DEF AgreedInv, OrderlyInv, ForeignInv, TypeOK
<1>5. m2 = IF r.run = "selectResolved" THEN r.cmd.db ELSE m
  <2>1. r.run # "selectResolved" => m2 = m
    BY <1>3, <1>4 DEF RunReaction, ReactionEffect, Modes, Reaction, ReactionNames
  <2>2. r.run = "selectResolved" => m2 = r.cmd.db
    BY <1>4 DEF RunReaction, ReactionEffect, Modes
  <2> QED BY <2>1, <2>2
<1>6. Open /\ ready /\ ~SelectPending => DbAgrees(q, reactions, m, db)
  BY DEF DbFits
<1> HIDE DEF q, db, m, m2
<1>7. ASSUME Noted(reactions, m, db) PROVE Noted(reactions', m2, db)
  <2>1. Noted(rest, m2, db)
    BY <1>3, <1>5, <1>7, NotedTail
  <2> HIDE DEF rest
  <2>2. CASE reactions' # rest
    <3>1. PICK x : reactions' = Append(rest, x) /\ x.run # "selectResolved"
      BY <1>3, <2>2
    <3> QED BY <1>3, <2>1, <3>1, NotedAppend
  <2> QED BY <2>1, <2>2
<1>8. Open /\ ready /\ ~SelectPending => DbAgrees(q, reactions', m2, db)
  BY <1>6, <1>7 DEF DbAgrees
<1> QED BY <1>1, <1>2, <1>8 DEF DbFits, Open, q, db, m2

\* A command of another kind is sent.
LEMMA DbSend ==
  ASSUME OrderlyClient, AgreedInv, DbFits, NEW c, NEW force, NEW oq, NEW m, Send(c, force, oq, m),
         ~OwnSelect(c), m = modes, UNCHANGED <<stream, ready, reactions>>
  PROVE  DbFits'
<1>1. UNCHANGED <<sock, toClient, srv>>
  BY DEF Send
<1>2. toServer[stream] \in CommandSeq /\ toServer \in [Streams -> CommandSeq] /\ stream \in Streams
      /\ modes \in Modes
  BY DEF AgreedInv, OrderlyInv, ForeignInv, TypeOK, WireTypeOK
<1>3. modes'.selectedDb = modes.selectedDb
  BY <1>2, SendKeepsDb
<1>4. toServer'[stream] = toServer[stream] \/ toServer'[stream] = Append(toServer[stream], c)
  BY <1>2 DEF Send
<1>5. SelectPending' = SelectPending
  <2>1. CASE toServer'[stream] = toServer[stream]
    BY <2>1 DEF SelectPending
  <2>2. CASE toServer'[stream] = Append(toServer[stream], c)
    <3> DEFINE ts == toServer[stream]
    <3>1. /\ Len(ts) \in Nat /\ DOMAIN Append(ts, c) = 1..(Len(ts) + 1)
          /\ Append(ts, c)[Len(ts) + 1] = c /\ DOMAIN ts = 1..Len(ts)
          /\ \A i \in DOMAIN ts : Append(ts, c)[i] = ts[i]
          /\ (ts = <<>> <=> Len(ts) = 0)
      BY <1>2, Places DEF CommandSeq
    <3> HIDE DEF ts
    <3>2. 1 \in DOMAIN Append(ts, c) /\ DOMAIN <<>> = {}
      BY <3>1
    <3>3. Append(ts, c) # <<>>
      BY <3>2
    <3>4. ts = <<>> => Append(ts, c)[1] = c
      BY <3>1
    <3>5. ts # <<>> => Append(ts, c)[1] = ts[1]
      <4>1. ts # <<>> => 1 \in DOMAIN ts
        BY <3>1
      <4> QED BY <3>1, <4>1
    <3> QED BY <2>2, <3>3, <3>4, <3>5 DEF SelectPending, ts
  <2> QED BY <1>4, <2>1, <2>2
<1> QED BY <1>1, <1>3, <1>5 DEF DbFits, Open

\* onReady sends the SELECT, or has no database to restore.
LEMMA DbReady ==
  ASSUME OrderlyClient, AgreedInv, DbFits, OnReady
  PROVE  DbFits'
<1>1. /\ Open /\ ~ready /\ reactions = <<>> /\ task # "idle"
  BY DEF OnReady, AgreedInv, OrderlyInv, Fit, TurnFits
<1>2. /\ commandQueue = <<>> /\ srv[stream].subs = {}
      /\ Owed(toClient[stream], toServer[stream], commandQueue)
      /\ toClient[stream] \in ReplySeq /\ toServer[stream] \in CommandSeq
      /\ stream \in Streams /\ toServer \in [Streams -> CommandSeq]
  BY <1>1 DEF AgreedInv, OrderlyInv, Fit, StartFits, LineFits, ForeignInv, TypeOK, WireTypeOK
<1>3. /\ toServer[stream] = <<>>
      /\ \A i \in DOMAIN toClient[stream] : ~SelectOk(toClient[stream][i])
  <2>1. commandQueue \in CommandSeq /\ DOMAIN commandQueue = {}
    BY <1>2 DEF CommandSeq
  <2>2. \A i \in DOMAIN toClient[stream] : toClient[stream][i].cmd = Null
    BY <1>2, <2>1, OwedTakes
  <2>3. toServer[stream] = <<>>
    BY <1>2, <2>1, OwedTakes
  <2> QED BY <2>2, <2>3 DEF SelectOk
<1>4. UNCHANGED <<stream, sock, toClient, srv>> /\ ready'
  BY DEF OnReady, RestoreDb, RestoreModes, SendOwn, Send, wire
<1>5. CASE Restored.selectedDb = Null
  <2>1. modes'.selectedDb = Null /\ reactions' = <<>>
    BY <1>1, <1>5 DEF OnReady, RestoreModes
  <2>2. DbAgrees(toClient[stream], reactions', modes'.selectedDb, srv[stream].db)
    BY <1>3, <2>1 DEF DbAgrees, Noted
  <2> QED BY <1>2, <1>4, <2>2 DEF DbFits, Open
<1>6. CASE Restored.selectedDb # Null
  <2> DEFINE c == Cmd(0, "select", <<>>, Restored.selectedDb, Restored.pubSubMode)
             off == [Restored EXCEPT !.pubSubMode = FALSE]
  <2>1. Send(c, TRUE, offlineQueue, off) /\ OwnSelect(c)
    BY <1>6 DEF OnReady, RestoreDb, SendOwn, Cmd, OwnSelect
  <2>2. ~off.pubSubMode
    <3>1. Restored \in Modes
      BY DEF Restored, AgreedInv, OrderlyInv, ForeignInv, TypeOK
    <3> QED BY <3>1 DEF Modes
  <2> HIDE DEF c, off
  <2>3. Disposition(c, TRUE, off) = "written"
    BY <1>1, <2>2 DEF Disposition, Writable, Barred, Open
  <2>4. toServer'[stream] = Append(<<>>, c)
    BY <1>2, <1>3, <2>1, <2>3 DEF Send
  <2>5. SelectPending'
    BY <1>4, <2>1, <2>4 DEF SelectPending
  <2> QED BY <1>2, <1>4, <2>5 DEF DbFits, Open
<1> QED BY <1>5, <1>6

\* Every step.
LEMMA DbFitsStep ==
  ASSUME OrderlyClient, AgreedInv, DbFits, [Next]_vars
  PROVE  DbFits'
<1>1. CASE UNCHANGED <<sock, stream, srv, toServer, toClient, ready, modes, reactions>>
  BY <1>1 DEF DbFits, SelectPending, Open
<1>2. ASSUME NEW s \in Streams, Server(s) PROVE DbFits'
  BY <1>2, DbServer
<1>3. ASSUME NEW s \in Streams, OnConnect(s) PROVE DbFits'
  <2>1. s = stream /\ stream' = stream /\ sock[stream] = "connecting" /\ ~ready'
    BY <1>3, OnlyStream DEF OnConnect, AgreedInv, OrderlyInv, UsableInv, Gone
  <2>2. toServer'[stream] = <<>> /\ srv'[stream] = NewConnection
    BY <1>3, <2>1 DEF OnConnect, SetSock, AgreedInv, OrderlyInv, Fit, PipesFit
  <2> QED BY <2>1, <2>2 DEF DbFits, SelectPending, NewConnection
<1>4. ASSUME NEW s \in Streams, OnEnd(s) \/ OnClose(s) \/ OnError(s) PROVE DbFits'
  BY <1>4, LossCloses DEF AgreedInv, DbFits
<1>5. CASE End \/ RetryConnection
  BY <1>5, LossCloses DEF AgreedInv, DbFits
<1>6. ASSUME NEW s \in Streams, OnData(s) PROVE DbFits'
  BY <1>6, DbData
<1>7. CASE DoAuth \/ ReadyCheck
  <2>1. PICK kind \in {"auth", "info"} : SendOwn(Internal(kind), TRUE, modes)
    BY <1>7 DEF DoAuth, ReadyCheck
  <2>2. ~OwnSelect(Internal(kind))
    BY DEF OwnSelect, Internal, Cmd
  <2>3. UNCHANGED <<stream, ready, reactions>>
    BY <1>7 DEF DoAuth, ReadyCheck
  <2> QED BY <2>1, <2>2, <2>3, DbSend DEF SendOwn
<1>8. CASE Issue
  <2>1. PICK u \in UserCommands, force \in IF ForcedCalls THEN BOOLEAN ELSE {FALSE} :
          Send(Cmd(Len(promise) + 1, u.kind, u.args, u.db, FALSE), force, offlineQueue, modes)
    BY <1>8 DEF Issue
  <2>2. ~OwnSelect(Cmd(Len(promise) + 1, u.kind, u.args, u.db, FALSE))
    BY DEF OwnSelect, Cmd, AgreedInv, OrderlyInv, ForeignInv, TypeOK, PromiseSeq
  <2>3. UNCHANGED <<stream, ready, reactions>>
    BY <1>8 DEF Issue, turn
  <2> QED BY <2>1, <2>2, <2>3, DbSend
<1>9. CASE Resubscribe
  <2>1. UNCHANGED <<stream, ready, reactions>>
    BY <1>9 DEF Resubscribe
  <2>2. ASSUME NEW key, SendOwn(Cmd(0, "subscribe", <<key>>, DefaultDb, FALSE), FALSE, modes)
        PROVE  DbFits'
    <3>1. ~OwnSelect(Cmd(0, "subscribe", <<key>>, DefaultDb, FALSE))
      BY DEF OwnSelect, Cmd
    <3> QED BY <2>1, <2>2, <3>1, DbSend DEF SendOwn
  <2> QED BY <1>1, <1>9, <2>1, <2>2 DEF Resubscribe, wire
<1>10. CASE SendOfflineQueue
  <2>1. UNCHANGED <<stream, ready, reactions>>
    BY <1>10 DEF SendOfflineQueue
  <2>2. CASE offlineQueue # <<>>
    <3>1. ~OwnSelect(Head(offlineQueue))
      <4>1. Head(offlineQueue).id # 0
        BY <2>2, FitQueues DEF AgreedInv, OrderlyInv, ForeignInv, TypeOK, Fit, PipesFit
      <4> QED BY <4>1 DEF OwnSelect
    <3> QED BY <1>10, <2>1, <2>2, <3>1, DbSend DEF SendOfflineQueue
  <2> QED BY <1>1, <1>10, <2>1, <2>2 DEF SendOfflineQueue, wire
<1>11. CASE RestoreMonitor
  BY <1>1, <1>11 DEF RestoreMonitor, wire, connection, modal
<1>12. CASE CheckTimer \/ AuthTimer
  BY <1>12 DEF CheckTimer, AuthTimer, AgreedInv, OrderlyInv, Fit, TurnFits
<1>13. CASE UNCHANGED vars
  BY <1>1, <1>13 DEF vars, wire, connection, modal, turn
<1> QED
  BY <1>2, <1>3, <1>4, <1>5, <1>6, <1>7, <1>8, <1>9, <1>10, <1>11, <1>12, <1>13, DbReaction,
    DbReady
  DEF Next, IOEvent, Timer, Continue

\* The database a quiet client believes selected is the one its connection uses,
\* across any number of reconnects, and though the reactions to a SELECT may run
\* after other replies or after the connection is lost (client.js:768, 283-291).
THEOREM DatabaseRestored ==
  ASSUME OrderlyClient, HasPassword
  PROVE  Spec => []DbRestored
<1>1. Init => DbFits
  BY WireAssumption DEF Init, WireInit, DbFits, Open, Streams
<1>2. AgreedInv /\ DbFits /\ [Next]_vars => DbFits'
  BY DbFitsStep
<1>3. DbFits => DbRestored
  <2> SUFFICES ASSUME DbFits, Quiet, modes.selectedDb # Null
               PROVE  srv[stream].db = modes.selectedDb
    BY DEF DbRestored
  <2>1. DbAgrees(<<>>, <<>>, modes.selectedDb, srv[stream].db)
    BY DEF Quiet, DbFits, Open, SelectPending
  <2> QED BY <2>1 DEF DbAgrees, Noted
<1> QED BY <1>1, <1>2, <1>3, AgreedCorrect, PTL DEF Spec

------------------------------------------------------------------------------
(***************************************************************************)
(* The subscriptions of a client that selects no database and does not     *)
(* unsubscribe: either makes the code leave subscriptions unrestored.      *)
(***************************************************************************)
Subscriber ==
  /\ OrderlyClient /\ HasPassword
  /\ \A u \in UserCommands : u.kind \notin {"select", "unsubscribe"}

Keeping(q) == \A i \in DOMAIN q : q[i].kind \notin {"select", "unsubscribe"}

\* The server is subscribed to ch, or will be.
Covered(ch) ==
  \/ ch \in srv[stream].subs
  \/ \E i \in DOMAIN toServer[stream] : Adds(toServer[stream][i], ch)
  \/ task = "resubscribe" /\ ch \in resubKeys

SubsFits ==
  /\ Restored.selectedDb = Null
  /\ subscriptionSet # {} => Restored.pubSubMode
  /\ ready => oldState = Null
  /\ Keeping(offlineQueue) /\ Keeping(commandQueue)
  /\ \A i \in DOMAIN reactions : reactions[i].run \in {"onReady", "authDone"}
  /\ \A i \in DOMAIN toClient[stream] : ~toClient[stream][i].none
  /\ Open /\ ready => \A ch \in subscriptionSet : Covered(ch)

\* What such a queue keeps when it grows or is shortened.
LEMMA KeepingQueues ==
  ASSUME NEW q \in CommandSeq, Keeping(q)
  PROVE  /\ Keeping(<<>>)
         /\ \A c : c.kind \notin {"select", "unsubscribe"} => Keeping(Append(q, c))
         /\ q # <<>> => /\ Head(q).kind \notin {"select", "unsubscribe"} /\ Keeping(Tail(q))
                        /\ Last(q).kind \notin {"select", "unsubscribe"}
<1>1. /\ DOMAIN q = 1..Len(q) /\ Len(q) \in Nat
      /\ \A x : /\ DOMAIN Append(q, x) = 1..(Len(q) + 1)
                /\ \A i \in DOMAIN q : Append(q, x)[i] = q[i]
                /\ Append(q, x)[Len(q) + 1] = x
      /\ q # <<>> => /\ 1 \in DOMAIN q /\ Head(q) = q[1]
                     /\ \A i \in DOMAIN Tail(q) : i + 1 \in DOMAIN q /\ Tail(q)[i] = q[i + 1]
      /\ q = <<>> <=> Len(q) = 0
  BY Places DEF CommandSeq
<1>2. \A x : \A i \in DOMAIN Append(q, x) : i \in DOMAIN q \/ i = Len(q) + 1
  BY <1>1
<1>3. Keeping(<<>>)
  BY DEF Keeping
<1>4. ASSUME NEW c, c.kind \notin {"select", "unsubscribe"} PROVE Keeping(Append(q, c))
  BY <1>1, <1>2, <1>4 DEF Keeping
<1>5. ASSUME q # <<>>
      PROVE  /\ Head(q).kind \notin {"select", "unsubscribe"} /\ Keeping(Tail(q))
             /\ Last(q).kind \notin {"select", "unsubscribe"}
  <2>1. Len(q) \in DOMAIN q
    BY <1>1, <1>5
  <2> QED BY <1>1, <1>5, <2>1 DEF Keeping, Last
<1> QED BY <1>3, <1>4, <1>5

\* A command is sent, and covers the channels it subscribes to.
LEMMA SubsSend ==
  ASSUME AgreedInv, SubsFits, NEW c \in Command, NEW force, NEW oq \in CommandSeq,
         Send(c, force, oq, modes), c.kind \notin {"select", "unsubscribe"}, Keeping(oq),
         force => c.kind # "subscribe",
         UNCHANGED <<stream, ready, oldState, reactions>>,
         \A ch \in resubKeys : task = "resubscribe" =>
           \/ task' = "resubscribe" /\ ch \in resubKeys'
           \/ Disposition(c, force, modes) = "written" /\ Adds(c, ch)
  PROVE  SubsFits'
<1> DEFINE d == Disposition(c, force, modes)
<1>1. /\ commandQueue \in CommandSeq /\ modes \in Modes /\ stream \in Streams
      /\ toServer \in [Streams -> CommandSeq] /\ toServer[stream] \in CommandSeq
  BY DEF AgreedInv, OrderlyInv, ForeignInv, TypeOK, WireTypeOK
<1>2. UNCHANGED <<sock, toClient, srv>>
  BY DEF Send
<1>3. Keeping(offlineQueue)'
  BY KeepingQueues DEF Send
<1>4. ASSUME NEW ch \in resubKeys, task = "resubscribe", d # "written"
      PROVE  task' = "resubscribe" /\ ch \in resubKeys'
  BY <1>4
<1>5. CASE d # "written"
  <2>1. UNCHANGED <<commandQueue, toServer, subscriptionSet>> /\ modes' = modes
    BY <1>5 DEF Send
  <2>2. \A ch : Covered(ch) => Covered(ch)'
    BY <1>2, <1>4, <1>5, <2>1 DEF Covered
  <2> QED BY <1>2, <1>3, <2>1, <2>2 DEF SubsFits, Restored, Open
<1>6. CASE d = "written"
  <2>1. /\ commandQueue' = Append(commandQueue, c) /\ modes' = ModesAfter(c, modes)
        /\ toServer'[stream] = Append(toServer[stream], c)
        /\ subscriptionSet' = SubscriptionsAfter(c)
    BY <1>1, <1>6 DEF Send
  <2>2. Keeping(commandQueue)'
    BY <1>1, <2>1, KeepingQueues DEF SubsFits
  <2>3. c.kind = "subscribe" => ready
    BY <1>6 DEF Disposition
  <2>4. /\ modes'.selectedDb = modes.selectedDb /\ (modes.pubSubMode => modes'.pubSubMode)
        /\ c.kind = "subscribe" => modes'.pubSubMode
    BY <1>1, <2>1 DEF ModesAfter, Modes, SubKinds
  <2>5. Restored'.selectedDb = Null
    BY <2>4 DEF SubsFits, Restored
  <2>6. \A ch \in subscriptionSet' : ch \in subscriptionSet \/ Adds(c, ch)
    BY <2>1 DEF SubscriptionsAfter, Adds
  <2>7. subscriptionSet' # {} => Restored'.pubSubMode
    <3>1. CASE c.kind = "subscribe"
      BY <2>3, <2>4, <3>1 DEF SubsFits, Restored
    <3>2. CASE c.kind # "subscribe"
      BY <2>4, <2>6, <3>2 DEF SubsFits, Restored, Adds
    <3> QED BY <3>1, <3>2
  <2>8. \A ch : Adds(c, ch) => Covered(ch)'
    <3>1. /\ Len(toServer[stream]) + 1 \in DOMAIN Append(toServer[stream], c)
          /\ Append(toServer[stream], c)[Len(toServer[stream]) + 1] = c
      BY <1>1 DEF CommandSeq
    <3> QED BY <2>1, <3>1 DEF Covered
  <2>9. \A ch : Covered(ch) => Covered(ch)'
    <3>1. \A i \in DOMAIN toServer[stream] :
            /\ i \in DOMAIN Append(toServer[stream], c)
            /\ Append(toServer[stream], c)[i] = toServer[stream][i]
      BY <1>1 DEF CommandSeq
    <3>2. \A ch \in resubKeys : task = "resubscribe" =>
            (task' = "resubscribe" /\ ch \in resubKeys') \/ Adds(c, ch)
      OBVIOUS
    <3> QED BY <1>2, <2>1, <2>8, <3>1, <3>2 DEF Covered
  <2>10. Open' /\ ready' => \A ch \in subscriptionSet' : Covered(ch)'
    BY <1>2, <2>6, <2>8, <2>9 DEF SubsFits, Open
  <2> QED BY <1>2, <1>3, <2>2, <2>5, <2>7, <2>10 DEF SubsFits
<1> QED BY <1>5, <1>6

\* The server takes a command: it leaves no subscription, and says so.
LEMMA ExecutedSubs ==
  ASSUME NEW v \in ServerState, NEW c \in Command, Fits(c), c.kind # "unsubscribe"
  PROVE  /\ v.subs \subseteq Executed(v, c).subs
         /\ \A r : Replies(v, c) \in {<<r>>, <<r, Push("eof")>>} => ~r.none
         /\ \A ch : Adds(c, ch) /\ (RequirePass => v.authed) => ch \in Executed(v, c).subs
<1>1. v.subs \subseteq Executed(v, c).subs
  BY DEF Executed, ServerState
<1>2. ASSUME NEW ch, Adds(c, ch), RequirePass => v.authed PROVE ch \in Executed(v, c).subs
  BY <1>2 DEF Executed, ServerState, Refuses, Adds, SubKinds
<1>3. ASSUME NEW r, Replies(v, c) \in {<<r>>, <<r, Push("eof")>>} PROVE ~r.none
  <2>1. r = Replies(v, c)[1]
    BY <1>3
  <2>2. CASE Refuses(v, c)
    BY <2>1, <2>2 DEF Replies, ReplyTo
  <2>3. CASE ~Refuses(v, c) /\ c.kind # "subscribe"
    BY <2>1, <2>3 DEF Replies, ReplyTo, AuthReply
  <2>4. CASE ~Refuses(v, c) /\ c.kind = "subscribe"
    <3> DEFINE a == c.args
    <3>1. a \in Seq(Channels) /\ Len(a) = 1
      BY <2>4 DEF Command, Fits, AnsweredOnce, SubKinds
    <3> HIDE DEF a
    <3>2. 1 \in DOMAIN a
      BY <3>1, Places
    <3>3. r = SubscriptionReply(c, {a[1]})
      BY <2>1, <2>4, <3>2 DEF Replies, SubscribeReplies, a
    <3> QED BY <3>3 DEF SubscriptionReply
  <2> QED BY <2>2, <2>3, <2>4
<1> QED BY <1>1, <1>2, <1>3

\* The server moves.
LEMMA SubsServer ==
  ASSUME OrderlyClient, AgreedInv, SubsFits, NEW s \in Streams, Server(s)
  PROVE  SubsFits'
<1> DEFINE q == toClient[stream] ts == toServer[stream] v == srv[stream]
           q2 == toClient'[stream] ts2 == toServer'[stream] v2 == srv'[stream]
           eof == Push("eof")
<1>1. /\ s = stream /\ Open /\ Open'
      /\ UNCHANGED <<stream, ready, reactions, modes, oldState, subscriptionSet, commandQueue,
                     offlineQueue, task, resubKeys>>
  BY ServerMoves DEF Server, connection, modal, commands, turn, AgreedInv, Open
<1>2. /\ q \in ReplySeq /\ ts \in CommandSeq /\ v \in ServerState /\ commandQueue \in CommandSeq
  BY DEF AgreedInv, OrderlyInv, ForeignInv, TypeOK, WireTypeOK
<1>3. /\ AllFit(ts) /\ Owed(q, ts, commandQueue)
      /\ RequirePass /\ ~v.authed => ~ready
      /\ \A i \in DOMAIN q : ~q[i].none
  BY <1>1 DEF AgreedInv, AuthInv, AuthFits, OrderlyInv, Fit, PipesFit, LineFits, SubsFits
<1>4. ~eof.none /\ \A type : ~Push(type).none
  BY DEF Push
<1>5. \A x \in ReplySeq : \A y : (\A i \in DOMAIN x : ~x[i].none) /\ ~y.none =>
        \A i \in DOMAIN Append(x, y) : ~Append(x, y)[i].none
  <2>1. \A x \in ReplySeq : \A y : \A i \in DOMAIN Append(x, y) :
          (i \in DOMAIN x /\ Append(x, y)[i] = x[i]) \/ Append(x, y)[i] = y
    BY Places DEF ReplySeq
  <2> QED BY <2>1
<1> HIDE DEF q, q2, v, v2, eof, ts2
<1>6. SUFFICES /\ \A i \in DOMAIN q2 : ~q2[i].none
               /\ ready => \A ch \in subscriptionSet : Covered(ch)'
  BY <1>1, <1>6 DEF SubsFits, Restored, q2
<1>7. ready => \A ch \in subscriptionSet :
        \/ ch \in v.subs
        \/ \E i \in DOMAIN ts : Adds(ts[i], ch)
        \/ task = "resubscribe" /\ ch \in resubKeys
  BY <1>1 DEF SubsFits, Covered, v
<1>8. ASSUME NEW ch,
             \/ \E i \in DOMAIN ts2 : Adds(ts2[i], ch)
             \/ ch \in v2.subs
             \/ task = "resubscribe" /\ ch \in resubKeys
      PROVE  Covered(ch)'
  BY <1>1, <1>8 DEF Covered, ts2, v2
<1>9. CASE \E r \in Reply :
             /\ ts # <<>> /\ ts2 = Tail(ts) /\ v2 = Executed(v, Head(ts))
             /\ q2 = Append(q, r) \/ q2 = Append(Append(q, r), eof)
             /\ Replies(v, Head(ts)) \in {<<r>>, <<r, Push("eof")>>}
  <2>1. PICK r \in Reply :
             /\ ts # <<>> /\ ts2 = Tail(ts) /\ v2 = Executed(v, Head(ts))
             /\ q2 = Append(q, r) \/ q2 = Append(Append(q, r), eof)
             /\ Replies(v, Head(ts)) \in {<<r>>, <<r, Push("eof")>>}
    BY <1>9
  <2> DEFINE c == Head(ts)
  <2>2. /\ c \in Command /\ Fits(c) /\ 1 \in DOMAIN ts /\ ts[1] = c
        /\ \A i \in DOMAIN ts : i = 1 \/ (i - 1 \in DOMAIN ts2 /\ ts2[i - 1] = ts[i])
    <3>1. c \in Command /\ Fits(c)
      BY <1>2, <1>3, <2>1, CommandQueues, FitQueues
    <3>2. /\ 1 \in DOMAIN ts /\ ts[1] = c /\ DOMAIN ts = 1..Len(ts) /\ Len(ts) \in Nat
          /\ DOMAIN Tail(ts) = 1..(Len(ts) - 1)
          /\ \A i \in DOMAIN Tail(ts) : Tail(ts)[i] = ts[i + 1]
      BY <1>2, <2>1, Places DEF CommandSeq
    <3>3. ASSUME NEW i \in DOMAIN ts, i # 1
          PROVE  i - 1 \in DOMAIN Tail(ts) /\ Tail(ts)[i - 1] = ts[i]
      <4>1. i - 1 \in DOMAIN Tail(ts) /\ (i - 1) + 1 = i
        BY <3>2, <3>3
      <4> QED BY <3>2, <4>1
    <3> QED BY <2>1, <3>1, <3>2, <3>3
  <2>3. c.kind # "unsubscribe"
    <3>1. PICK j \in DOMAIN commandQueue : commandQueue[j] = c
      BY <1>2, <1>3, <2>2, OwedTakes
    <3> QED BY <3>1 DEF SubsFits, Keeping
  <2>4. /\ v.subs \subseteq v2.subs /\ ~r.none
        /\ \A ch : Adds(c, ch) /\ (RequirePass => v.authed) => ch \in v2.subs
    BY <1>2, <2>1, <2>2, <2>3, ExecutedSubs
  <2>5. \A i \in DOMAIN q2 : ~q2[i].none
    <3>1. Append(q, r) \in ReplySeq /\ \A i \in DOMAIN Append(q, r) : ~Append(q, r)[i].none
      <4>1. Append(q, r) \in ReplySeq
        BY <1>2 DEF ReplySeq
      <4> QED BY <1>2, <1>3, <1>5, <2>4, <4>1
    <3> QED BY <1>4, <1>5, <2>1, <3>1
  <2>6. ASSUME ready, NEW ch \in subscriptionSet PROVE Covered(ch)'
    <3>1. CASE ch \in v.subs \/ (task = "resubscribe" /\ ch \in resubKeys)
      BY <1>8, <2>4, <3>1
    <3>2. CASE \E i \in DOMAIN ts : Adds(ts[i], ch)
      <4>1. PICK i \in DOMAIN ts : Adds(ts[i], ch)
        BY <3>2
      <4>2. CASE i = 1
        <5>1. RequirePass => v.authed
          BY <1>3, <2>6
        <5> QED BY <1>8, <2>2, <2>4, <4>1, <4>2, <5>1
      <4>3. CASE i # 1
        BY <1>8, <2>2, <4>1, <4>3
      <4> QED BY <4>2, <4>3
    <3> QED BY <1>7, <2>6, <3>1, <3>2
  <2> QED BY <2>5, <2>6
<1>10. CASE ts2 = ts /\ v2 = v /\ \E type : q2 = Append(q, Push(type))
  <2>1. \A i \in DOMAIN q2 : ~q2[i].none
    BY <1>2, <1>3, <1>4, <1>5, <1>10
  <2>2. ASSUME ready, NEW ch \in subscriptionSet PROVE Covered(ch)'
    BY <1>7, <1>8, <1>10, <2>2
  <2> QED BY <2>1, <2>2
<1>11. \/ \E r \in Reply :
             /\ ts # <<>> /\ ts2 = Tail(ts) /\ v2 = Executed(v, Head(ts))
             /\ q2 = Append(q, r) \/ q2 = Append(Append(q, r), eof)
             /\ Replies(v, Head(ts)) \in {<<r>>, <<r, Push("eof")>>}
       \/ ts2 = ts /\ v2 = v /\ \E type : q2 = Append(q, Push(type))
  BY <1>1, ServerMoves DEF AgreedInv, q, v, q2, ts2, v2, eof
<1> QED BY <1>9, <1>10, <1>11

\* The client hears a reply or a message.
LEMMA SubsData ==
  ASSUME OrderlyClient, AgreedInv, SubsFits, NEW s \in Streams, OnData(s)
  PROVE  SubsFits'
<1> DEFINE q == toClient[stream] r == Head(q)
<1>1. /\ s = stream /\ Open /\ q # <<>>
      /\ UNCHANGED <<stream, sock, toServer, srv, ready, offlineQueue, oldState, subscriptionSet,
                     task, resubKeys>>
  BY OnlyStream DEF OnData, AgreedInv, OrderlyInv, UsableInv, Gone, Open, connection
<1>2. /\ q \in ReplySeq /\ toClient'[stream] = Tail(q) /\ modes \in Modes
      /\ commandQueue \in CommandSeq /\ reactions \in ReactionSeq
  BY <1>1 DEF OnData, AgreedInv, OrderlyInv, ForeignInv, TypeOK, WireTypeOK
<1>3. ~r.none /\ \A i \in DOMAIN Tail(q) : ~Tail(q)[i].none
  <2>1. 1 \in DOMAIN q /\ r = q[1]
        /\ \A i \in DOMAIN Tail(q) : i + 1 \in DOMAIN q /\ Tail(q)[i] = q[i + 1]
    BY <1>1, <1>2, Places DEF ReplySeq
  <2> QED BY <2>1 DEF SubsFits
<1>4. \A ch : Covered(ch) => Covered(ch)'
  BY <1>1 DEF Covered
<1>5. SUFFICES /\ modes'.selectedDb = modes.selectedDb
               /\ modes.pubSubMode => modes'.pubSubMode
               /\ Keeping(commandQueue)'
               /\ \A i \in DOMAIN reactions' : reactions'[i].run \in {"onReady", "authDone"}
  <2> HIDE DEF q, r
  <2> QED BY <1>1, <1>2, <1>3, <1>4, <1>5 DEF SubsFits, Restored, Open, Keeping
<1>6. CASE r.cmd = Null
  <2>1. UNCHANGED <<commandQueue, reactions, modes>>
    BY <1>1, <1>6, MessageHeard DEF AgreedInv
  <2> QED BY <1>1, <2>1 DEF SubsFits, Keeping
<1>7. CASE r.cmd # Null
  <2>1. /\ commandQueue # <<>> /\ Head(commandQueue) = r.cmd
        /\ commandQueue' = Tail(commandQueue) /\ Outcome(reactions, reactions', r.cmd)
        /\ r.type = "subscription" => modes' = [modes EXCEPT !.pubSubMode = ~r.none]
        /\ r.type # "subscription" => modes' = modes
    BY <1>1, <1>7, ReplyHeard DEF AgreedInv
  <2>2. r.cmd.kind # "select" /\ Keeping(Tail(commandQueue))
    BY <1>2, <2>1, KeepingQueues DEF SubsFits
  <2>3. \A i \in DOMAIN reactions' : reactions'[i].run \in {"onReady", "authDone"}
    <3>1. \A i \in DOMAIN reactions : reactions[i].run \in {"onReady", "authDone"}
      BY DEF SubsFits
    <3>2. ASSUME reactions' # reactions
          PROVE  \E x : reactions' = Append(reactions, x) /\ x.run \in {"onReady", "authDone"}
      <4>1. PICK run \in {"onReady", "authDone", "selectResolved", "resetPubSub"} :
              reactions' = Append(reactions, [run |-> run, cmd |-> r.cmd]) /\ Settles(run, r.cmd)
        BY <2>1, <3>2 DEF Outcome
      <4>2. run \in {"onReady", "authDone"}
        BY <2>2, <4>1 DEF Settles, OwnSelect
      <4>3. [run |-> run, cmd |-> r.cmd].run = run
        OBVIOUS
      <4> QED BY <4>1, <4>2, <4>3
    <3>3. CASE reactions' # reactions
      <4>1. PICK x : reactions' = Append(reactions, x) /\ x.run \in {"onReady", "authDone"}
        BY <3>2, <3>3
      <4>2. \A i \in DOMAIN reactions' :
              (i \in DOMAIN reactions /\ reactions'[i] = reactions[i]) \/ reactions'[i] = x
        BY <1>2, <4>1, Places DEF ReactionSeq
      <4> QED BY <3>1, <4>1, <4>2
    <3> QED BY <3>1, <3>3
  <2>4. modes'.selectedDb = modes.selectedDb /\ (modes.pubSubMode => modes'.pubSubMode)
    BY <1>2, <1>3, <2>1 DEF Modes
  <2> QED BY <2>1, <2>2, <2>3, <2>4 DEF Keeping
<1> QED BY <1>6, <1>7

\* The connection is lost: the modes are kept for the next.
LEMMA SubsLost ==
  ASSUME OrderlyClient, AgreedInv, SubsFits, NEW s \in Streams,
         OnEnd(s) \/ OnClose(s) \/ OnError(s) \/ End
  PROVE  SubsFits'
<1>1. ~Open'
  BY LossCloses DEF AgreedInv
<1>2. /\ modes \in Modes /\ commandQueue \in CommandSeq /\ offlineQueue \in CommandSeq
      /\ toClient \in [Streams -> ReplySeq] /\ stream \in Streams
  BY DEF AgreedInv, OrderlyInv, ForeignInv, TypeOK, WireTypeOK
<1>3. UNCHANGED <<stream, subscriptionSet>> /\ reactions = <<>>
  <2>1. UNCHANGED <<stream, subscriptionSet>> /\ ~Starting
    BY DEF OnEnd, OnClose, OnError, End, ConnectionGone, LossTurn, OrderlyClient, connection, modal
  <2>2. DOMAIN reactions = {}
    BY <2>1 DEF Starting, SubsFits
  <2>3. reactions = <<>>
    <3>1. reactions \in Seq(Reaction)
      BY DEF AgreedInv, OrderlyInv, ForeignInv, TypeOK, ReactionSeq
    <3> QED BY <2>2, <3>1
  <2> QED BY <2>1, <2>3
<1>4. \A i \in DOMAIN toClient'[stream] : ~toClient'[stream][i].none
  <2>1. toClient'[stream] = <<>> \/ toClient'[stream] = toClient[stream]
    BY <1>2 DEF OnEnd, OnClose, OnError, End, Drop, SetSock
  <2> QED BY <2>1 DEF SubsFits
<1>5. \/ /\ UNCHANGED <<commandQueue, offlineQueue, reactions>>
         /\ ready' => ready /\ UNCHANGED <<oldState, modes>>
      \/ GoDown
  BY ReadyNoTimer
  DEF OnEnd, OnClose, OnError, End, ConnectionGone, Reconnect, commands, connection, modal, turn,
    AgreedInv, OrderlyInv
<1>6. UNCHANGED <<oldState, modes>> \/ SaveModes
  BY DEF OnEnd, OnClose, OnError, End, ConnectionGone, Reconnect, modal
<1>7. Restored' = Restored
  <2>1. CASE oldState = Null /\ SaveModes
    <3>1. oldState' = modes /\ modes # Null
      BY <1>2, <2>1, NullAssumption DEF SaveModes
    <3> QED BY <2>1, <3>1 DEF Restored
  <2>2. CASE UNCHANGED <<oldState, modes>>
    BY <2>2 DEF Restored
  <2> QED BY <1>6, <2>1, <2>2 DEF SaveModes
<1>8. ready' => oldState' = Null
  BY <1>5 DEF SubsFits, GoDown
<1>9. /\ Keeping(offlineQueue)' /\ Keeping(commandQueue)'
      /\ \A i \in DOMAIN reactions' : reactions'[i].run \in {"onReady", "authDone"}
  <2>1. CASE UNCHANGED <<commandQueue, offlineQueue, reactions>>
    BY <2>1 DEF SubsFits, Keeping
  <2>2. CASE GoDown
    <3>1. offlineQueue' = <<>> /\ commandQueue' = <<>>
      BY <2>2 DEF GoDown, FlushAndError
    <3>2. CASE offlineQueue \o commandQueue = <<>>
      <4>1. reactions' = <<>>
        BY <1>3, <2>2, <3>2 DEF GoDown, FlushAndError
      <4> QED BY <3>1, <4>1 DEF Keeping
    <3>3. CASE offlineQueue \o commandQueue # <<>>
      <4> DEFINE c == Last(offlineQueue \o commandQueue)
      <4>1. c.kind # "select"
        BY <1>2, <3>3, LastOfBoth, KeepingQueues DEF SubsFits
      <4>2. reactions' = <<>> \o <<>>
        BY <1>3, <2>2, <3>3, <4>1 DEF GoDown, FlushAndError, RejectReactions
      <4> QED BY <3>1, <4>2 DEF Keeping
    <3> QED BY <3>2, <3>3
  <2> QED BY <1>5, <2>1, <2>2
<1> QED BY <1>1, <1>3, <1>4, <1>7, <1>8, <1>9 DEF SubsFits

\* A connection is made, or another is tried.
LEMMA SubsStart ==
  ASSUME OrderlyClient, AgreedInv, SubsFits, NEW s \in Streams, OnConnect(s) \/ RetryConnection
  PROVE  SubsFits'
<1>1. UNCHANGED <<offlineQueue, modes, oldState, subscriptionSet, reactions>>
  BY DEF OnConnect, RetryConnection, commands, modal, turn
<1>2. CASE OnConnect(s)
  <2>1. ~ready' /\ commandQueue' = <<>> /\ UNCHANGED <<stream, toClient>>
    BY <1>2 DEF OnConnect, SetSock
  <2> QED BY <1>1, <2>1 DEF SubsFits, Restored, Keeping
<1>3. CASE RetryConnection
  <2>1. ~Open' /\ UNCHANGED <<ready, commandQueue, toClient>>
    BY <1>3, LossCloses DEF RetryConnection, SetSock, commands, AgreedInv
  <2>2. toClient[stream'] = <<>>
    <3>1. stream \in Nat /\ stream' = stream + 1 /\ stream' \in Streams
      BY <1>3, WireAssumption
      DEF RetryConnection, AgreedInv, OrderlyInv, ForeignInv, TypeOK, Streams
    <3> QED BY <3>1 DEF AgreedInv, OrderlyInv, ForeignInv, FutureUnused, Unused
  <2> QED BY <1>1, <2>1, <2>2 DEF SubsFits, Restored, Keeping
<1> QED BY <1>2, <1>3

\* onReady has every key of subscriptionSet resubscribed.
LEMMA SubsReady ==
  ASSUME OrderlyClient, AgreedInv, SubsFits, OnReady
  PROVE  SubsFits'
<1>1. RestoreModes(Restored) /\ oldState' = Null /\ stream' = stream
  BY DEF OnReady, SubsFits
<1>2. /\ modes' = Restored
      /\ UNCHANGED <<toClient, commandQueue, offlineQueue, subscriptionSet, reactions>>
  BY <1>1 DEF RestoreModes, wire, commands
<1>3. Restored' = Restored
  BY <1>1, <1>2 DEF Restored
<1>4. ASSUME NEW ch \in subscriptionSet PROVE Covered(ch)'
  <2>1. task' = "resubscribe" /\ resubKeys' = subscriptionSet
    BY <1>1, <1>4 DEF SubsFits, RestoreModes, RestoreTask
  <2> QED BY <2>1 DEF Covered
<1> QED BY <1>1, <1>2, <1>3, <1>4 DEF SubsFits, Keeping

\* The reactions that are left lead to the client's getting ready.
LEMMA SubsReaction ==
  ASSUME OrderlyClient, AgreedInv, SubsFits, RunReaction
  PROVE  SubsFits'
<1> DEFINE r == Head(reactions)
<1>1. /\ r = reactions[1] /\ 1 \in DOMAIN reactions
      /\ \A i \in DOMAIN Tail(reactions) :
           i + 1 \in DOMAIN reactions /\ Tail(reactions)[i] = reactions[i + 1]
      /\ r.run # "selectResolved" => reactions' = Tail(reactions)
  BY ReactionTaken DEF AgreedInv
<1>2. r.run \in {"onReady", "authDone"}
  BY <1>1 DEF SubsFits
<1>3. ~(Open /\ ready)
  BY <1>1, <1>2 DEF AgreedInv, OrderlyInv, Fit, ReadyFits
<1>4. /\ UNCHANGED <<stream, sock, toClient, ready, commandQueue, offlineQueue, oldState,
                     subscriptionSet, modes>>
  BY <1>2 DEF RunReaction, ReactionEffect, wire, commands
<1>5. \A i \in DOMAIN reactions' : reactions'[i].run \in {"onReady", "authDone"}
  BY <1>1, <1>2 DEF SubsFits
<1> QED BY <1>3, <1>4, <1>5 DEF SubsFits, Restored, Open, Keeping

\* The loop of onReady over the keys.
LEMMA SubsLoop ==
  ASSUME OrderlyClient, AgreedInv, SubsFits, Resubscribe
  PROVE  SubsFits'
<1>1. /\ Open /\ ready /\ task = "resubscribe" /\ resubKeys \subseteq Channels
      /\ UNCHANGED <<stream, ready, oldState, reactions>>
  BY DEF Resubscribe, AgreedInv, OrderlyInv, Fit, TurnFits, ForeignInv, TypeOK
<1>2. ASSUME NEW key \in resubKeys,
             SendOwn(Cmd(0, "subscribe", <<key>>, DefaultDb, FALSE), FALSE, modes),
             resubKeys' = resubKeys \ {key}, UNCHANGED task
      PROVE  SubsFits'
  <2> DEFINE c == Cmd(0, "subscribe", <<key>>, DefaultDb, FALSE)
  <2>1. c \in Command /\ c.kind = "subscribe"
    BY <1>1, WireAssumption DEF Cmd, Command, Kinds, SubKinds
  <2>2. Adds(c, key)
    BY DEF Adds, Cmd, ToSet
  <2>3. Send(c, FALSE, offlineQueue, modes)
    BY <1>2 DEF SendOwn
  <2> HIDE DEF c
  <2>4. Disposition(c, FALSE, modes) = "written"
    BY <1>1, <2>1 DEF Disposition, Writable, Barred, Open, SubKinds
  <2>5. offlineQueue \in CommandSeq /\ Keeping(offlineQueue)
    BY DEF AgreedInv, OrderlyInv, ForeignInv, TypeOK, SubsFits
  <2> QED BY <1>1, <1>2, <2>1, <2>2, <2>3, <2>4, <2>5, SubsSend
<1>3. ASSUME resubKeys = {}, UNCHANGED <<wire, commands, modes, subscriptionSet>>
      PROVE  SubsFits'
  <2>1. UNCHANGED <<sock, toClient, toServer, srv, commandQueue, offlineQueue>>
    BY <1>3 DEF wire, commands
  <2>2. \A ch : Covered(ch) => Covered(ch)'
    BY <1>1, <1>3, <2>1 DEF Covered
  <2> QED BY <1>1, <1>3, <2>1, <2>2 DEF SubsFits, Restored, Open, Keeping
<1> QED BY <1>2, <1>3 DEF Resubscribe

\* Every step.
LEMMA SubsFitsStep ==
  ASSUME Subscriber, AgreedInv, SubsFits, [Next]_vars
  PROVE  SubsFits'
<1>0. OrderlyClient /\ offlineQueue \in CommandSeq /\ Keeping(offlineQueue)
  BY DEF Subscriber, AgreedInv, OrderlyInv, ForeignInv, TypeOK, SubsFits
<1>1. CASE UNCHANGED <<wire, stream, ready, commands, modes, oldState, subscriptionSet, reactions>>
           /\ (task = "resubscribe" => UNCHANGED <<task, resubKeys>>)
  <2>1. UNCHANGED <<sock, toServer, toClient, srv, commandQueue, offlineQueue>>
    BY <1>1 DEF wire, commands
  <2>2. \A ch : Covered(ch) => Covered(ch)'
    BY <1>1, <2>1 DEF Covered
  <2> QED BY <1>1, <2>1, <2>2 DEF SubsFits, Restored, Open, Keeping
<1>2. ASSUME NEW s \in Streams, Server(s) \/ IOEvent(s) PROVE SubsFits'
  BY <1>0, <1>2, SubsServer, SubsStart, SubsData, SubsLost DEF IOEvent
<1>3. CASE RetryConnection
  <2>1. 1 \in Streams
    BY WireAssumption DEF Streams
  <2> QED BY <1>0, <1>3, <2>1, SubsStart
<1>4. CASE End
  <2>1. 1 \in Streams
    BY WireAssumption DEF Streams
  <2> QED BY <1>0, <1>4, <2>1, SubsLost
<1>5. CASE CheckTimer \/ AuthTimer
  BY <1>5 DEF CheckTimer, AuthTimer, AgreedInv, OrderlyInv, Fit, TurnFits
<1>6. CASE OnReady \/ Resubscribe \/ RunReaction
  BY <1>0, <1>6, SubsReady, SubsLoop, SubsReaction
<1>7. CASE DoAuth \/ ReadyCheck
  <2>1. PICK kind \in {"auth", "info"} : SendOwn(Internal(kind), TRUE, modes)
    BY <1>7 DEF DoAuth, ReadyCheck
  <2>2. /\ Internal(kind) \in Command /\ Internal(kind).kind = kind
        /\ Send(Internal(kind), TRUE, offlineQueue, modes)
    BY <2>1, InternalType DEF Internal, Cmd, SendOwn, Kinds
  <2>3. UNCHANGED <<stream, ready, oldState, reactions>> /\ task # "resubscribe"
    BY <1>7 DEF DoAuth, ReadyCheck
  <2> QED BY <1>0, <2>2, <2>3, SubsSend
<1>8. CASE RestoreMonitor
  BY <1>1, <1>8 DEF RestoreMonitor, connection, modal
<1>9. CASE SendOfflineQueue
  <2>1. UNCHANGED <<stream, ready, oldState, reactions>> /\ task # "resubscribe"
    BY <1>9 DEF SendOfflineQueue
  <2>2. CASE offlineQueue = <<>>
    <3>1. UNCHANGED <<wire, commands, modes, subscriptionSet>>
      BY <1>9, <2>2 DEF SendOfflineQueue, commands
    <3> QED BY <1>1, <2>1, <3>1
  <2>3. CASE offlineQueue # <<>>
    <3> DEFINE c == Head(offlineQueue) oq == Tail(offlineQueue)
    <3>1. c \in Command /\ oq \in CommandSeq
      BY <1>0, <2>3, CommandQueues
    <3>2. c.kind \notin {"select", "unsubscribe"} /\ Keeping(oq)
      BY <1>0, <2>3, KeepingQueues
    <3>3. Send(c, FALSE, oq, modes)
      BY <1>9, <2>3 DEF SendOfflineQueue
    <3> HIDE DEF c, oq
    <3> QED BY <2>1, <3>1, <3>2, <3>3, SubsSend
  <2> QED BY <2>2, <2>3
<1>10. CASE Issue
  <2>1. PICK u \in UserCommands :
          Send(Cmd(Len(promise) + 1, u.kind, u.args, u.db, FALSE), FALSE, offlineQueue, modes)
    BY <1>0, <1>10 DEF Issue, OrderlyClient
  <2> DEFINE c == Cmd(Len(promise) + 1, u.kind, u.args, u.db, FALSE)
  <2>2. c \in Command /\ c.kind \notin {"select", "unsubscribe"}
    BY ClientAssumption
    DEF AgreedInv, OrderlyInv, ForeignInv, TypeOK, PromiseSeq, Cmd, Command, Subscriber
  <2>3. UNCHANGED <<stream, ready, oldState, reactions>> /\ task # "resubscribe"
    BY <1>10 DEF Issue, turn, IOTurn, Idle
  <2> HIDE DEF c
  <2>4. Send(c, FALSE, offlineQueue, modes)
    BY <2>1 DEF c
  <2> QED BY <1>0, <2>2, <2>3, <2>4, SubsSend
<1>11. CASE UNCHANGED vars
  BY <1>1, <1>11 DEF vars, connection, modal, turn
<1> QED
  BY <1>2, <1>3, <1>4, <1>5, <1>6, <1>7, <1>8, <1>9, <1>10, <1>11 DEF Next, Timer, Continue

\* A quiet client in pub/sub mode is subscribed to the keys of subscriptionSet,
\* all of them and nothing else, across any number of reconnects
\* (client.js:293-304).
THEOREM SubscriptionsKept ==
  ASSUME Subscriber
  PROVE  Spec => []SubscriptionsRestored
<1>1. Init => SubsFits
  <2> SUFFICES ASSUME Init PROVE SubsFits
    OBVIOUS
  <2>1. ~ready /\ subscriptionSet = {} /\ reactions = <<>> /\ Restored = NoModes
    BY DEF Init, Restored
  <2>2. offlineQueue = <<>> /\ commandQueue = <<>> /\ toClient[stream] = <<>>
    BY WireAssumption DEF Init, WireInit, Streams
  <2> QED BY <2>1, <2>2 DEF SubsFits, NoModes, Keeping
<1>2. AgreedInv /\ SubsFits /\ [Next]_vars => SubsFits'
  BY SubsFitsStep
<1>3. SubsFits /\ NoForeignSubscription => SubscriptionsRestored
  <2> SUFFICES ASSUME SubsFits, NoForeignSubscription, Quiet
               PROVE  srv[stream].subs = subscriptionSet
    BY DEF SubscriptionsRestored
  <2>1. \A ch \in subscriptionSet : ch \in srv[stream].subs
    BY DEF SubsFits, Quiet, Open, Covered, Idle
  <2> QED BY <2>1 DEF NoForeignSubscription
<1>4. OrderlyClient /\ HasPassword
  BY DEF Subscriber
<1> QED BY <1>1, <1>2, <1>3, <1>4, AgreedCorrect, NoneForeign, PTL DEF Spec
=============================================================================
