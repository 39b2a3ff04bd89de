---------------------------- MODULE StreamProofs -----------------------------
(***************************************************************************)
(* One stream at a time.  When no retry timer runs out between 'end' and   *)
(* 'close', the stream the client holds is the only one alive, a retry is  *)
(* scheduled only when it is not, and so a client that closes opens no     *)
(* connection again.  When the reactions that start the client run before  *)
(* the connection they start is lost, a client that is ready has an open   *)
(* stream; the proofs about order and agreement rest on that.              *)
(***************************************************************************)
EXTENDS RedisClientProofs

Gone == {"closed", "detached"}

Alive == {"connecting", "open"}

\* The streams before the present one are closed, those after it not made; a
\* retry timer runs only beside a dead stream of a client that does not close.
OneStream ==
  /\ \A s \in Streams : s < stream => sock[s] \in Gone
  /\ \A s \in Streams : s > stream => sock[s] = "none"
  /\ sock[stream] # "none"
  /\ retryTimer => sock[stream] \notin Alive /\ ~closing

StreamInv == TypeOK /\ OneStream

\* Any stream that is not closed and was made is the present one.
LEMMA OnlyStream ==
  StreamInv => \A s \in Streams : sock[s] \notin Gone \union {"none"} => s = stream
  BY DEF StreamInv, OneStream, TypeOK, Streams, Gone

\* Changing the state of the present stream, to anything but "none".
LEMMA PresentChanges ==
  ASSUME StreamInv, NEW state, state # "none", stream' = stream,
         sock' = [sock EXCEPT ![stream] = state],
         retryTimer' => state \notin Alive /\ ~closing'
  PROVE  OneStream'
<1>1. stream \in Streams /\ sock \in [Streams -> SockStates]
  BY DEF StreamInv, TypeOK, WireTypeOK
<1>2. \A s \in Streams : s < stream \/ s > stream => sock'[s] = sock[s]
  BY <1>1 DEF Streams
<1>3. sock'[stream] = state
  BY <1>1
<1> QED BY <1>1, <1>2, <1>3 DEF StreamInv, OneStream

\* Leaving sockets and stream alone, arming no timer and closing nothing.
LEMMA StreamKept ==
  ASSUME StreamInv, UNCHANGED <<sock, stream>>, retryTimer' => retryTimer /\ ~closing'
  PROVE  OneStream'
  BY DEF StreamInv, OneStream

\* Only a writable stream takes a QUIT, and beside it no timer runs.
LEMMA SendStream ==
  ASSUME StreamInv, NEW c, NEW force, NEW oq, NEW m, Send(c, force, oq, m),
         UNCHANGED <<stream, retryTimer>>
  PROVE  OneStream'
<1>1. sock' = sock
  BY DEF Send
<1>2. CASE Disposition(c, force, m) = "written"
  <2>1. Writable(stream)
    BY <1>2 DEF Disposition
  <2>2. ~retryTimer
    BY <2>1 DEF StreamInv, OneStream, Writable, Alive
  <2> QED BY <1>1, <2>2, StreamKept
<1>3. CASE Disposition(c, force, m) # "written"
  <2>1. closing' = closing
    BY <1>3 DEF Send
  <2> QED BY <1>1, <2>1, StreamKept DEF StreamInv, OneStream
<1> QED BY <1>2, <1>3

\* A socket's events are about the present stream.
LEMMA EventStream ==
  ASSUME StreamInv, NEW s \in Streams,
         OnConnect(s) \/ OnEnd(s) \/ OnClose(s) \/ OnError(s)
  PROVE  OneStream'
<1>1. s = stream /\ stream' = stream
  <2>1. sock[s] \notin Gone \union {"none"}
    BY DEF OnConnect, OnEnd, OnClose, OnError, Writable, Gone
  <2> QED BY <2>1, OnlyStream
    DEF OnConnect, OnEnd, OnClose, OnError, ConnectionGone, connection
<1>2. CASE OnConnect(s)
  <2>1. sock' = [sock EXCEPT ![stream] = "open"] /\ UNCHANGED <<retryTimer, closing>>
    BY <1>1, <1>2 DEF OnConnect, SetSock
  <2>2. ~retryTimer
    BY <1>1, <1>2 DEF OnConnect, StreamInv, OneStream, Alive
  <2> QED BY <1>1, <2>1, <2>2, PresentChanges
<1>3. ASSUME NEW state \in {"eof", "closed", "errored"},
             sock' = [sock EXCEPT ![stream] = state], closing' = closing,
             UNCHANGED retryTimer \/ Reconnect
      PROVE  OneStream'
  <2>1. retryTimer' => ~closing
    BY <1>3 DEF Reconnect, ScheduleRetry, StreamInv, OneStream
  <2>2. state # "none" /\ state \notin Alive
    BY <1>3 DEF Alive
  <2> QED BY <1>1, <1>3, <2>1, <2>2, PresentChanges
<1>4. CASE OnEnd(s) \/ OnClose(s)
  <2>1. /\ \E state \in {"eof", "closed"} : sock' = [sock EXCEPT ![stream] = state]
        /\ closing' = closing /\ Reconnect
    BY <1>1, <1>4 DEF OnEnd, OnClose, ConnectionGone, Drop, SetSock
  <2> QED BY <1>3, <2>1
<1>5. CASE OnError(s)
  <2>1. /\ sock' = [sock EXCEPT ![stream] = "errored"]
        /\ closing' = closing /\ (UNCHANGED retryTimer \/ Reconnect)
    BY <1>1, <1>5 DEF OnError, Drop, connection
  <2> QED BY <1>3, <2>1
<1> QED BY <1>2, <1>4, <1>5

\* A new stream is made when the last one is closed.
LEMMA RetryStream ==
  ASSUME StreamInv, ~LateClose, RetryConnection
  PROVE  OneStream'
<1>1. /\ stream \in Nat /\ stream + 1 \in Streams /\ stream' = stream + 1
      /\ sock \in [Streams -> SockStates] /\ stream \in Streams
  BY WireAssumption DEF RetryConnection, StreamInv, TypeOK, WireTypeOK, Streams
<1>2. sock[stream] \in Gone
  BY <1>1 DEF RetryConnection, StreamInv, OneStream, Alive, Gone, SockStates
<1>3. sock' = [sock EXCEPT ![stream + 1] = "connecting"] /\ retryTimer' = FALSE
  BY DEF RetryConnection, SetSock
<1>4. ASSUME NEW s \in Streams, s < stream' PROVE sock'[s] \in Gone
  <2>1. s < stream \/ s = stream
    BY <1>1, <1>4 DEF Streams
  <2>2. sock'[s] = sock[s]
    BY <1>1, <1>3, <1>4 DEF Streams
  <2> QED BY <1>2, <2>1, <2>2 DEF StreamInv, OneStream
<1>5. ASSUME NEW s \in Streams, s > stream' PROVE sock'[s] = "none"
  <2>1. s > stream /\ sock'[s] = sock[s]
    BY <1>1, <1>3, <1>5 DEF Streams
  <2> QED BY <2>1 DEF StreamInv, OneStream
<1>6. sock'[stream'] = "connecting"
  BY <1>1, <1>3
<1> QED BY <1>3, <1>4, <1>5, <1>6 DEF OneStream

\* Every step.
LEMMA StreamStep ==
  ASSUME ~LateClose, StreamInv, [Next]_vars
  PROVE  OneStream'
<1>1. CASE UNCHANGED <<sock, stream, retryTimer, closing>>
  BY <1>1, StreamKept DEF StreamInv, OneStream
<1>2. ASSUME NEW s \in Streams, Server(s) PROVE OneStream'
  BY <1>1, <1>2 DEF Server, ServerExecutes, ServerPushes, ServerCloses, connection
<1>3. ASSUME NEW s \in Streams, IOEvent(s) PROVE OneStream'
  BY <1>1, <1>3, EventStream DEF IOEvent, OnData, connection
<1>4. CASE CheckTimer \/ AuthTimer \/ RestoreMonitor \/ RunReaction
  BY <1>1, <1>4
  DEF CheckTimer, AuthTimer, RestoreMonitor, RunReaction, wire, connection
<1>5. CASE RetryConnection
  BY <1>5, RetryStream
<1>6. CASE End
  <2>1. /\ sock' = [sock EXCEPT ![stream] = "detached"] /\ retryTimer' = FALSE
        /\ stream' = stream
    BY <1>6 DEF End, Drop
  <2> QED BY <2>1, PresentChanges
<1>7. CASE DoAuth \/ ReadyCheck \/ Issue
  <2>1. /\ \E c, force, m : Send(c, force, offlineQueue, m)
        /\ UNCHANGED <<stream, retryTimer>>
    BY <1>7 DEF DoAuth, ReadyCheck, Issue, SendOwn
  <2> QED BY <2>1, SendStream
<1>8. CASE OnReady \/ Resubscribe \/ SendOfflineQueue
  <2>1. \/ \E c, force, oq, m : Send(c, force, oq, m)
        \/ UNCHANGED <<sock, closing>>
    BY <1>8
    DEF OnReady, RestoreDb, RestoreModes, Resubscribe, SendOfflineQueue, SendOwn, wire
  <2>2. UNCHANGED <<stream, retryTimer>>
    BY <1>8 DEF OnReady, Resubscribe, SendOfflineQueue
  <2> QED BY <1>1, <2>1, <2>2, SendStream
<1>9. CASE UNCHANGED vars
  BY <1>1, <1>9 DEF vars, wire, connection
<1> QED
  BY <1>2, <1>3, <1>4, <1>5, <1>6, <1>7, <1>8, <1>9 DEF Next, Timer, Continue

\* The inductive invariant.
LEMMA StreamCorrect ==
  ASSUME ~LateClose
  PROVE  Spec => []StreamInv
<1>1. Init => StreamInv
  <2>1. Init => OneStream
    BY WireAssumption DEF Init, WireInit, OneStream, Streams
  <2> QED BY <2>1, TypeInit DEF StreamInv
<1>2. StreamInv /\ [Next]_vars => StreamInv'
  BY TypeStep, StreamStep DEF StreamInv
<1> QED BY <1>1, <1>2, PTL DEF Spec

\* quit() and end() are final (client.js:430, 742): once closing, the client
\* opens no stream and arms no retry timer, whatever the sockets report.
THEOREM ClosedStaysClosed ==
  ASSUME ~LateClose
  PROVE  Spec => NoReconnectAfterClose
<1>1. StreamInv /\ [Next]_vars
        => [closing => stream' = stream /\ ~(~retryTimer /\ retryTimer')]_vars
  <2> SUFFICES ASSUME StreamInv, Next, closing
               PROVE  stream' = stream /\ ~(~retryTimer /\ retryTimer')
    OBVIOUS
  <2>1. ~retryTimer
    BY DEF StreamInv, OneStream
  <2>2. stream' = stream
    BY <2>1 DEF Next, Server, IOEvent, OnConnect, OnData, OnEnd, OnClose, OnError,
      ConnectionGone, Timer, CheckTimer, AuthTimer, RetryConnection, Continue, DoAuth,
      ReadyCheck, OnReady, Resubscribe, RestoreMonitor, SendOfflineQueue, RunReaction,
      Issue, End, connection
  <2>3. retryTimer' = retryTimer \/ retryTimer' = FALSE
    BY <2>1 DEF Next, Server, IOEvent, OnConnect, OnData, OnEnd, OnClose, OnError,
      ConnectionGone, Reconnect, ScheduleRetry, Timer, CheckTimer, AuthTimer,
      RetryConnection, Continue, DoAuth, ReadyCheck, OnReady, Resubscribe,
      RestoreMonitor, SendOfflineQueue, RunReaction, Issue, End, connection
  <2> QED BY <2>1, <2>2, <2>3
<1> QED BY <1>1, StreamCorrect, PTL DEF Spec, NoReconnectAfterClose

------------------------------------------------------------------------------
(* Ready only on an open stream.                                           *)

\* ready is only true on a connected, open stream, which a closing client's
\* 'error' leaves until its 'close' (client.js:154, 160, 408).
ReadyMeansOpen ==
  ready => /\ connected
           /\ sock[stream] = "open" \/ (closing /\ sock[stream] = "errored")

\* Among the reactions q is one that leads to onReady.
Leads(q) == \E i \in DOMAIN q : q[i].run \in {"onReady", "authDone"}

\* While the client is about to become ready nothing happens to its stream.
OpenInv ==
  /\ sock[stream] = "open" => connected
  /\ task = "onReady" \/ Leads(reactions) => sock[stream] = "open"
  /\ ReadyMeansOpen

UsableInv == StreamInv /\ OpenInv

\* The reactions to a rejected SELECT do not, nor do those that are left.
LEMMA LeadsLess ==
  ASSUME NEW q \in ReactionSeq, NEW c \in Command
  PROVE  /\ Leads(q \o RejectReactions(c)) => Leads(q)
         /\ q # <<>> => (Leads(Tail(q)) => Leads(q))
         /\ ~Leads(<<>>)
<1>1. RejectReactions(c) = <<>> \/ RejectReactions(c) = <<[run |-> "resetPubSub", cmd |-> c]>>
  BY DEF RejectReactions
<1>2. ASSUME RejectReactions(c) = <<[run |-> "resetPubSub", cmd |-> c]>>,
             Leads(q \o RejectReactions(c))
      PROVE  Leads(q)
  <2>1. PICK i \in DOMAIN (q \o RejectReactions(c)) :
          (q \o RejectReactions(c))[i].run \in {"onReady", "authDone"}
    BY <1>2 DEF Leads
  <2>2. i \in DOMAIN q /\ (q \o RejectReactions(c))[i] = q[i]
    BY <1>2, <2>1 DEF ReactionSeq
  <2> QED BY <2>1, <2>2 DEF Leads
<1>3. ASSUME q # <<>>, Leads(Tail(q)) PROVE Leads(q)
  <2>1. PICK i \in DOMAIN Tail(q) : Tail(q)[i].run \in {"onReady", "authDone"}
    BY <1>3 DEF Leads
  <2>2. i + 1 \in DOMAIN q /\ Tail(q)[i] = q[i + 1]
    BY <1>3, <2>1 DEF ReactionSeq
  <2> QED BY <2>1, <2>2 DEF Leads
<1>4. RejectReactions(c) = <<>> => q \o RejectReactions(c) = q
  BY DEF ReactionSeq
<1>5. ~Leads(<<>>)
  BY DEF Leads
<1> QED BY <1>1, <1>2, <1>3, <1>4, <1>5

\* A step that neither touches the stream nor makes the client ready, and
\* leaves no more to do than there was.
LEMMA OpenKept ==
  ASSUME OpenInv, UNCHANGED <<sock, stream, connected, ready>>, closing => closing',
         task' = "onReady" \/ Leads(reactions)' => task = "onReady" \/ Leads(reactions)
  PROVE  OpenInv'
  BY DEF OpenInv, ReadyMeansOpen

\* No retry timer runs beside a client that is ready.
LEMMA ReadyNoTimer == UsableInv /\ retryTimer => ~ready
  BY DEF UsableInv, OpenInv, ReadyMeansOpen, StreamInv, OneStream, Alive

\* A connection is lost when nothing leads to onReady.
LEMMA TurnLeads == ~LateStart /\ LossTurn => task # "onReady" /\ ~Leads(reactions)
  BY DEF LossTurn, IOTurn, Idle, Leads, Starting

\* What the loss of the connection leaves of the client.
LEMMA GoneOpen ==
  ASSUME UsableInv, ~LateStart, LossTurn, UNCHANGED <<stream, task>>,
         sock'[stream] # "open", GoDown
  PROVE  OpenInv'
<1>1. ~ready' /\ ~connected'
  BY DEF GoDown
<1>2. ~Leads(reactions)'
  <2>1. CASE offlineQueue \o commandQueue = <<>>
    BY <2>1, TurnLeads DEF GoDown, FlushAndError
  <2>2. CASE offlineQueue \o commandQueue # <<>>
    <3>1. Last(offlineQueue \o commandQueue) \in Command
      BY <2>2, CommandQueues, CommandConcat DEF UsableInv, StreamInv, TypeOK
    <3>2. reactions \in ReactionSeq
      BY DEF UsableInv, StreamInv, TypeOK
    <3>3. reactions' = reactions \o RejectReactions(Last(offlineQueue \o commandQueue))
      BY <2>2 DEF GoDown, FlushAndError
    <3> QED BY <3>1, <3>2, <3>3, LeadsLess, TurnLeads
  <2> QED BY <2>1, <2>2
<1>3. task' # "onReady"
  BY TurnLeads
<1> QED BY <1>1, <1>2, <1>3 DEF OpenInv, ReadyMeansOpen

\* Connected, the stream is open and the client not yet ready.
LEMMA ConnectOpen ==
  ASSUME UsableInv, NEW s \in Streams, OnConnect(s)
  PROVE  OpenInv'
<1>1. s = stream /\ stream' = stream
  BY OnlyStream DEF OnConnect, UsableInv, Gone
<1>2. sock'[stream'] = "open"
  BY <1>1 DEF OnConnect, SetSock, UsableInv, StreamInv, TypeOK, WireTypeOK
<1>3. connected' /\ ~ready'
  BY DEF OnConnect
<1> QED BY <1>2, <1>3 DEF OpenInv, ReadyMeansOpen

\* A reply came on the present stream, whatever follows from it.
LEMMA DataOpen ==
  ASSUME UsableInv, NEW s \in Streams, OnData(s)
  PROVE  OpenInv'
<1>1. s = stream /\ UNCHANGED <<stream, sock, connected, ready, closing>>
  BY OnlyStream DEF OnData, UsableInv, Gone, connection
<1>2. sock'[stream'] = "open"
  BY <1>1 DEF OnData
<1> QED BY <1>1, <1>2 DEF OpenInv, ReadyMeansOpen, UsableInv

\* connectionGone, for 'end' and 'close'.
LEMMA EndCloseOpen ==
  ASSUME UsableInv, ~LateStart, NEW s \in Streams, OnEnd(s) \/ OnClose(s)
  PROVE  OpenInv'
<1>1. s = stream /\ LossTurn
  BY OnlyStream DEF OnEnd, OnClose, UsableInv, Gone
<1>2. UNCHANGED <<stream, closing, task>> /\ sock'[stream'] # "open" /\ ConnectionGone
  BY <1>1
  DEF OnEnd, OnClose, ConnectionGone, Drop, SetSock, UsableInv, StreamInv, TypeOK, WireTypeOK
<1>3. CASE retryTimer
  <2>1. ~ready /\ UNCHANGED <<connected, ready, reactions>>
    BY <1>2, <1>3, ReadyNoTimer DEF ConnectionGone
  <2>2. task # "onReady" /\ ~Leads(reactions)
    BY <1>1, TurnLeads
  <2> QED BY <1>2, <2>1, <2>2 DEF OpenInv, ReadyMeansOpen
<1>4. CASE ~retryTimer
  <2>1. GoDown
    BY <1>2, <1>4 DEF ConnectionGone
  <2> QED BY <1>1, <1>2, <2>1, GoneOpen
<1> QED BY <1>3, <1>4

\* 'error', which a closing client ignores.
LEMMA ErrorOpen ==
  ASSUME UsableInv, ~LateStart, NEW s \in Streams, OnError(s)
  PROVE  OpenInv'
<1>1. s = stream /\ LossTurn /\ Writable(stream)
  BY OnlyStream DEF OnError, UsableInv, Gone, Writable
<1>2. UNCHANGED <<stream, closing, task>> /\ sock'[stream'] = "errored"
  BY <1>1 DEF OnError, Drop, UsableInv, StreamInv, TypeOK, WireTypeOK, connection, turn
<1>3. CASE closing
  <2>1. UNCHANGED <<connected, ready, reactions>>
    BY <1>3 DEF OnError, connection, turn
  <2>2. task # "onReady" /\ ~Leads(reactions)
    BY <1>1, TurnLeads
  <2> QED BY <1>2, <1>3, <2>1, <2>2 DEF OpenInv, ReadyMeansOpen, UsableInv
<1>4. CASE ~closing
  <2>1. GoDown
    BY <1>4 DEF OnError
  <2> QED BY <1>1, <1>2, <2>1, GoneOpen
<1> QED BY <1>3, <1>4

\* A new stream is made beside a client that is not ready.
LEMMA RetryOpen ==
  ASSUME UsableInv, RetryConnection
  PROVE  OpenInv'
<1>1. stream' = stream + 1 /\ stream + 1 \in Streams
  BY WireAssumption DEF RetryConnection, UsableInv, StreamInv, TypeOK, Streams
<1>2. sock'[stream'] = "connecting"
  BY <1>1 DEF RetryConnection, SetSock, UsableInv, StreamInv, TypeOK, WireTypeOK
<1>3. ~ready'
  BY ReadyNoTimer DEF RetryConnection
<1>4. task' # "onReady" /\ ~Leads(reactions)'
  BY DEF RetryConnection, TimerTurn, Idle, Leads, turn
<1> QED BY <1>2, <1>3, <1>4 DEF OpenInv, ReadyMeansOpen

\* The client gets ready on the stream that answered.
LEMMA ReadyOpen ==
  ASSUME UsableInv, OnReady
  PROVE  OpenInv'
<1>1. UNCHANGED <<stream, connected>>
  BY DEF OnReady
<1>2. sock' = sock
  BY DEF OnReady, RestoreDb, RestoreModes, SendOwn, Send, wire
<1>3. sock[stream] = "open" /\ connected
  BY DEF OnReady, UsableInv, OpenInv
<1> QED BY <1>1, <1>2, <1>3 DEF OpenInv, ReadyMeansOpen

\* A reaction leads to onReady only if it was among those that do.
LEMMA ReactionOpen ==
  ASSUME UsableInv, RunReaction
  PROVE  OpenInv'
<1> DEFINE r == Head(reactions)
<1>1. UNCHANGED <<sock, stream, connected, ready, closing>>
  BY DEF RunReaction, wire
<1>2. reactions \in ReactionSeq /\ reactions # <<>> /\ Tail(reactions) \in ReactionSeq
      /\ r \in Reaction /\ r.cmd \in Command
  <2>1. reactions \in ReactionSeq /\ reactions # <<>>
    BY DEF RunReaction, UsableInv, StreamInv, TypeOK
  <2>2. r \in Reaction /\ Tail(reactions) \in ReactionSeq
    BY <2>1, ReactionQueues
  <2> QED BY <2>1, <2>2 DEF Reaction
<1>3. Leads(reactions)' => Leads(reactions)
  <2>1. \/ reactions' = Tail(reactions) \o RejectReactions(r.cmd)
        \/ reactions' = Tail(reactions) \o <<>>
    BY DEF RunReaction
  <2>2. Tail(reactions) \o <<>> = Tail(reactions)
    BY <1>2 DEF ReactionSeq
  <2>3. Leads(Tail(reactions)) => Leads(reactions)
    BY <1>2, LeadsLess
  <2>4. Leads(Tail(reactions) \o RejectReactions(r.cmd)) => Leads(Tail(reactions))
    BY <1>2, LeadsLess
  <2> QED BY <2>1, <2>2, <2>3, <2>4
<1>4. task' = "onReady" => Leads(reactions)
  <2>1. task' = "onReady" => r.run \in {"onReady", "authDone"}
    BY <1>2 DEF RunReaction, ReactionEffect, Idle, timers, Reaction, ReactionNames
  <2>2. r.run \in {"onReady", "authDone"} => Leads(reactions)
    BY <1>2 DEF Leads, ReactionSeq
  <2> QED BY <2>1, <2>2
<1> QED BY <1>1, <1>3, <1>4, OpenKept DEF UsableInv

\* What else the client does leaves the stream alone.
LEMMA ContinueOpen ==
  ASSUME UsableInv,
         DoAuth \/ ReadyCheck \/ Resubscribe \/ RestoreMonitor \/ SendOfflineQueue
  PROVE  OpenInv'
<1>1. UNCHANGED <<sock, stream, connected, ready, reactions>>
  BY DEF DoAuth, ReadyCheck, Resubscribe, RestoreMonitor, SendOfflineQueue, SendOwn, Send,
    wire, connection
<1>2. closing => closing'
  BY DEF DoAuth, ReadyCheck, Resubscribe, RestoreMonitor, SendOfflineQueue, SendOwn, Send,
    connection
<1>3. task' = "onReady" => task = "onReady"
  BY DEF DoAuth, ReadyCheck, Resubscribe, RestoreMonitor, SendOfflineQueue, TaskDone
<1> QED BY <1>1, <1>2, <1>3, OpenKept DEF UsableInv

\* Every step.
LEMMA OpenStep ==
  ASSUME ~LateStart, UsableInv, [Next]_vars
  PROVE  OpenInv'
<1>1. ASSUME NEW s \in Streams, Server(s) PROVE OpenInv'
  <2>1. UNCHANGED <<sock, stream, connected, ready, closing, reactions, task>>
    BY <1>1 DEF Server, ServerExecutes, ServerPushes, ServerCloses, connection, turn
  <2> QED BY <2>1, OpenKept DEF UsableInv
<1>2. ASSUME NEW s \in Streams, IOEvent(s) PROVE OpenInv'
  BY <1>2, ConnectOpen, DataOpen, EndCloseOpen, ErrorOpen DEF IOEvent
<1>3. CASE CheckTimer \/ AuthTimer
  <2>1. /\ UNCHANGED <<sock, stream, connected, ready, closing, reactions>>
        /\ task' # "onReady"
    BY <1>3 DEF CheckTimer, AuthTimer, wire, connection
  <2> QED BY <2>1, OpenKept DEF UsableInv
<1>4. CASE RetryConnection
  BY <1>4, RetryOpen
<1>5. CASE Continue
  BY <1>5, ReadyOpen, ContinueOpen DEF Continue
<1>6. CASE RunReaction
  BY <1>6, ReactionOpen
<1>7. CASE Issue
  <2>1. UNCHANGED <<sock, stream, connected, ready, reactions, task>> /\ (closing => closing')
    BY <1>7 DEF Issue, Send, turn
  <2> QED BY <2>1, OpenKept DEF UsableInv
<1>8. CASE End
  <2>1. sock'[stream'] = "detached" /\ ~ready' /\ UNCHANGED <<reactions, task>>
    BY <1>8 DEF End, Drop, UsableInv, StreamInv, TypeOK, WireTypeOK, turn
  <2>2. task # "onReady" /\ ~Leads(reactions)
    BY <1>8 DEF End, Idle, Starting, Leads
  <2> QED BY <2>1, <2>2 DEF OpenInv, ReadyMeansOpen
<1>9. CASE UNCHANGED vars
  BY <1>9, OpenKept DEF UsableInv, vars, wire, connection, turn
<1> QED
  BY <1>1, <1>2, <1>3, <1>4, <1>5, <1>6, <1>7, <1>8, <1>9 DEF Next, Timer

\* The two inductive invariants together.
LEMMA UsableCorrect ==
  ASSUME ~LateClose, ~LateStart
  PROVE  Spec => []UsableInv
<1>1. Init => OpenInv
  BY WireAssumption DEF Init, WireInit, OpenInv, ReadyMeansOpen, Leads, Streams
<1>2. StreamInv /\ OpenInv /\ [Next]_vars => OpenInv'
  BY OpenStep DEF UsableInv
<1> QED BY <1>1, <1>2, StreamCorrect, PTL DEF Spec, UsableInv
==============================================================================
