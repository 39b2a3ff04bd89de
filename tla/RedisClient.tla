----------------------------- MODULE RedisClient -----------------------------
(***************************************************************************)
(* The connection of a RedisClient (lib/client.js): connecting,            *)
(* authenticating, the ready check, sending, the two command queues, the   *)
(* replies, publish/subscribe mode, losing the connection and coming back. *)
(*                                                                         *)
(* JavaScript runs one callback to completion before the next.  An action  *)
(* is one event handler, timer callback or promise reaction; where the     *)
(* callback goes on by calling another method of the client as its last    *)
(* act, or by a loop, `task' names what it still has to do, and nothing    *)
(* else happens before that is done.  Promise reactions run when bluebird  *)
(* drains its queue, after the callback that settled the promise.          *)
(*                                                                         *)
(* An operator named Def_Fault is a mutant of Def, used by no definition:  *)
(* putting it in the place of Def must violate a property.                 *)
(***************************************************************************)
EXTENDS RedisWire

CONSTANTS
  MaxCmds,            \* bound: commands the user issues
  UserCommands,       \* what the user may issue, each [kind, args, db]
  ForcedCalls,        \* the user also uses the form method([args], callback)
  MayEnd,             \* the user may call end()
  AuthPass,           \* option authPass
  NoReadyCheck,       \* option noReadyCheck
  EnableOfflineQueue, \* option enableOfflineQueue
  MaxAttempts,        \* option maxAttempts, 0 for null
  LateClose,          \* a retry timer may run out between 'end' and 'close'
  LateStart           \* a connection may be lost, or end() called, between the reply
                      \* to INFO or AUTH and the reactions to it

ASSUME ClientAssumption ==
  /\ MaxCmds \in Nat
  /\ UserCommands \subseteq [kind : Kinds, args : Seq(Channels), db : Dbs]
  /\ \A u \in UserCommands : u.kind = "subscribe" => u.args # <<>>
  /\ {ForcedCalls, MayEnd, AuthPass, NoReadyCheck, EnableOfflineQueue,
      LateClose, LateStart} \subseteq BOOLEAN
  /\ MaxAttempts \in Nat

VARIABLES
  \* the connection
  stream, connected, ready, closing, retryTimer, attempts, emittedEnd,
  \* the commands: sent and unanswered, not yet sent; the promises by id
  commandQueue, offlineQueue, promise,
  \* the modes, the modes kept for the next connection, the keys to resubscribe
  modes, oldState, subscriptionSet, authPass,
  \* timers of readyCheck and tryAuth that are running
  checkTimers, authTimers,
  \* settled promises whose reactions have not run; a drain under way;
  \* the rest of the callback that is running, keys it has to resubscribe
  reactions, draining, task, resubKeys

connection == <<stream, connected, ready, closing, retryTimer, attempts, emittedEnd>>
commands   == <<commandQueue, offlineQueue, promise>>
modal      == <<modes, oldState, subscriptionSet, authPass>>
timers     == <<checkTimers, authTimers>>
turn       == <<reactions, draining, task, resubKeys>>
vars       == <<wire, connection, commands, modal, timers, turn>>

------------------------------------------------------------------------------
(* Values                                                                  *)

NaN == Null   \* attempts before initializeRetryVars has ever run on the client

Modes == [monitoring : BOOLEAN, pubSubMode : BOOLEAN, selectedDb : Dbs \union {Null}]

NoModes == [monitoring |-> FALSE, pubSubMode |-> FALSE, selectedDb |-> Null]

\* null is not an object
ASSUME NullAssumption == Null \notin Modes /\ Null \notin Command

Cmd(id, kind, args, db, mode) ==
  [id |-> id, kind |-> kind, args |-> args, db |-> db, mode |-> mode]

Internal(kind) == Cmd(0, kind, <<>>, DefaultDb, FALSE)

\* What the then/catch handlers of the client's own promises do.
ReactionNames == {"onReady", "checkLater", "authDone", "authLater",
                  "selectResolved", "resetPubSub"}

Reaction == [run : ReactionNames, cmd : Command]

ReactionSeq == Seq(Reaction)

PromiseSeq == Seq({"pending", "resolved", "rejected"})

Tasks == {"idle", "doAuth", "readyCheck", "onReady", "resubscribe", "monitor",
          "sendOfflineQueue", "crashed"}

Settle(c, how) == IF c.id = 0 THEN promise ELSE [promise EXCEPT ![c.id] = how]

------------------------------------------------------------------------------
(* Who may run.  bluebird drains its queue by setImmediate: after the I/O  *)
(* events of a phase of node's loop, before the next timers.  So a chunk   *)
(* may bring several replies, and a connection be lost, before reactions   *)
(* run; only a reaction that starts the client (onReady, tryAuth's then)   *)
(* is assumed to run before the connection it starts is lost, unless       *)
(* LateStart.  Code of the user's runs in events and in reactions.         *)

Idle == task = "idle"

IOTurn == Idle /\ ~draining

Starting == \E i \in DOMAIN reactions : reactions[i].run \in {"onReady", "authDone"}

LossTurn == IOTurn /\ (LateStart \/ ~Starting)

TimerTurn == Idle /\ reactions = <<>>

------------------------------------------------------------------------------
(* _send and pubSubCommand                                                 *)

\* In pub/sub mode only few commands may be sent.
Barred(c, m) == m.pubSubMode /\ c.kind \notin SubKinds \union {"monitor", "quit"}

Disposition_NotWaitingForReady(c, force, m) ==
  IF ~Writable(stream)
  THEN IF EnableOfflineQueue THEN "queued" ELSE "rejected"
  ELSE IF Barred(c, m) THEN "rejected" ELSE "written"

\* What _send does with a command when the modes are m.
Disposition(c, force, m) ==
  IF ~(ready \/ force) \/ ~Writable(stream)
  THEN IF EnableOfflineQueue THEN "queued" ELSE "rejected"
  ELSE IF Barred(c, m) THEN "rejected" ELSE "written"

ModesAfter(c, m) == [m EXCEPT !.pubSubMode = @ \/ c.kind \in SubKinds,
                              !.monitoring = @ \/ c.kind = "monitor"]

SubscriptionsAfter_UnsubscribeClears(c) ==
  CASE c.kind = "subscribe"   -> subscriptionSet \union ToSet(c.args)
    [] c.kind = "unsubscribe" -> {}
    [] OTHER                  -> subscriptionSet

SubscriptionsAfter(c) ==
  CASE c.kind = "subscribe"   -> subscriptionSet \union ToSet(c.args)
    [] c.kind = "unsubscribe" -> subscriptionSet \ ToSet(c.args)
    [] OTHER                  -> subscriptionSet

\* oq and m: the offline queue and the modes at the call.  The promise of a
\* rejected command is the caller's to settle.
Send(c, force, oq, m) ==
  LET d == Disposition(c, force, m) IN
    /\ offlineQueue' = IF d = "queued" THEN Append(oq, c) ELSE oq
    /\ \/ /\ d = "written"
          /\ commandQueue' = Append(commandQueue, c)
          /\ toServer' = [toServer EXCEPT ![stream] = Append(@, c)]
          /\ modes' = ModesAfter(c, m)
          /\ subscriptionSet' = SubscriptionsAfter(c)
          /\ closing' = (closing \/ c.kind = "quit")
       \/ /\ d # "written"
          /\ modes' = m
          /\ UNCHANGED <<commandQueue, toServer, subscriptionSet, closing>>
    /\ UNCHANGED <<sock, toClient, srv, loads, pushes>>

\* The client's own commands: nobody waits for one that is rejected here.
SendOwn(c, force, m) == Send(c, force, offlineQueue, m) /\ UNCHANGED promise

------------------------------------------------------------------------------
(* Commands of the user                                                    *)

\* method(args...) and method([args], callback): in the second form the
\* callback lands in sendCommand's parameter forceSend, and is truthy.
Issue ==
  /\ Idle /\ Len(promise) < MaxCmds
  /\ \E u \in UserCommands, force \in IF ForcedCalls THEN BOOLEAN ELSE {FALSE} :
       LET c == Cmd(Len(promise) + 1, u.kind, u.args, u.db, FALSE) IN
         /\ force => u.kind \notin {"select", "auth"}
         /\ Send(c, force, offlineQueue, modes)
         /\ promise' = Append(promise, IF Disposition(c, force, modes) = "rejected"
                                       THEN "rejected" ELSE "pending")
         /\ authPass' = (authPass \/ c.kind = "auth")
  /\ UNCHANGED <<stream, connected, ready, retryTimer, attempts, emittedEnd,
                 oldState, timers, turn>>

\* end(): the listeners are taken off the stream, the queues stay as they are.
End ==
  /\ MayEnd /\ Idle /\ (LateStart \/ ~Starting) /\ sock[stream] # "detached"
  /\ Drop(stream, "detached")
  /\ retryTimer' = FALSE
  /\ connected' = FALSE
  /\ ready' = FALSE
  /\ closing' = TRUE
  /\ UNCHANGED <<stream, attempts, emittedEnd, commands, modal, timers, turn>>

------------------------------------------------------------------------------
(* Connecting: onConnect, doAuth, readyCheck                               *)

AfterConnect == IF NoReadyCheck THEN "onReady" ELSE "readyCheck"

OnConnect(s) ==
  /\ IOTurn /\ sock[s] = "connecting"
  /\ SetSock(s, "open")
  /\ connected' = TRUE
  /\ ready' = FALSE
  /\ commandQueue' = <<>>
  /\ emittedEnd' = FALSE
  /\ attempts' = IF authPass THEN attempts ELSE 1
  /\ task' = IF authPass THEN "doAuth" ELSE AfterConnect
  /\ UNCHANGED <<stream, closing, retryTimer, offlineQueue, promise, modal, timers,
                 reactions, draining, resubKeys>>

\* The drain goes on, or is over, with the callback that ends here.
TaskDone == task' = "idle" /\ draining' = (draining /\ reactions # <<>>)

DoAuth ==
  /\ task = "doAuth"
  /\ SendOwn(Internal("auth"), TRUE, modes)
  /\ TaskDone
  /\ UNCHANGED <<stream, connected, ready, retryTimer, attempts, emittedEnd,
                 oldState, authPass, timers, reactions, resubKeys>>

ReadyCheck ==
  /\ task = "readyCheck"
  /\ SendOwn(Internal("info"), TRUE, modes)
  /\ TaskDone
  /\ UNCHANGED <<stream, connected, ready, retryTimer, attempts, emittedEnd,
                 oldState, authPass, timers, reactions, resubKeys>>

\* The two timers are never cancelled.
CheckTimer ==
  /\ TimerTurn /\ checkTimers > 0
  /\ checkTimers' = checkTimers - 1
  /\ task' = "readyCheck"
  /\ UNCHANGED <<wire, connection, commands, modal, authTimers, reactions, draining,
                 resubKeys>>

AuthTimer ==
  /\ TimerTurn /\ authTimers > 0
  /\ authTimers' = authTimers - 1
  /\ task' = "doAuth"
  /\ UNCHANGED <<wire, connection, commands, modal, checkTimers, reactions, draining,
                 resubKeys>>

------------------------------------------------------------------------------
(* onReady and sendOfflineQueue                                            *)

\* The modes onReady starts from: those of the connection lost, if any.
Restored == IF oldState = Null THEN modes ELSE oldState

RestoreTask_NoReplay(m) ==
  IF m.pubSubMode THEN "resubscribe" ELSE IF m.monitoring THEN "monitor" ELSE "idle"

RestoreTask_NoResubscribe(m) ==
  IF m.monitoring THEN "monitor" ELSE "sendOfflineQueue"

RestoreTask(m) ==
  IF m.pubSubMode THEN "resubscribe"
  ELSE IF m.monitoring THEN "monitor" ELSE "sendOfflineQueue"

RestoreModes(m) ==
  /\ modes' = m
  /\ task' = RestoreTask(m)
  /\ resubKeys' = IF m.pubSubMode THEN subscriptionSet ELSE resubKeys
  /\ UNCHANGED <<wire, commands, closing, subscriptionSet, reactions>>

\* finally(resetPubSub) runs when the SELECT of onReady is rejected, too.
RejectReactions(c) ==
  IF c.id = 0 /\ c.kind = "select" THEN <<[run |-> "resetPubSub", cmd |-> c]>> ELSE <<>>

RestoreDb_NotSent(m) == RestoreModes(m)

\* A selected database is restored first, with the pub/sub mode switched off
\* so that the SELECT is sent; the tests that follow see the mode switched off.
RestoreDb(m) ==
  LET c   == Cmd(0, "select", <<>>, m.selectedDb, m.pubSubMode)
      off == [m EXCEPT !.pubSubMode = FALSE]
  IN  /\ SendOwn(c, TRUE, off)
      /\ reactions' = reactions \o
           (IF Disposition(c, TRUE, off) = "rejected" THEN RejectReactions(c) ELSE <<>>)
      /\ task' = RestoreTask(off)
      /\ UNCHANGED resubKeys

OnReady ==
  /\ task = "onReady"
  /\ ready' = TRUE
  /\ oldState' = Null
  /\ IF Restored.selectedDb # Null THEN RestoreDb(Restored) ELSE RestoreModes(Restored)
  /\ UNCHANGED <<stream, connected, retryTimer, attempts, emittedEnd, authPass,
                 timers, draining>>

\* One SUBSCRIBE per key of subscriptionSet; the offline queue is left alone.
Resubscribe ==
  /\ task = "resubscribe"
  /\ \/ \E key \in resubKeys :
          /\ SendOwn(Cmd(0, "subscribe", <<key>>, DefaultDb, FALSE), FALSE, modes)
          /\ resubKeys' = resubKeys \ {key}
          /\ UNCHANGED <<task, draining>>
     \/ /\ resubKeys = {}
        /\ TaskDone
        /\ UNCHANGED <<wire, commands, closing, modes, subscriptionSet, resubKeys>>
  /\ UNCHANGED <<stream, connected, ready, retryTimer, attempts, emittedEnd,
                 oldState, authPass, timers, reactions>>

\* sendCommand('monitor') without an argument array throws: a reaction turns
\* that into an 'error' event, a socket's callback lets it end the process.
RestoreMonitor ==
  /\ task = "monitor"
  /\ IF draining THEN TaskDone ELSE task' = "crashed" /\ UNCHANGED draining
  /\ UNCHANGED <<wire, connection, commands, modal, timers, reactions, resubKeys>>

SendOfflineQueue ==
  /\ task = "sendOfflineQueue"
  /\ IF offlineQueue # <<>>
     THEN LET c == Head(offlineQueue) IN
            /\ Send(c, FALSE, Tail(offlineQueue), modes)
            /\ promise' = IF Disposition(c, FALSE, modes) = "rejected"
                          THEN Settle(c, "rejected") ELSE promise
            /\ UNCHANGED <<task, draining>>
     ELSE /\ TaskDone
          /\ UNCHANGED <<wire, commands, closing, modes, subscriptionSet>>
  /\ UNCHANGED <<stream, connected, ready, retryTimer, attempts, emittedEnd,
                 oldState, authPass, timers, reactions, resubKeys>>

------------------------------------------------------------------------------
(* Replies: onData, _returnReply, _returnError                             *)

\* What the then/catch handlers will do about the reply r to the command c.
ResolveReactions(c, r) ==
  LET does(run) == <<[run |-> run, cmd |-> c]>> IN
  CASE c.kind = "select"                                     -> does("selectResolved")
    [] c.id = 0 /\ c.kind = "info" /\ r.type = "loading"     -> does("checkLater")
    [] c.id = 0 /\ c.kind = "info" /\ r.type # "loading"     -> does("onReady")
    [] c.id = 0 /\ c.kind = "auth"                           -> does("authDone")
    [] OTHER                                                 -> <<>>

ErrorReactions(c, r) ==
  CASE c.id = 0 /\ c.kind = "auth" /\ r.type = "stillLoading" ->
         <<[run |-> "authLater", cmd |-> c]>>
    [] c.id = 0 /\ c.kind = "auth" /\ r.type = "noPassSet"    ->
         <<[run |-> "authDone", cmd |-> c]>>
    [] OTHER -> RejectReactions(c)

IsSub(c) == c.kind \in SubKinds

Pops_NothingInPubSubMode(r) == ~modes.pubSubMode

\* A message takes no command off the queue, provided the mode says so.
Pops(r) == ~(modes.pubSubMode /\ r.type = "message")

\* What becomes of the promise of the popped command c.
Verdict(c, r) ==
  IF ~IsSub(c) \/ r.type = "subscription" THEN "resolved"
  ELSE IF r.type = "message" \/ closing THEN "pending" ELSE "rejected"

ModeFromReply_OnlyInMode(r) == r.type = "subscription" /\ modes.pubSubMode

\* A subscription reply sets the mode from its count, even if the queue was
\* empty and the code then fails on the missing command.
ModeFromReply(r) ==
  /\ r.type = "subscription"
  /\ IF commandQueue = <<>> THEN modes.pubSubMode ELSE IsSub(Head(commandQueue))

ReturnReply_TakesLast(r) ==
  /\ UNCHANGED modes
  /\ IF commandQueue # <<>>
     THEN LET c == Last(commandQueue) IN
            /\ commandQueue' = Front(commandQueue)
            /\ promise' = Settle(c, "resolved")
            /\ reactions' = reactions \o ResolveReactions(c, r)
     ELSE UNCHANGED <<commandQueue, promise, reactions>>

ReturnReply(r) ==
  /\ modes' = IF ModeFromReply(r) THEN [modes EXCEPT !.pubSubMode = ~r.none] ELSE modes
  /\ IF Pops(r) /\ commandQueue # <<>>
     THEN LET c == Head(commandQueue) IN
            /\ commandQueue' = Tail(commandQueue)
            /\ promise' = Settle(c, Verdict(c, r))
            /\ reactions' = IF Verdict(c, r) = "resolved"
                            THEN reactions \o ResolveReactions(c, r) ELSE reactions
     ELSE UNCHANGED <<commandQueue, promise, reactions>>

ReturnError(r) ==
  /\ IF commandQueue # <<>>
     THEN LET c == Head(commandQueue) IN
            /\ commandQueue' = Tail(commandQueue)
            /\ promise' = Settle(c, "rejected")
            /\ reactions' = reactions \o ErrorReactions(c, r)
     ELSE UNCHANGED <<commandQueue, promise, reactions>>
  /\ UNCHANGED modes

OnData(s) ==
  /\ IOTurn /\ sock[s] = "open" /\ toClient[s] # <<>>
  /\ LET r == Head(toClient[s]) IN
       /\ r.type # "eof"
       /\ IF r.type \in ErrorTypes THEN ReturnError(r) ELSE ReturnReply(r)
  /\ toClient' = [toClient EXCEPT ![s] = Tail(@)]
  /\ UNCHANGED <<sock, toServer, srv, loads, pushes, connection, offlineQueue,
                 oldState, subscriptionSet, authPass, timers, draining, task, resubKeys>>

------------------------------------------------------------------------------
(* Promise reactions: bluebird's queue is drained as a whole.              *)

ReactionEffect(r) ==
  CASE r.run = "onReady" ->
         task' = "onReady" /\ UNCHANGED <<attempts, modes, timers>>
    [] r.run = "checkLater" ->
         checkTimers' = checkTimers + 1 /\ UNCHANGED <<task, attempts, modes, authTimers>>
    [] r.run = "authDone" ->
         attempts' = 1 /\ task' = AfterConnect /\ UNCHANGED <<modes, timers>>
    [] r.run = "authLater" ->
         authTimers' = authTimers + 1 /\ UNCHANGED <<task, attempts, modes, checkTimers>>
    [] r.run = "selectResolved" ->
         /\ modes' = [modes EXCEPT !.selectedDb = r.cmd.db]
         /\ UNCHANGED <<task, attempts, timers>>
    [] r.run = "resetPubSub" ->
         /\ modes' = [modes EXCEPT !.pubSubMode = r.cmd.mode]
         /\ UNCHANGED <<task, attempts, timers>>

RunReaction ==
  /\ Idle /\ reactions # <<>>
  /\ LET r == Head(reactions) IN
       /\ ReactionEffect(r)
       /\ reactions' = Tail(reactions) \o
            (IF r.run = "selectResolved" THEN RejectReactions(r.cmd) ELSE <<>>)
       /\ draining' = (reactions' # <<>> \/ task' # "idle")
  /\ UNCHANGED <<wire, stream, connected, ready, closing, retryTimer, emittedEnd,
                 commands, oldState, subscriptionSet, authPass, resubKeys>>

------------------------------------------------------------------------------
(* Losing the connection: flushAndError, connectionGone, onError           *)

FlushAndError_SendsAgain ==
  /\ offlineQueue' = commandQueue \o offlineQueue
  /\ commandQueue' = <<>>
  /\ UNCHANGED <<promise, reactions>>

FlushAndError_KeepsQueue ==
  LET all == offlineQueue \o commandQueue IN
    /\ UNCHANGED <<offlineQueue, commandQueue>>
    /\ IF all = <<>> THEN UNCHANGED <<promise, reactions>>
       ELSE /\ promise' = Settle(Last(all), "rejected")
            /\ reactions' = reactions \o RejectReactions(Last(all))

\* rejectCommandObj runs on the next tick and reads the variable commandObj
\* it shares with the loop: every run rejects the command shifted last.
FlushAndError ==
  LET all == offlineQueue \o commandQueue IN
    /\ offlineQueue' = <<>>
    /\ commandQueue' = <<>>
    /\ IF all = <<>> THEN UNCHANGED <<promise, reactions>>
       ELSE /\ promise' = Settle(Last(all), "rejected")
            /\ reactions' = reactions \o RejectReactions(Last(all))

GoDown == connected' = FALSE /\ ready' = FALSE /\ FlushAndError

SaveModes_WithoutDb ==
  IF oldState = Null
  THEN /\ oldState' = [monitoring |-> modes.monitoring, pubSubMode |-> modes.pubSubMode]
       /\ modes' = NoModes
  ELSE UNCHANGED <<oldState, modes>>

SaveModes_EveryTime == oldState' = modes /\ modes' = NoModes

SaveModes ==
  IF oldState = Null THEN oldState' = modes /\ modes' = NoModes
  ELSE UNCHANGED <<oldState, modes>>

GivesUp_WithoutLimit == attempts # NaN /\ attempts >= MaxAttempts

GivesUp == MaxAttempts > 0 /\ attempts # NaN /\ attempts >= MaxAttempts

ScheduleRetry_WhenClosing ==
  IF GivesUp THEN UNCHANGED <<retryTimer, attempts>>
  ELSE /\ retryTimer' = TRUE
       /\ attempts' = IF attempts = NaN THEN NaN ELSE attempts + 1

ScheduleRetry ==
  IF closing \/ GivesUp THEN UNCHANGED <<retryTimer, attempts>>
  ELSE /\ retryTimer' = TRUE
       /\ attempts' = IF attempts = NaN THEN NaN ELSE attempts + 1

\* The part of connectionGone that is skipped while a retry is scheduled.
Reconnect ==
  IF retryTimer THEN UNCHANGED <<oldState, modes, emittedEnd, retryTimer, attempts>>
  ELSE SaveModes /\ emittedEnd' = TRUE /\ ScheduleRetry

ConnectionGone ==
  /\ Reconnect
  /\ IF retryTimer THEN UNCHANGED <<connected, ready, commands, reactions>> ELSE GoDown
  /\ UNCHANGED <<stream, closing, subscriptionSet, authPass, timers, draining, task,
                 resubKeys>>

OnEnd(s) ==
  /\ LossTurn /\ sock[s] = "open" /\ toClient[s] # <<>>
  /\ Head(toClient[s]).type = "eof"
  /\ Drop(s, "eof")
  /\ ConnectionGone

OnClose(s) ==
  /\ LossTurn /\ sock[s] \in {"eof", "errored"}
  /\ SetSock(s, "closed")
  /\ ConnectionGone

\* A refused connection, a reset, a failed write.
OnError(s) ==
  /\ LossTurn /\ s \in FaultyStreams /\ Writable(s)
  /\ Drop(s, "errored")
  /\ IF closing
     THEN UNCHANGED <<connection, commands, modal, timers, turn>>
     ELSE /\ GoDown
          /\ Reconnect
          /\ UNCHANGED <<stream, closing, subscriptionSet, authPass, timers, draining,
                         task, resubKeys>>

\* node emits 'close' right after 'error', and after 'end' once the socket is shut.
RetryConnection ==
  /\ TimerTurn /\ retryTimer /\ stream < MaxStreams
  /\ \A s \in Streams : sock[s] # "errored" /\ (LateClose \/ sock[s] # "eof")
  /\ SetSock(stream + 1, "connecting")
  /\ stream' = stream + 1
  /\ retryTimer' = FALSE
  /\ UNCHANGED <<connected, ready, closing, attempts, emittedEnd, commands, modal,
                 timers, turn>>

------------------------------------------------------------------------------
Init ==
  /\ WireInit
  /\ stream = 1 /\ connected = FALSE /\ ready = FALSE /\ closing = FALSE
  /\ retryTimer = FALSE /\ attempts = NaN /\ emittedEnd = FALSE
  /\ commandQueue = <<>> /\ offlineQueue = <<>> /\ promise = <<>>
  /\ modes = NoModes /\ oldState = Null /\ subscriptionSet = {}
  /\ authPass = AuthPass
  /\ checkTimers = 0 /\ authTimers = 0
  /\ reactions = <<>> /\ draining = FALSE /\ task = "idle" /\ resubKeys = {}

\* The server, the network and the user.  What the server does in the middle
\* of a turn the turn cannot see: it moves between turns.
Server(s) ==
  /\ Idle
  /\ ServerExecutes(s) \/ ServerPushes(s) \/ ServerCloses(s)
  /\ UNCHANGED <<connection, commands, modal, timers, turn>>

IOEvent(s) == OnConnect(s) \/ OnData(s) \/ OnEnd(s) \/ OnClose(s) \/ OnError(s)

Timer == CheckTimer \/ AuthTimer \/ RetryConnection

Continue ==
  DoAuth \/ ReadyCheck \/ OnReady \/ Resubscribe \/ RestoreMonitor \/ SendOfflineQueue

Next ==
  \/ \E s \in Streams : Server(s) \/ IOEvent(s)
  \/ Timer \/ Continue \/ RunReaction
  \/ Issue \/ End

Spec == Init /\ [][Next]_vars

\* The event loop keeps running what is ready to run; a connect is answered;
\* the server goes on executing.  Nothing obliges the user, a fault or a push.
Fairness ==
  /\ WF_vars(Continue) /\ WF_vars(RunReaction) /\ WF_vars(Timer)
  /\ \A s \in Streams :
       /\ WF_vars(OnConnect(s)) /\ WF_vars(OnData(s))
       /\ WF_vars(OnEnd(s)) /\ WF_vars(OnClose(s))
       /\ WF_vars(Idle /\ ServerExecutes(s) /\ UNCHANGED <<connection, commands, modal,
                                                           timers, turn>>)

FairSpec == Spec /\ Fairness

------------------------------------------------------------------------------
(* Correctness                                                             *)

\* Every variable holds a value of its kind.
TypeOK ==
  /\ WireTypeOK
  /\ stream \in Streams
  /\ connected \in BOOLEAN /\ ready \in BOOLEAN /\ closing \in BOOLEAN
  /\ retryTimer \in BOOLEAN /\ emittedEnd \in BOOLEAN
  /\ attempts \in Nat \union {NaN}
  /\ commandQueue \in CommandSeq /\ offlineQueue \in CommandSeq
  /\ promise \in PromiseSeq
  /\ modes \in Modes /\ oldState \in Modes \union {Null}
  /\ subscriptionSet \subseteq Channels /\ authPass \in BOOLEAN
  /\ checkTimers \in Nat /\ authTimers \in Nat
  /\ reactions \in ReactionSeq /\ draining \in BOOLEAN
  /\ task \in Tasks /\ resubKeys \subseteq Channels

\* How many of the first n replies of q answer a command.
Rank(q, n) == Cardinality({i \in 1..n : q[i].cmd # Null})

\* The queue cq holds the commands answered in q, then those of ts, in order.
Owed(q, ts, cq) ==
  /\ Len(cq) = Rank(q, Len(q)) + Len(ts)
  /\ \A i \in DOMAIN q : q[i].cmd # Null => cq[Rank(q, i)] = q[i].cmd
  /\ \A i \in DOMAIN ts : cq[Rank(q, Len(q)) + i] = ts[i]

\* Nothing is under way on a client that is ready.
Quiet ==
  /\ Idle /\ ready /\ sock[stream] = "open" /\ reactions = <<>>
  /\ commandQueue = <<>> /\ toServer[stream] = <<>> /\ toClient[stream] = <<>>

\* commandQueue "holds sent commands to de-pipeline them" (client.js:87): it is
\* exactly the commands whose replies the open connection still owes, in order.
Aligned ==
  connected /\ sock[stream] = "open"
    => Owed(toClient[stream], toServer[stream], commandQueue)

\* Commands are sent in the order they were issued, those of the offline queue
\* after those already sent, and none is in the two queues, or twice in one.
IssueOrder ==
  LET q == commandQueue \o offlineQueue IN
  \A i, j \in DOMAIN q : i < j /\ q[i].id # 0 /\ q[j].id # 0 => q[i].id < q[j].id

\* A queued command has not been answered: nothing is sent, or replayed after
\* a reconnect, once its promise has been settled.
QueuedIsPending ==
  LET q == commandQueue \o offlineQueue IN
  \A i \in DOMAIN q : q[i].id # 0 => promise[q[i].id] = "pending"

\* The command c has not been written to any connection: it is one of the
\* client's own, or new, or has been kept since it was issued.
NotYetWritten(c) == c.id = 0 \/ c.id > Len(promise) \/ c \in ToSet(offlineQueue)

\* What is written is kept no more; only what has not been written is kept.
WritesOrKeepsNew ==
  /\ \A s \in Streams : \A i \in (Len(toServer[s]) + 1)..Len(toServer'[s]) :
       LET c == toServer'[s][i] IN
         /\ NotYetWritten(c)
         /\ \A j \in DOMAIN offlineQueue' : offlineQueue'[j].id = c.id => c.id = 0
  /\ \A j \in DOMAIN offlineQueue' : NotYetWritten(offlineQueue'[j])

\* A command is written at most once, whatever connections are lost: none is
\* sent again, or kept to be sent again, that was written to an earlier one.
WrittenOnce == [][WritesOrKeepsNew]_vars

\* flushAndError errors the promises "along the way" (client.js:126): a promise
\* is never left pending when its command is in no queue any more.
NoLostPromise ==
  LET q == commandQueue \o offlineQueue IN
  \A i \in DOMAIN promise : promise[i] = "pending" => \E j \in DOMAIN q : q[j].id = i

\* The database a quiet client believes selected is the one its connection uses,
\* across any number of reconnects (client.js:768, 283).
DbRestored == Quiet /\ modes.selectedDb # Null => srv[stream].db = modes.selectedDb

\* The database the client has selected, or will restore, changes only when the
\* SELECT of another one is seen to succeed, however the connection is lost and
\* whatever arrives twice: 'error', 'end' and 'close' (client.js:411-420).  It
\* does not say that every SELECT is seen: one whose reaction runs after 'end'
\* sets a field onReady overwrites (client.js:774, 275-280).
DbKeptUntilSelect ==
  [][Restored.selectedDb # Null /\ Restored'.selectedDb # Restored.selectedDb
       => /\ reactions # <<>> /\ Head(reactions).run = "selectResolved"
          /\ Restored'.selectedDb = Head(reactions).cmd.db]_vars

\* A client that was told to end opens no connection again (client.js:430, 742).
NoReconnectAfterClose ==
  [][closing => stream' = stream /\ ~(~retryTimer /\ retryTimer')]_vars

\* A message that arrives finds the client in pub/sub mode, so that it is never
\* taken for the reply of a command in flight (client.js:524-533).
MessagesNotMistaken ==
  \A s \in Streams :
    sock[s] = "open" /\ toClient[s] # <<>> /\ Head(toClient[s]).type = "message"
      => modes.pubSubMode

\* A quiet client in pub/sub mode is subscribed to the keys of subscriptionSet,
\* all of them and nothing else, after a reconnect too (client.js:293-304).
SubscriptionsRestored ==
  Quiet /\ modes.pubSubMode => srv[stream].subs = subscriptionSet

\* The server never delivers a quiet client a subscription the client has
\* forgotten: one it would not restore (client.js:719-733).
NoForeignSubscription == Quiet => srv[stream].subs \subseteq subscriptionSet

\* Commands issued before the client was ready are sent when it is: a quiet
\* client keeps none back (README.md:76, 135).
OfflineReplayed == Quiet => offlineQueue = <<>>

\* The connection is not given up: a client that is down is ready again, or
\* was told to end (client.js:430-455, README.md:139).
Recovers == ~ready /\ ~closing ~> ready \/ closing

\* What was sent is answered or given up.
SentDrains == commandQueue # <<>> ~> commandQueue = <<>>

------------------------------------------------------------------------------
(* What the connection promises about its commands, whatever happens to    *)
(* the connections: the abstract specification other parts are built on.   *)

\* The commands there can be: the user's, and those of the client's own.
Sendable ==
  {c \in [id : 0..MaxCmds, kind : Kinds, db : Dbs, mode : BOOLEAN,
          args : {u.args : u \in UserCommands} \union {<<>>} \union {<<key>> : key \in Channels}] :
     IF c.id = 0 THEN c.kind \in {"auth", "info", "select", "subscribe"}
     ELSE ~c.mode /\ [kind |-> c.kind, args |-> c.args, db |-> c.db] \in UserCommands}

Pipe == INSTANCE CommandPipe
          WITH Cmds <- Sendable, sent <- commandQueue, waiting <- offlineQueue,
               up <- connected

\* The two queues are one pipe: what is kept is replayed oldest first, replies
\* are for the oldest command written, and commands are dropped only when a
\* connection is lost, which leaves the client down, or when one is made
\* (client.js:87-88, 130-148, 164, 370-383).
RefinesPipe == Pipe!Spec
==============================================================================
