----------------------------- MODULE ClientCalls -----------------------------
(***************************************************************************)
(* The calls that are made of several commands: multi ... exec             *)
(* (lib/multi.js), incr and eval (lib/client.js), on a client whose        *)
(* connection is a CommandPipe and may be lost, against a server shared    *)
(* with other clients.  All data is one counter: "incr" and the script     *)
(* each add one to it and answer the new value, "get" answers the value,   *)
(* "bad" is a command the server refuses to queue.                         *)
(***************************************************************************)
EXTENDS Naturals, FiniteSets, SequencesExt

CONSTANTS
  MaxCalls,            \* bound: calls of the user
  Queueable,           \* what is queued in a multi: some of "incr", "get", "bad"
  MaxQueued,           \* bound: commands in the queue of a multi, MULTI not counted
  MaxLosses,           \* bound: connections lost
  MaxOthers,           \* bound: writes of other clients
  EnableOfflineQueue,  \* option enableOfflineQueue
  NotInMulti           \* model value: no MULTI has been executed

VARIABLES
  \* the pipe: written and unanswered, kept, the promises by number of command
  sent, waiting, promise,
  ready,    \* _send writes, or keeps
  calls,    \* the calls made, and what became of their promises
  turn,     \* what the callback that is running has still to send
  value,    \* by number of command, the values of its reply
  \* the server: replies under way, commands queued by MULTI, the data, whether
  \* it knows the script, every data command executed, in order
  replies, queued, counter, cached, ran,
  losses, others

pipe   == <<sent, waiting, promise>>
client == <<ready, calls, turn, value>>
server == <<replies, queued, counter, cached, ran>>
vars   == <<pipe, client, server, losses, others>>

Ops == {"multi", "exec", "incr", "get", "bad", "evalsha", "eval"}

Command == [id : Nat, call : Nat, op : Ops]

\* What MULTI queues, and whether a command has been refused.
Transaction == [cmds : Seq(Command), aborts : BOOLEAN]

ASSUME CallsAssumption ==
  /\ {MaxCalls, MaxQueued, MaxLosses, MaxOthers} \subseteq Nat
  /\ Queueable \subseteq {"incr", "get", "bad"}
  /\ EnableOfflineQueue \in BOOLEAN
  /\ NotInMulti \notin Transaction

Pipe == INSTANCE CommandPipe WITH Cmds <- Command, up <- ready

\* One callback runs at a time; the replay is one loop.
Idle == turn = <<>> /\ (ready => waiting = <<>>)

------------------------------------------------------------------------------
(* The user's calls                                                        *)

\* queue: what a multi has collected; ids: the commands sent for the call;
\* given: the replies handed to the commands of the queue, by their place.
Call(kind, state, queue) ==
  [kind |-> kind, queue |-> queue, ids |-> <<>>, state |-> state,
   vals |-> <<>>, given |-> {}]

Sends(k, ops) == turn' = [i \in DOMAIN ops |-> [call |-> k, op |-> ops[i]]]

MultiCall ==
  /\ calls' = Append(calls, Call("multi", "open", <<"multi">>))
  /\ UNCHANGED turn

IncrCall ==
  /\ calls' = Append(calls, Call("incr", "pending", <<>>))
  /\ Sends(Len(calls) + 1, <<"incr">>)

EvalCall ==
  /\ calls' = Append(calls, Call("eval", "pending", <<>>))
  /\ Sends(Len(calls) + 1, <<"evalsha">>)

NewCall ==
  /\ Idle /\ Len(calls) < MaxCalls
  /\ MultiCall \/ IncrCall \/ EvalCall
  /\ UNCHANGED <<pipe, ready, value, server, losses, others>>

\* A command may still be queued when the multi has been executed.
Queue(k) ==
  /\ Idle /\ calls[k].kind = "multi" /\ Len(calls[k].queue) <= MaxQueued
  /\ \E op \in Queueable :
       calls' = [calls EXCEPT ![k].queue = Append(@, op)]
  /\ UNCHANGED <<pipe, ready, turn, value, server, losses, others>>

\* A second exec throws.
Exec(k) ==
  /\ Idle /\ calls[k].state = "open"
  /\ LET queue == Append(calls[k].queue, "exec") IN
       /\ calls' = [calls EXCEPT ![k] = [@ EXCEPT !.queue = queue, !.state = "pending"]]
       /\ Sends(k, queue)
  /\ UNCHANGED <<pipe, ready, value, server, losses, others>>

------------------------------------------------------------------------------
(* The connection                                                          *)

\* _send for the next command of the callback that is running.
SendNext ==
  /\ turn # <<>>
  /\ LET id == Len(promise) + 1
         c  == [id |-> id, call |-> Head(turn).call, op |-> Head(turn).op]
     IN  /\ Pipe!Issue(c)
         /\ ready <=> sent' # sent
         /\ ~ready => (EnableOfflineQueue <=> waiting' # waiting)
         /\ calls' = [calls EXCEPT ![c.call].ids = Append(@, id)]
  /\ value' = Append(value, <<>>)
  /\ turn' = Tail(turn)
  /\ UNCHANGED <<ready, server, losses, others>>

\* onReady, then sendOfflineQueue.
BecomeReady ==
  /\ Idle /\ ~ready
  /\ ready' = TRUE
  /\ UNCHANGED <<pipe, calls, turn, value, server, losses, others>>

Replay ==
  /\ ready /\ Pipe!Replay
  /\ sent' # sent
  /\ UNCHANGED <<client, server, losses, others>>

Deliver ==
  /\ Idle /\ replies # <<>>
  /\ LET c == Head(sent)
         r == Head(replies)
     IN  /\ Pipe!Answer
         /\ promise' = Pipe!Settled(c, IF r.type = "error" THEN "rejected" ELSE "resolved")
         /\ value' = [value EXCEPT ![c.id] = r.vals]
  /\ replies' = Tail(replies)
  /\ UNCHANGED <<ready, calls, turn, queued, counter, cached, ran, losses, others>>

\* The server forgets the connection and what was queued on it.
Lose ==
  /\ Idle /\ losses < MaxLosses
  /\ Pipe!Lose
  /\ replies' = <<>> /\ queued' = NotInMulti
  /\ losses' = losses + 1
  /\ UNCHANGED <<calls, turn, value, counter, cached, ran, others>>

------------------------------------------------------------------------------
(* The server, and the other clients                                       *)

\* What the i-th of cmds answers when they run one after the other.
Answer(cmds, i) == counter + Cardinality({j \in 1..i : cmds[j].op # "get"})

Answers(cmds) == [i \in DOMAIN cmds |-> Answer(cmds, i)]

Reply(type, vals) == replies' = Append(replies, [type |-> type, vals |-> vals])

Executes(cmds) ==
  /\ counter' = Answer(cmds, Len(cmds))
  /\ ran' = ran \o [i \in DOMAIN cmds |->
                      [id |-> cmds[i].id, call |-> cmds[i].call, op |-> cmds[i].op,
                       val |-> Answer(cmds, i)]]

Run(cmds) == Reply("ok", Answers(cmds)) /\ Executes(cmds)

\* A script may fail after what it has written.
RunAndFail(cmds) == Reply("error", <<>>) /\ Executes(cmds)

RunNothing(type) == Reply(type, <<>>) /\ UNCHANGED <<counter, ran>>

InMulti == queued # NotInMulti

\* EXEC runs what is queued, unless a command was refused or, the key being
\* watched, another client has written.
ServeExec ==
  /\ IF InMulti /\ ~queued.aborts
     THEN Run(queued.cmds) \/ (others > 0 /\ RunNothing("null"))
     ELSE RunNothing("error")
  /\ queued' = NotInMulti /\ UNCHANGED cached

ServeQueued(c) ==
  /\ IF c.op \in {"bad", "multi"}
     THEN queued' = [queued EXCEPT !.aborts = @ \/ c.op = "bad"] /\ RunNothing("error")
     ELSE queued' = [queued EXCEPT !.cmds = Append(@, c)] /\ RunNothing("ok")
  /\ UNCHANGED cached

ServeAtOnce(c) ==
  /\ CASE c.op = "multi"               -> RunNothing("ok")
       [] c.op = "bad"                 -> RunNothing("error")
       [] c.op = "evalsha" /\ ~cached  -> RunNothing("error")
       [] c.op = "evalsha" /\ cached   -> Run(<<c>>) \/ RunAndFail(<<c>>)
       [] c.op = "eval"                -> Run(<<c>>) \/ RunAndFail(<<c>>)
       [] OTHER                        -> Run(<<c>>)
  /\ queued' = IF c.op = "multi" THEN [cmds |-> <<>>, aborts |-> FALSE] ELSE NotInMulti
  /\ cached' = (cached \/ c.op = "eval")

\* The server moves between turns: a turn cannot see it.
Serve ==
  /\ Idle /\ Len(replies) < Len(sent)
  /\ LET c == sent[Len(replies) + 1] IN
       CASE c.op = "exec" -> ServeExec
         [] c.op # "exec" /\ InMulti  -> ServeQueued(c)
         [] c.op # "exec" /\ ~InMulti -> ServeAtOnce(c)
  /\ UNCHANGED <<pipe, client, losses, others>>

\* Another client writes, and may load the script or empty the script cache.
OtherWrites ==
  /\ Idle /\ others < MaxOthers
  /\ others' = others + 1
  /\ counter' = counter + 1
  /\ cached' \in BOOLEAN
  /\ UNCHANGED <<pipe, client, replies, queued, ran, losses>>

------------------------------------------------------------------------------
(* What the then and catch handlers of the calls do                        *)

\* The promise of the i-th command sent for call k.
P(k, i) == promise[calls[k].ids[i]]

Sent(k) == Len(calls[k].ids)

Waits(k, kind) == Idle /\ calls[k].kind = kind /\ calls[k].state = "pending"

IncrReply_Retries(k) ==
  /\ Waits(k, "incr") /\ Sent(k) = 1 /\ P(k, 1) # "pending"
  /\ Sends(k, IF P(k, 1) = "resolved" THEN <<"get">> ELSE <<"incr">>)
  /\ UNCHANGED calls

IncrReply(k) ==
  /\ Waits(k, "incr") /\ Sent(k) = 1 /\ P(k, 1) = "resolved"
  /\ Sends(k, <<"get">>)
  /\ UNCHANGED calls

EvalShaRejected_OnAny(k) ==
  /\ Waits(k, "eval") /\ Sent(k) = 1 /\ P(k, 1) # "pending"
  /\ Sends(k, <<"eval">>)
  /\ UNCHANGED calls

\* Whatever the reason: NOSCRIPT, the connection, or an error of the script.
EvalShaRejected(k) ==
  /\ Waits(k, "eval") /\ Sent(k) = 1 /\ P(k, 1) = "rejected"
  /\ Sends(k, <<"eval">>)
  /\ UNCHANGED calls

Given_FromMulti(vals) == {[at |-> i, val |-> vals[i]] : i \in 1..(Len(vals) - 1)}

Given_NextReply(vals) == {[at |-> i + 1, val |-> vals[i + 1]] : i \in 1..(Len(vals) - 1)}

\* The first of the queue is MULTI; the loop stops one short of the replies.
Given(vals) == {[at |-> i + 1, val |-> vals[i]] : i \in 1..(Len(vals) - 1)}

SettlesCall(k, how, vals, given) ==
  /\ calls' = [calls EXCEPT ![k] = [@ EXCEPT !.state = how, !.vals = vals, !.given = given]]
  /\ UNCHANGED turn

LastValue(k) == value[calls[k].ids[Sent(k)]]

\* Promise.all(promises), then the promise of EXEC.
ExecResolve(k) ==
  /\ Waits(k, "multi") /\ \A i \in 1..Sent(k) : P(k, i) = "resolved"
  /\ SettlesCall(k, "resolved", LastValue(k), Given(LastValue(k)))

ExecReject_Retries(k) ==
  /\ Waits(k, "multi") /\ \E i \in 1..Sent(k) : P(k, i) = "rejected"
  /\ Sent(k) = Len(calls[k].queue) /\ Sends(k, calls[k].queue)
  /\ UNCHANGED calls

ExecReject_AfterExec(k) ==
  /\ Waits(k, "multi") /\ P(k, 1) = "rejected"
  /\ SettlesCall(k, "rejected", <<>>, {})

ExecReject(k) ==
  /\ Waits(k, "multi") /\ \E i \in 1..Sent(k) : P(k, i) = "rejected"
  /\ SettlesCall(k, "rejected", <<>>, {})

IncrSettles(k) ==
  /\ Waits(k, "incr")
  /\ \/ Sent(k) = 2 /\ P(k, 2) = "resolved" /\ SettlesCall(k, "resolved", LastValue(k), {})
     \/ P(k, Sent(k)) = "rejected" /\ SettlesCall(k, "rejected", <<>>, {})

EvalSettles(k) ==
  /\ Waits(k, "eval")
  /\ \/ P(k, Sent(k)) = "resolved" /\ SettlesCall(k, "resolved", LastValue(k), {})
     \/ Sent(k) = 2 /\ P(k, 2) = "rejected" /\ SettlesCall(k, "rejected", <<>>, {})

React(k) ==
  /\ \/ IncrReply(k) \/ EvalShaRejected(k)
     \/ ExecResolve(k) \/ ExecReject(k) \/ IncrSettles(k) \/ EvalSettles(k)
  /\ UNCHANGED <<pipe, ready, value, server, losses, others>>

------------------------------------------------------------------------------
Init ==
  /\ Pipe!Init
  /\ ready = FALSE
  /\ calls = <<>> /\ turn = <<>> /\ value = <<>>
  /\ replies = <<>> /\ queued = NotInMulti /\ counter = 0 /\ cached = FALSE /\ ran = <<>>
  /\ losses = 0 /\ others = 0

User == NewCall \/ \E k \in DOMAIN calls : Queue(k) \/ Exec(k)

EventLoop == SendNext \/ BecomeReady \/ Replay \/ Deliver \/ \E k \in DOMAIN calls : React(k)

Next == User \/ EventLoop \/ Lose \/ Serve \/ OtherWrites

Spec == Init /\ [][Next]_vars

\* The event loop goes on while there is something to run, a client that is down
\* gets ready, the server executes; users and faults are obliged to nothing.
Fairness == WF_vars(EventLoop) /\ WF_vars(Serve)

FairSpec == Spec /\ Fairness

------------------------------------------------------------------------------
(* Correctness                                                             *)

Calls(kind) == {k \in DOMAIN calls : calls[k].kind = kind}

\* Where in what the server ran the commands of call k are.
Ran(k) == {i \in DOMAIN ran : ran[i].call = k}

\* Every variable holds a value of its kind, and only commands between MULTI
\* and EXEC are handed a reply.
TypeOK ==
  /\ \A i \in DOMAIN sent : sent[i] \in [id : 1..Len(promise), call : DOMAIN calls, op : Ops]
  /\ \A i \in DOMAIN waiting : waiting[i].id \in 1..Len(promise)
  /\ promise \in Seq({"pending", "resolved", "rejected"})
  /\ Len(value) = Len(promise) /\ Len(replies) <= Len(sent)
  /\ ready \in BOOLEAN /\ cached \in BOOLEAN /\ counter \in Nat
  /\ \A k \in DOMAIN calls :
       /\ calls[k].kind \in {"multi", "incr", "eval"}
       /\ calls[k].state \in {"open", "pending", "resolved", "rejected"}
       /\ \A g \in calls[k].given : g.at \in 2..(Sent(k) - 1)

\* "drains multi queue and runs atomically" (README.md:371): of a transaction
\* the server runs nothing or, once for the call of exec that sent it, every
\* command queued before that call, in order and with nothing of another call in
\* between, whatever connections are lost.
TransactionsWhole ==
  \A k \in Calls("multi") :
    LET places == {i \in DOMAIN ran : ran[i].call = k} IN
    places # {} =>
      \E a \in DOMAIN ran :
        /\ places = a..(a + Sent(k) - 3)
        /\ \A i \in places : ran[i].id = calls[k].ids[i - a + 2]

\* Whatever replies multiExecResolve hands to the queued commands, each command
\* is handed the reply to itself, never its neighbour's (multi.js:131-140).
OwnReplies ==
  \A k \in Calls("multi") : \A g \in calls[k].given : \E i \in DOMAIN ran :
    ran[i].id = calls[k].ids[g.at] /\ ran[i].val = g.val

\* Each command queued in a multi has a callback of its own, the last one too
\* (README.md:364-366): when the transaction has run, each is told its reply.
QueuedCommandsTold ==
  \A k \in Calls("multi") :
    calls[k].vals # <<>> => {g.at : g \in calls[k].given} = 2..(Sent(k) - 1)

\* However connections are lost, incr adds at most one; a call that resolves
\* has added one, and its value is not older than that (client.js:871-877).
IncrCountsOwn ==
  \A k \in Calls("incr") :
    LET own == {i \in Ran(k) : ran[i].op = "incr"} IN
    /\ \A i, j \in own : i = j
    /\ calls[k].state = "resolved" =>
         \E i \in own : \E v \in ToSet(calls[k].vals) : v >= ran[i].val

\* A script runs a second time only when EVALSHA was rejected, by an error of
\* the script or with its connection, and never a third time; a call that
\* resolves has the value of its last run (client.js:862-867).
EvalOnceUnlessRejected ==
  \A k \in Calls("eval") :
    /\ \A i, j \in Ran(k) : i # j => P(k, 1) = "rejected" /\ Ran(k) = {i, j}
    /\ calls[k].state = "resolved" =>
         \E i \in Ran(k) : calls[k].vals = <<ran[i].val>> /\ \A j \in Ran(k) : j <= i

\* One of the commands of call k was dropped and its promise forgotten, as
\* flushAndError does to all but the last (client.js:126-149).
Dropped(k) ==
  \E i \in 1..Sent(k) :
    /\ P(k, i) = "pending"
    /\ \A j \in DOMAIN (sent \o waiting) : (sent \o waiting)[j].id # calls[k].ids[i]

Pending(k) == k \in DOMAIN calls /\ calls[k].state = "pending"

\* A call that was made settles, unless the connection dropped one of its
\* commands: no error reply, refusal or conflict leaves it pending.
CallsSettle == \A k \in 1..MaxCalls : Pending(k) ~> ~Pending(k) \/ Dropped(k)
==============================================================================
