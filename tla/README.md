# A TLA+ model of node-redis-promised

node-redis-promised is a Redis client for node.js: it keeps one connection to a
Redis server, pipelines commands over it, hands each reply to the promise of its
command, queues commands while there is no connection, reconnects, and restores
what the lost connection had set up. This directory holds a TLA+ model of that
client and of what is built on it, the TLC configurations that check it on small
instances, and TLAPS proofs of what holds for every instance.

    tlc -config client_commands.cfg MCRedisClient.tla    # likewise client_pubsub, client_live, client_anything
    tlc -config finding_flush.cfg MCRedisClient.tla      # likewise finding_restore, _replay, _loading
    tlc -config client_calls.cfg ClientCalls.tla
    tlc -config finding_multi.cfg ClientCalls.tla
    tlc -config parser_chunks.cfg MCReplyParser.tla
    tlc -config queue_fifo.cfg Queue.tla
    tlapm RedisClientProofs.tla    # likewise StreamProofs, OrderProofs, AgreementProofs, CallProofs,
                                   # CallAnswerProofs, ParserProofs, QueueProofs

## 1. The system

| Component | State it keeps | Operations | Talks to |
|---|---|---|---|
| Connection, `lib/client.js` | `stream`, `connected`, `ready`, `closing`, retry timer and attempts, `commandQueue`, `offlineQueue`, the modes (`monitoring`, `pubSubMode`, `selectedDb`), `oldState`, `subscriptionSet`, `authPass` | `sendCommand`/`_send`, `pubSubCommand`, `select`, `auth`, `end`; the stream's `connect`, `data`, `end`, `error`, `close`; the ready check, AUTH, `onReady`, `sendOfflineQueue`, `flushAndError`, `connectionGone`, the reply handlers | the socket, the server, the user's promises, its own promises |
| Command, `lib/command.js` | arguments, promise | `write`, `resolve`, `reject` | Connection |
| Back-pressure, `lib/client.js` | `shouldBuffer`, two water marks | result of `_send`, `drain` event | stream, user |
| Retry clock, `lib/client.js` | `retryDelay`, `retryTotalTime`, `retryBackoff`, `attempts` | `initializeRetryVars`, `retryConnection`, `connectTimeout`, `maxAttempts` | Connection |
| Queue, `lib/queue.js` | two arrays and an offset | `push`, `shift`, `forEach`, `length` | Connection |
| MULTI, `lib/multi.js` | its own command list, `executed` | queueing methods, `exec` | Connection |
| Composed commands, `lib/client.js` | none | `eval` (EVALSHA, then EVAL), `incr` (INCR, then GET), `hmget`, `hmset` | Connection |
| JavaScript reply parser, `lib/parser/javascript.js` | buffer, offset | `execute` on a chunk | Connection (`onData`) |
| hiredis parser, `lib/parser/hiredis.js` | a native reader | `execute` | Connection |
| Factory, `index.js` | none | `createClient` | Connection |

How they interact. node calls the stream's listeners with events; `onData` gives a
chunk to the parser, which calls back once per reply, and `_returnReply` or
`_returnError` shifts `commandQueue` and settles the promise of the command. Some
commands are the client's own (INFO of the ready check, AUTH, the SELECT and
SUBSCRIBEs that restore a connection): what it does next hangs on *their* promises,
in reactions that bluebird runs after the callback that settled them. `connectionGone`
flushes both queues into rejections, saves the modes in `oldState` and starts the
retry timer, which opens the next stream.

### What is hard about it

Nothing runs in parallel, but a lot interleaves: the events of up to two streams
(the old one's `close` and the new one's `connect`), the timers of the ready check,
of AUTH and of the retry, the promise reactions, and the user's calls. Replies are
matched to commands by order alone. Three events (`error`, `end`, `close`) report
one lost connection. Modes change when a command is *sent* and again when it is
*answered*. PROJECT.json lists the hazards, each at its line.

### What makes each part correct

* **Connection.** `commandQueue` is exactly the replies owed, in order; commands go
  out in the order issued, each at most once; a promise is settled once and never
  forgotten; a reconnect restores database and
  subscriptions and replays the offline queue; a message is never taken for a reply;
  after `end()` or QUIT no connection is opened; otherwise the client comes back.
* **Queue.** It is a FIFO, and `length` is its length.
* **MULTI.** All of a transaction is run or none, in one piece, once for each `exec`; every queued
  command gets its own reply; `exec` settles.
* **Retry clock.** The client gives up exactly after `maxAttempts` or `connectTimeout`.
* **Back-pressure.** Buffering announced by `false` ends with a `drain` event.
* **Composed commands.** A script runs once per call unless its digest is rejected; `incr` adds one and returns no
  older value than its own.
* **Reply parser.** It emits what the server sent, each reply once and as soon as its
  last byte is there, however the bytes are cut into chunks.

## 2. The modules

| Module | Models | Used by |
|---|---|---|
| `RedisWire` | the sockets and the server, as far as the client uses them (none of it is in `src/`) | `RedisClient` |
| `RedisClient` | the connection: `lib/client.js`, with commands as records; the specification and its properties | all below |
| `MCRedisClient` | the sets of commands the small instances use | the client's `.cfg` |
| `CommandPipe` | what the connection promises about commands: a pipe that may break | `RedisClient` implements it, `ClientCalls` is built on it |
| `ClientCalls` | the calls made of several commands: `multi` ... `exec` (`lib/multi.js`), `incr`, `eval`, with a server shared by others | `CallProofs` |
| `Resp` | the replies of a server as bytes and as values (not in `src/`) | `ReplyParser` |
| `ReplyParser`, `MCReplyParser` | `lib/parser/javascript.js`, fed with chunks | |
| `FifoQueue` | what a queue promises: a sequence of items | `Queue` |
| `Queue` | `lib/queue.js`: two arrays and an offset, a refinement of `FifoQueue` | |
| `RedisClientProofs` | types, the database, one place for every command; `RedisClient` implements `CommandPipe` | the next three |
| `StreamProofs` | one stream at a time; closed for good; what a ready client's stream is | the next two |
| `OrderProofs` | commands in the order of issue, none kept back | |
| `AgreementProofs` | client and server agree: replies owed, pub/sub mode, database, subscriptions | |
| `CallProofs` | a transaction is run as a whole | `CallAnswerProofs` |
| `CallAnswerProofs` | every call is told what its own commands answered | |
| `ParserProofs` | the parser emits what the server sent | |
| `QueueProofs` | `Queue` implements `FifoQueue` | |

Two refinements carry the layers. `Queue` implements a FIFO, so `RedisClient` takes its
queues for sequences; `RedisClient` implements `CommandPipe`, so `ClientCalls` takes the
connection for a pipe that may break and matches replies with the oldest command written. `ReplyParser` shows that the
chunks of a socket are the replies the server sent, which `RedisWire` takes for granted.

### RedisWire

Each connection is a *stream* `s` in `1..MaxStreams`. `sock[s]` is the socket as its
listeners see it (`none`, `connecting`, `open`, `eof` after 'end', `errored` after
'error', `closed` after 'close', `detached` after `end()`); `toServer[s]` and
`toClient[s]` are FIFO pipes; `srv[s]` is what the server keeps for the connection
(subscriptions, database, MONITOR, authentication). `ServerExecutes` answers the
next command; while it loads its data set (`loads < MaxLoads`) it may say so to INFO
and refuse AUTH. `ServerPushes` sends messages and MONITOR lines, `ServerCloses`
closes a faulty connection. Losing a stream (`Drop`) loses what is in both pipes. A
reply carries the command it answers, for the properties only: the client's actions
never look at it.

### RedisClient

*Turns.* JavaScript runs a callback to its end. An action is one callback; where the
callback goes on by calling another method last (`onConnect` to `doAuth` or
`readyCheck`, a reaction to `onReady`, `onReady` to `sendOfflineQueue`) or by a loop,
the variable `task` names the rest, and no other action is enabled until it is back
to `"idle"`. So the intermediate states of a loop are states of the model, but
nothing interleaves with them. `Idle`, `IOTurn`, `LossTurn` and `TimerTurn` say who may
start a turn.

*Reactions.* Settling one of the client's own promises, or one with a `.then` of
`select`, appends to `reactions`; `RunReaction` runs them in order, `draining` says
that bluebird is in the middle of its queue. This is the difference between "INFO was
answered" and "the client is ready". bluebird drains by `setImmediate`: after all I/O
events of a phase of node's loop, which may be several replies of one chunk, several
chunks and the loss of the connection, and before the next timers. So an I/O event may
come whenever no callback is running and no drain under way (`IOTurn`), a timer only
when no reaction is left (`TimerTurn`).

*Correspondence.* `Send` is `_send` with `pubSubCommand` (its guard `Disposition` is
the two early returns of `_send`), `Issue` the user's calls, `SendOwn` the client's;
`OnConnect`, `OnData`, `OnEnd`, `OnClose`, `OnError` the listeners;
`ReturnReply`/`ReturnError` the reply handlers; `FlushAndError`, `GoDown`, `SaveModes`,
`ScheduleRetry`, `Reconnect` are the parts of `connectionGone` in its order;
`RestoreDb`, `RestoreModes`, `Resubscribe`, `RestoreMonitor`, `SendOfflineQueue` those of
`onReady`. `map` in PROJECT.json gives the lines.

*Kept as the code has it.* `flushAndError` rejects only the last command it shifts
(its callbacks share a variable); `attempts` is NaN until the first connect; the
timers of the ready check and of AUTH are never cancelled; restoring MONITOR throws,
which ends the process from a socket's callback (`task = "crashed"`) and is an
'error' event from a reaction; `connectionGone` does not know which stream it is about.

*Queues.* `commandQueue` and `offlineQueue` are sequences: `Queue` refines `FifoQueue`, so
that the client sees of its queues what it would see of a sequence.

*Mutants.* An operator `Def_Fault` is a plausible bug in `Def`. No definition uses
it; replacing the body of `Def` with it must break the property PROJECT.json names.

### Queue

`push` puts an item on `tail`; `shift` takes `head[offset]`, or, when `head` is used up,
makes `tail` the head and the old head, cut to length 0, the next tail, and answers
null if there is nothing. `ForEach` is the array that `forEach` hands to its callback,
`(rest of head) \o tail`, and at the same time the refinement mapping: `RefinesFifo` says
that `FifoQueue` describes it, step by step, with what `shift` and `length` return in
`answer`. What `push` returns is left out: nobody uses it.

### CommandPipe and ClientCalls

`CommandPipe` has the commands written and unanswered (`sent`), those kept for later
(`waiting`), the promises, and whether there is a connection (`up`). A command is written at the
end of `sent`, kept, or refused; `Replay` tries the oldest kept one again; `Answer` settles the
oldest written; `Lose` drops all and tells only the last, as `flushAndError` does, and leaves the
client down; `Connect` is `onConnect` with its new `commandQueue`, `Close` is `end()`.
`RedisClient!RefinesPipe` maps `commandQueue`, `offlineQueue` and `connected` to them. The pipe does not
promise the order of issue: a forced command is written while others are kept. That a client
without forced calls keeps the order is `IssueOrder`.

`ClientCalls` adds the callers. A call is a record: what a multi has collected, the
numbers of the commands sent for it, and what became of its promise. `turn` holds what the
callback that is running has still to send, so `exec` sends its queue command by command
(`SendNext` is `_send`) and nothing interleaves; the replay is one loop in the same way.
`NewCall`, `Queue`, `Exec` are the user's calls; `IncrReply`, `EvalShaRejected`, `ExecResolve`
and the others are the handlers on the promises, which run when those are settled, in any
order. The server is there in full as far as these calls see it: MULTI queues, a refused
command makes EXEC fail, a write of another client may make it answer null, a lost
connection forgets the transaction, the script cache may be emptied, and a script may fail
at run time, after it has written (`RunAndFail`): the error of EVALSHA is one like NOSCRIPT to
`evalShaRejected`. All data is one
counter, which every `incr` and every run of the script moves, so that a value tells
which run it is the answer to.

### Resp and ReplyParser

A reply is the sequence of its bytes together with the value it stands for. `Execute` appends
a chunk of any length, `Iterate` is one turn of the loop of `execute`: type byte, `ParseResult`,
and either the event or the rewind. `Byte`, `Slice` and `LineEnd` read as the code does, at
offsets that may lie behind the buffer: the line end is sought with `&&`, so a chunk that
ends between CR and LF ends the line, and a bulk string may be emitted before its own line
end has come, which the next `execute` skips byte by byte. A listener may throw, which ends the
`execute` that called it (`stalled`); `Reconnect` makes a new parser in the middle of a reply.

What a server may send is a constant: `Nesting` gives every reply there is, the elements of arrays
among them, its depth, and `ReplyStreams` are the sequences of them. `RepliesAssumption` says
what RESP says of a reply (`IsReply`): a line, a bulk of any bytes, null, or an array of replies
of smaller depth; it has four bytes at least, since the loop waits for four
(`lib/parser/javascript.js:158`): a status of no text is left out. Lengths in headers are decimal
numerals of any size (`Decimal`). `_parseResult` calls itself for
the elements of an array; here this is a function of the depth of the calls, `Nested`,
which the length of the buffer bounds since every call begins behind a header.

### Environment constants

Three constants say how hostile the surroundings are. Each names something the code can meet and does
not survive whole; with `FALSE` an instance is spared it. `client_anything` sets all of them.

* `LateStart`: a connection may be lost, or `end()` called, between the reply to INFO or AUTH
  and the reaction that makes the client ready or goes on to the ready check. The code can
  do this, when the reply and 'end' come in one phase of node's loop. Chunks of several
  replies, and other reactions that run late, need no constant: they are in every instance.
* `LateClose`: the retry timer may run out between 'end' and 'close' of one stream.
* `ForcedCalls`: the form `method([args], callback)`, whose callback lands in the
  parameter `forceSend`, so that the command is written before the client is ready.

`ClientCalls` and `ReplyParser` bound their faults themselves (`MaxLosses`, `MaxOthers`,
`MaxThrows`, `MaxConnections`).

What holds only of a client that is spared one of them: `Aligned`, `IssueOrder`,
`MessagesNotMistaken` and `Recovers` do not hold of the code with `LateStart` (explored, and told
below as a divergence); `Aligned`, `IssueOrder`, `MessagesNotMistaken` and `NoReconnectAfterClose` do not with
`LateClose`. `DbRestored`, `OfflineReplayed`, `NoForeignSubscription` were also explored with `LateStart`,
and hold. The five properties of `client_anything` need nothing.

## 3. The runs

| Run | Instance | Checks |
|---|---|---|
| `client_commands` | 3 streams, 2 of them faulty; 4 commands among GET, SELECT 0/1, QUIT; `end()` | `Aligned`, `IssueOrder`, `DbRestored`, `OfflineReplayed`, `NoReconnectAfterClose` |
| `client_pubsub` | 2 streams, 1 faulty; 4 commands among GET and (UN)SUBSCRIBE of one of two channels; 2 messages | `MessagesNotMistaken`, `NoForeignSubscription` |
| `client_live` | `FairSpec`; 3 streams, 2 faulty; 3 commands among GET and SUBSCRIBE; the server is loading once | `SubscriptionsRestored`, `Recovers`, `SentDrains` |
| `client_anything` | 3 streams, 2 faulty; 2 commands among GET, SELECT, AUTH, MONITOR, QUIT; every environment constant TRUE, no ready check, `maxAttempts` 2, `end()` | `TypeOK`, `QueuedIsPending`, `WrittenOnce`, `DbKeptUntilSelect`, `RefinesPipe` |
| `client_calls` | `FairSpec`; 2 calls; at most 2 commands queued, good or refused, and more after `exec`; one lost connection, one write of another client | `TypeOK`, `TransactionsWhole`, `OwnReplies`, `IncrCountsOwn`, `EvalOnceUnlessRejected`, `CallsSettle` |
| `parser_chunks` | streams of up to two replies of every kind, cut in every way; 2 connections, one exception | `TypeOK`, `RepliesRead`, `RepliesAsSent`, `NothingHeldBack` |
| `queue_fifo` | 3 items, at most 3 in `tail` | `TypeOK`, `RefinesFifo` |
| `finding_flush` | 2 GETs, one lost connection | `NoLostPromise` is violated |
| `finding_restore` | SELECT and SUBSCRIBE, one lost connection | `SubscriptionsRestored` is violated |
| `finding_replay` | SUBSCRIBE, GET, one lost connection | `OfflineReplayed` is violated |
| `finding_loading` | `FairSpec`; a password, a loading server, one lost connection | `Recovers` is violated |
| `finding_multi` | one transaction of at most 2 commands, nothing goes wrong | `QueuedCommandsTold` is violated |

What the properties say:

* `Aligned`: on an open connection `commandQueue` is the sequence of commands whose
  replies are still in the pipes. One reply too many or too few, anywhere in the
  past, breaks it.
* `IssueOrder`: the user's commands stand in the queues in the order of issue.
* `DbRestored`, `SubscriptionsRestored`, `NoForeignSubscription`, `OfflineReplayed`
  compare client and server, or look at the offline queue, when the client is *quiet*:
  ready, nothing in flight, no reaction pending.
* `DbKeptUntilSelect`: the database selected, or saved for the next connection, changes only by
  the reaction to another SELECT; the hazard is the second `connectionGone` of one loss
  overwriting `oldState` with the cleared modes. It does not say that every SELECT is
  taken over: one whose reaction runs after 'end' is not (below).
* `NoReconnectAfterClose`: no step of a closing client opens a stream or starts the
  retry timer.
* `MessagesNotMistaken`: the message at the head of the pipe finds `pubSubMode` set.
* `QueuedIsPending`, `WrittenOnce`: nothing settled is queued; what a step writes, or keeps to
  be replayed, has never been written to any connection, the lost ones included.
* `RefinesPipe`: every step of the client is a step of `CommandPipe` on its two queues.
* `TransactionsWhole`: what the server ran for a multi is nothing, or, once for the call of `exec`
  that sent it, every command queued before that call, in order and contiguous among all it
  ran. It takes the loss of a connection in the middle, a replay, or a retry to break it. It
  does not say that a transaction may not be run again; a second `exec` throws (below).
* `OwnReplies`: whatever reply `exec` hands to a queued command is the reply to that very command.
  It says nothing of which commands are handed one: that is `QueuedCommandsTold`, every queued
  command of a transaction that has run, which the code violates.
* `IncrCountsOwn`: an `incr` adds at most one, exactly one if it resolves, and its value is at
  least that one's; it may be newer, since the value comes from a GET of its own.
* `EvalOnceUnlessRejected`: a script runs twice only if EVALSHA was rejected, by an error of the
  script or with its connection; a call that resolves has the value of its last run.
* `CallsSettle`: a call settles unless the connection dropped one of its commands in the way
  `finding_flush` shows.
* `RepliesRead`: of a reply that starts in the buffer, whatever stands before it and wherever the
  buffer ends, `_parseResult` makes the whole value and its end, or nothing; and the value when all of it is there.
* `RepliesAsSent`: the events are a prefix of the replies of this connection. `NothingHeldBack`:
  when `execute` returns they include every reply whose bytes have all come.
* `RefinesFifo`: the arrays of `lib/queue.js` are one FIFO, and `length` counts it;
  `Queue`'s `TypeOK` says that the offset never runs past the end of `head`, where every
  later `shift` would return undefined.
* `Recovers`: a client that is down is ready again or told to end. `SentDrains`: what
  was sent is answered or given up.

*Bounds.* Two faulty streams and a healthy one give two losses in a row, with the
second during the recovery from the first: every path through `connectionGone` with and
without a running timer and saved modes. Four commands allow one on each side of a
SELECT (or of a subscription change) across a loss, with one more in the offline queue; the actions
depend on a queue's head, emptiness and order, so a longer one repeats them. Two
databases and two channels tell right from wrong. The last stream of a run is not
faulty: the liveness properties need one connection that lasts; `RetryConnection` has
no stream left to open only when the last one was closed by QUIT.

Three items in `tail` and as many in `head` give every case of `shift`: in the
middle of `head`, at its end with a full or an empty `tail`, and again after that. The
length of `tail` is the only bound, and the theorem does without it.

Two calls give every pair of kinds side by side, on both sides of a loss and of another
client's write; a third call, or a second loss, meets the same queues. Two queued
commands are one that `exec` hands a reply and one it does not (`finding_multi`), or one refused among good
ones. Two replies in a row give every reply a successor whose first bytes share a chunk with
its end; a third one finds the parser in a state it has been in. The kinds of reply include
the empty and null bulks and arrays, an array of a bulk, and an array of arrays.

*Deadlock* is checked in `queue_fifo`. The other runs do not: a parser with no bytes left, calls that all have settled, an idle client with
nothing issued, one that was ended, one that gave up and a crashed process all stop
for good.

*Fairness.* `Continue` and `RunReaction` are weakly fair because a JavaScript turn and
bluebird's drain cannot be interrupted; `Timer` and the listeners because the event loop
serves what is ready (a connect is answered, data in the pipe is delivered, 'close'
follows 'end' and 'error'); `ServerExecutes` because the server goes on. Nothing obliges
the user, a fault, `end()` or a push. `client_calls` has the same in two parts: the event loop
(with the client getting ready: `Recovers` is what justifies it) and the server.

### Findings

1. `finding_flush`: when two commands or more are flushed only the last promise is
   rejected; the others stay pending for ever (`lib/client.js:130`).
2. `finding_restore`: with a selected database the subscriptions are not restored,
   because `onReady` tests the mode it has just switched off (`lib/client.js:293`).
3. `finding_replay`: after resubscribing `onReady` returns without replaying the offline
   queue, against `README.md:76` (`lib/client.js:306`).
4. `finding_loading`: a ready check timer that outlives its connection writes INFO ahead
   of AUTH on the next one; the replies are then one off, and a client with a password
   never gets ready (`lib/client.js:357`). Without a password the same timer leaves the replies one
   off on a client that does get ready.
5. `finding_multi`: `multiExecResolve` loops over all replies but the last, so the promise and the
   callback of the last queued command are never settled (`lib/multi.js:131`), against the
   example at `README.md:364-366`, which gives it a callback.

Further divergences, met while modelling, that have no run of their own:

* *Ready on a dead connection* (`lib/client.js:365`). When the reply to INFO and 'end' come in one phase of
  node's loop, the reaction to INFO runs after `connectionGone` and makes the client ready on a
  stream that is gone; with a command in the offline queue `sendOfflineQueue` shifts and queues
  it for ever. `LateStart` allows it, in `client_anything`; `Aligned`, `IssueOrder`,
  `MessagesNotMistaken` and `Recovers` do not hold then.
* *A SELECT that succeeded is forgotten* (`lib/client.js:774`). When its reaction runs after 'end', it sets
  `selectedDb` beside the modes already saved in `oldState`, and `onReady` overwrites it: the user's promise
  was resolved, and the next connection stays in the old database.
* *SELECT with SUBSCRIBE* (`lib/client.js:288`). `resetPubSub`, the reaction to the SELECT of `onReady`, puts back the mode
  of before. After the answer to a SUBSCRIBE in the same chunk it switches pub/sub mode off, and
  the next message takes a command off `commandQueue`: `MessagesNotMistaken` and `Aligned` are violated. On a
  connection lost while that SELECT is unanswered it sets `pubSubMode` on a client whose modes were
  just cleared; the INFO of the next connection is refused, and the client never gets ready.
* *A second `exec`* throws (`lib/multi.js:107`), where `README.md:376-380` runs the same transaction again.
* *A script that fails runs twice* (`lib/client.js:863`): any rejection of EVALSHA sends EVAL, an error of the script
  included, so that what a failing script wrote it writes twice. `EvalOnceUnlessRejected` leaves it room.
* *The low-water mark* is set as `commandQueuelowWater` (`lib/client.js:86`) and read as `commandQueueLowWater`, so
  buffering begun at the high-water mark is not ended by replies, against `README.md:107`. No module
  models back-pressure.
* *An UNSUBSCRIBE that is lost with its connection* is out of `subscriptionSet` already, and is not repeated.

Runs that avoid them leave out exactly what triggers them: `client_commands` has no
subscription, `client_pubsub` and `client_live` no SELECT, and none of the passing runs
has a password. `client_pubsub` and `client_live` issue one channel per call, since a call with
several is answered several times, which `commandQueue` does not expect (a call answered
twice misaligns `commandQueue`), and do not mix MONITOR with subscriptions, whose lines
look like replies then. `client_live` has no UNSUBSCRIBE: one that is pipelined and lost
with its connection is already out of `subscriptionSet`, which is more than was promised. All
but `client_anything` have `LateStart` and `LateClose` FALSE.

## 4. The proofs

`RedisClientProofs` proves, for every value of the constants allowed by
`WireAssumption`, `ClientAssumption` and `NullAssumption` (any number of streams,
commands and channels, every option, the most hostile environment):

| Theorem | Statement |
|---|---|
| `TypeCorrect` | `Spec => []TypeOK` |
| `DbKept` | `Spec => DbKeptUntilSelect` |
| `QueuedPending` | `Spec => []QueuedIsPending` |
| `WrittenAtMostOnce` | `Spec => WrittenOnce` |

The assumptions only give the constants their types; `NullAssumption` says that null is
not a record of modes, `WireAssumption` that it is not a database. The server and the
network are part of `Spec`, so the theorems are about every behaviour of `RedisWire`.

The theorems about `RedisClient`:

* **Types.** `TypeOK` is inductive. Lemmas say what each helper returns (`RepliesType`,
  `SendType`, `SettleType`, `FlushType`, `ReconnectType`), then one lemma per group of
  actions, joined in `TypeStep`.
* **The database.** The proof splits `Restored.selectedDb`, the database in `oldState`
  if something is saved and in `modes` otherwise. `SendKeepsDb` covers every action that
  sends, `ReconnectKeepsDb` the saving (nothing is saved twice), `OnReadyKeepsDb` the
  taking over, `DbStep` the rest. It needs `TypeOK`: the database of a reaction to
  SELECT is not null.
* **One place.** `QueuedIsPending` is not inductive, and `WrittenOnce` does not follow from one step: settling the
  head of `commandQueue` says nothing of its other copies, and replaying a command says
  nothing of what is on the way. `OwnInv` adds that no number is twice in a queue
  (`NoRepeat`), that offline queue and pipes are disjoint as well as the pipes of
  different streams and the two queues (`OnePlace`), and that every number has been
  issued (`Accounted`), so that a new one is fresh. The actions do four things to the
  queues: write a fresh command (`WritePlaces`, `SendMoves`), take one from the head
  (`TailOwn`), drop commands (`ShrinkPlaces`), settle a promise (`SettleKeeps`).
  `OwnInv` was evaluated by TLC over the instances of `client_anything` and
  `client_pubsub` before it was proved.

`QueueProofs` proves of `Queue`, for any set of items and any bound:

| Theorem | Statement |
|---|---|
| `TypeCorrect` | `Spec => []TypeOK` |
| `QueueIsFifo` | `Spec => RefinesFifo` |

`Contents` says index by index what `ForEach` holds. `PushRefines` compares it before and
after; `ShiftRefines` has the three cases of `shift` and needs `HeadTailOfConcat`, what
`Head` and `Tail` do to a concatenation; a step of `length` is `Contents` again.

Further theorems about `RedisClient`, the first in `RedisClientProofs`, the others in `StreamProofs`,
`OrderProofs` and `AgreementProofs`, which build on it:

| Theorem | Assumes | Statement |
|---|---|---|
| `ClientIsPipe` | | `Spec => RefinesPipe` |
| `ClosedStaysClosed` | `~LateClose` | `Spec => NoReconnectAfterClose` |
| `IssuedInOrder` | `DataClient` | `Spec => []IssueOrder` |
| `OfflineSent` | `DataClient` | `Spec => []OfflineReplayed` |
| `NoneForeign` | | `Spec => []NoForeignSubscription` |
| `LineAligned` | `OrderlyClient` | `Spec => []Aligned` |
| `MessagesHeard` | `OrderlyClient` | `Spec => []MessagesNotMistaken` |
| `DatabaseRestored` | `OrderlyClient`, `HasPassword` | `Spec => []DbRestored` |
| `SubscriptionsKept` | `Subscriber` | `Spec => []SubscriptionsRestored` |

The assumptions are choices of the constants that say how hostile the surroundings are and which
commands the user issues. None of them is about reactions that come late, except `~LateStart`: a chunk may
bring any number of replies before the reactions to the first, and a connection may be lost
before the reaction to a SELECT. `DataClient` leaves out a late start, a late 'close', forced calls
(all three break the order) and subscriptions, which `finding_replay` shows to be necessary; passwords,
timers of a loading server, QUIT, SELECT, `end()` and every option stay in. `OrderlyClient` leaves out what
breaks the line of replies: forced calls, a late 'close' or start, a loading server
(`finding_loading`: an INFO of a timer that outlives its connection goes out ahead of
AUTH), a (un)subscribe of several channels in one call, MONITOR where messages are pushed, and a user
who both selects and subscribes (`resetPubSub`, section 3). Any number of connections, commands, channels
and pushes, a password, QUIT and `end()` stay in, with subscriptions or with SELECT. `HasPassword` says that the
client knows the password a server wants; without it the server refuses every SELECT the
client sends. `Subscriber` adds that the user neither selects (`finding_restore`) nor
unsubscribes: an UNSUBSCRIBE that is lost with its connection is out of `subscriptionSet` already.
`DbRestored` was explored with `LateStart` too, and holds: its theorem assumes `OrderlyClient` because the
proof goes through the line of replies.

* **The pipe.** The abstract steps are the four things an action does to the queues: one lemma
  per group of actions says which, and what becomes of `connected` (`PipeStep`). It needs `TypeOK` and no more.
* **One stream.** `OneStream` says that earlier streams are closed and later ones not made, and
  that a retry timer runs only beside a dead stream of a client that does not close. It is
  inductive when no retry timer runs out between 'end' and 'close'; so every event of a
  socket is about the present stream (`OnlyStream`), and a closing client has no timer.
* **Ready.** `OpenInv` says that a ready client has an open stream, or closes and is about to hear
  of its end, and that whatever leads to `onReady`, the task itself or a reaction that has not run,
  sees an open stream. This is what `~LateStart` assumes of the loss of a connection, and not a theorem
  about the code: it serves the proofs below.
* **Order.** `LinedInv`: a client without subscriptions stays without (`PlainInv`); the offline
  queue is empty on a client that is ready, on an open stream, and not in the replay
  (`ReplayInv`, which needs `OpenInv`: a replay that could not write would not end); the numbers
  grow in each queue and from one to the other (`Lined`). A fresh command is the newest by
  `Accounted` of `OwnInv`. The invariants were evaluated by TLC on the instance of
  `client_commands`, and on one with a password and a loading server, before they were proved.

* **Forgotten subscriptions** (`NoneForeign`). What compares the two sides has to say something
  about the pipes between them. `Forgotten`: on a writable stream, of a channel that is not in
  `subscriptionSet` the commands on the way either end with an UNSUBSCRIBE of it, or add nothing
  and the server has not got it. `FutureUnused`: a stream to be made is empty and new, so that
  `RetryConnection` establishes it again; `GuestsWithout`: without the password the server
  subscribes nobody, so that a refused UNSUBSCRIBE leaves nothing behind. Needs no assumption.
* **The line of replies** (`LineAligned`). `Aligned` alone is not inductive: it has to be known
  that what arrives is one reply per command, and that nobody but the user and `onReady` writes.
  `Fit` has six parts. `LineFits` is `Aligned`; `PipesFit`, that the commands on the way are
  answered once and the replies on the way have the shape the handlers expect; `TurnFits`, that no timer
  runs, that the reactions that wait are of the kinds expected, any number of them, and that
  a callback which goes on has an open stream; `StartFits`, that before the client is ready it has one command on the way at most, AUTH
  or INFO, and waits for it; `ReadyFits`, that afterwards neither is on the way and the SELECT of
  `onReady` is the oldest command; `ModeFits`, below. It rests on `UsableInv` of
  `StreamProofs` and on `ForeignInv`. `Rank` counts the answers among the replies: lemmas say what
  a delivery, a push and a new command do to what is owed (`OwedDelivery`, `OwedUnasked`, `OwedTakes`).
* **Messages** (`MessagesHeard`). `ModeFits` follows the mode of the client through the replies it will hear:
  at every message on the way, and at the end if the server is subscribed, the mode is on. While
  `onReady` restores the database the mode is off, and it is `resetPubSub`, which is still to run, that
  `Resetting` allows for: until then no message is there, since a connection of its
  own has subscribed to nothing before.
* **The database** (`DatabaseRestored`). `DbFits`: the database of the server is that of the last
  successful SELECT among the replies, or else of the last reaction that has not run, or else
  the one in `modes`; while the SELECT of `onReady` is not yet executed, and before the client is ready,
  it is the default. `AuthFits` is why no SELECT meets a server that wants a password first.
* **The subscriptions** (`SubscriptionsKept`). `SubsFits`: every key of `subscriptionSet` is on the server, on the
  way, or among those `onReady` has still to send; and the mode that makes `onReady` send
  them is on, or saved, while there is a key.

  All of these invariants were evaluated by TLC on the instances of `client_commands`, `client_pubsub` and
  of variants with a password before they were proved.

`CallProofs` and `CallAnswerProofs` prove of `ClientCalls`, for any number of calls, queued commands, lost connections
and writes of other clients, with or without the offline queue:

| Theorem | Statement |
|---|---|
| `TransactionsRunWhole` | `Spec => []TransactionsWhole` |
| `Typed` | `Spec => []TypeOK` |
| `RepliesAreOwn` | `Spec => []OwnReplies` |
| `IncrCounts` | `Spec => []IncrCountsOwn` |
| `EvalRunsOnce` | `Spec => []EvalOnceUnlessRejected` |

They assume `CallsAssumption` (the bounds are numbers, the option is a Boolean, what can be queued
is one of three commands, `NotInMulti` is no transaction). The first follows the *line*: the commands
the server has yet to take, which are the unserved part of `sent`, then `waiting`. `WholeInv` says,
besides the types (`Types`):

* `LinesInv`: in the line the commands of a multi stand together and in order; a multi whose EXEC
  is missing is the last of the line. What MULTI has queued on the server is exactly what the
  line has lost of the transaction at its head, unless one of its commands has been refused.
  Of a multi that has run nothing is left, in the line or to be sent.
* `TurnInv`: a callback that has still commands to send sends the rest of one call, from
  where the line ends; nothing else is sent before it is done.
* `CallInv`: the commands sent for a multi are numbered one after the other, and one that is
  still open has sent none.
* `DownInv`: while the client is not ready nothing is on the way, and the server is in no
  transaction.

Neither part is inductive alone: that EXEC runs everything needs that nothing came between, which
needs that the callback was not interrupted. The line changes in four ways only: a command is
appended (`LineAppend`), the server takes the first (`LineTail`), it stays what it is while
commands move within it (`LineSame`), or all is dropped with the connection. The parts of `WholeInv`
were evaluated by TLC on the instance of `client_calls`, with the offline queue and without,
before they were proved.

The other four need to know what the values on the way mean. `AnswersInv` is `WholeInv` with:

* `NumberInv`: a number belongs to one call, and the commands of a call are numbered in order.
* `PipeInv`: whatever is in `sent` or `waiting` is a command of its call, pending, in the order
  of the numbers; so nothing is settled twice.
* `RunInv`: what the server has run stands in the order of the numbers, with values that
  never fall, and all that is yet to come has greater numbers. Hence nothing runs twice, and
  what is read later is not older.
* `AnswerInv`: every reply under way, and the value of every resolved promise, is the answer of
  the run of that very command, or, for EXEC, of the runs of the commands queued (`Replied`,
  `Settles`). Nothing is said of a command that is rejected: it may have run, as a script
  that fails.
* `StepInv`: `incr` goes on to GET only when its INCR was run; `eval` sends the script only
  when EVALSHA was rejected.
* `ToldInv`: what a call is told is what its last command was told, and of a transaction
  `given` is what the loop of `multiExecResolve` makes of it.

`AnswersInv` was evaluated by TLC on the instance of `client_calls` before it was proved.
The server's step is the heart: `RunsInOrder` (what it runs now was issued after all it has run:
for EXEC this is where `WholeInv` is needed, which says that the numbers of a transaction are contiguous
and that none of them was run), `RunAnswers` (what enters `ran` is what it answers), and from these
`ServeTells`. `DeliverTells` hands a reply to the head of `sent`; `SendTells` has a fresh number, which
nothing has run; `LoseTells` rejects the last command and drops the others.

`ParserProofs` proves of `ReplyParser`, for any texts, arrays of any depth, any streams, and any number of
connections and exceptions:

| Theorem | Statement |
|---|---|
| `ParserTyped` | `Spec => []TypeOK` |
| `RepliesAlwaysRead` | `Spec => []RepliesRead` |
| `EmitsAsSent` | `Spec => []RepliesAsSent` |
| `EmitsAtOnce` | `Spec => []NothingHeldBack` |

They assume `ParserAssumption` (the bounds are numbers), `RepliesAssumption` and
`StreamsAssumption` (what a server sends is replies), and `SymbolsAssumption`, that the symbols which stand for
bytes are strings: true, but the provers do not know it of a literal.

* **Reading.** `Sent`, `Decimal`, `Numeral`, `Elements` and `Nested` are recursive functions. That such a function exists,
  so that it does what its definition says, is shown for each by induction on its domain (`SentDef`,
  `DecimalDef`, `NumeralDef`, `ElementsDef`, `NestedDef`). The induction theorem of the library has an operator
  for a parameter and cannot be used; `Induction` is about a set instead, and is proved from
  the well-foundedness of strict inclusion on finite sets (`LeastNatural`). `LineAt`
  is about the search for the end of a line, with its `&&`: it finds the CR of the line, and only
  when it has come. `DecimalIs` says that the header of a length, of however many digits, is read as that length. One lemma per kind of reply follows (`ReadsLine`, `ReadsBulk`, `ReadsNullBulk`,
  `ReadsMulti`), each about any buffer that holds the bytes of the reply as far as it goes (`Holds`).
  `ReadDown` carries them through the depths: a reply nested less than m deep is read by calls that go
  deep enough. `ReaderCorrect` is the result.
* **The loop.** `ParserInv` relates the parser to the stream: `buffer` and `wire` are two parts of it
  that meet (`BytesInv`), the events are the first replies (`EventsInv`), the parser stands at the end of the last
  one, or in the line end that it did not wait for (`PlaceInv`), and once `execute` has returned the next reply
  is incomplete (`WaitInv`). `TurnMeets` says what a turn finds: a type byte is the first of
  the next reply, anything else the rest of a line end, since a reply ends with two bytes that are no type.
  `ReadsNext` is `ReaderCorrect` there.

Only model-checked: the liveness properties `Recovers`, `SentDrains` and
`CallsSettle` (fairness and ENABLED are out of TLAPS's reach). The runs meet the assumptions of
the theorems about their properties, but for `client_live`, whose server loads its data set once:
there `SubscriptionsRestored` is only model-checked.

## 5. Not modelled

* Back-pressure (`shouldBuffer`, 'drain'): it changes nothing but a result of `_send` and an event.
* Bytes: what `command.write()` produces, argument conversion, names of commands. A
  command is its kind, channels and database; GET stands for all data commands.
* Keys of a subscription that hold a space (the key of `subscriptionSet` is split at
  the first space), and `psubscribe` apart from `subscribe`: a pattern is a channel.
* Calls the user makes inside the client's own events, and a handler that throws; in
  `ReplyParser` a listener may throw.
* Errors of the parser, protocol errors; the option `returnBuffers`.
* The retry clock's numbers. `retryDelay` and `retryTotalTime` are never initialised: they are
  NaN after the first loss, the timer runs out at once, `connectTimeout` never ends
  anything. `RedisClient` lets the timer run out at any time, which covers every delay;
  `attempts` and `maxAttempts` are in it.
* In `ClientCalls`: arguments and their formatting (`hmset`, `hmget`, the conversion of HGETALL);
  commands of a multi that change modes (SUBSCRIBE queued in one makes `_send` refuse the EXEC);
  errors at run time within EXEC, which are elements of its reply. `eval` writes the digest into
  the array it was called with, which a second call with that array would see.
* `unref`, `index.js` and `lib/commandlist.js` (no state), `lib/parser/hiredis.js` (a loop
  around a native library).

## 6. What could follow

* `Aligned` and what follows from it for a loading server and a client without a password, where the timers of the
  ready check do no harm.
* Back-pressure: `shouldBuffer`, the two water marks and the stream's 'drain'.
* Subscription keys with a space, patterns, and subscriptions within a transaction.
