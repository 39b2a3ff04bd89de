------------------------------ MODULE RedisWire ------------------------------
(***************************************************************************)
(* What surrounds the client and is not in src/: the sockets node's net    *)
(* module hands to lib/client.js and the Redis server behind them, as far  *)
(* as lib/client.js uses them.                                             *)
(*                                                                         *)
(* Every connection the client opens is a stream 1, 2, ... of its own: a   *)
(* socket, a FIFO to the server and a FIFO back.  The server answers the   *)
(* commands of a connection in order, one reply per command except for     *)
(* SUBSCRIBE and UNSUBSCRIBE, which it answers once per channel, and it    *)
(* pushes the messages of the subscribed channels, and the lines of        *)
(* MONITOR, between the replies.                                           *)
(***************************************************************************)
EXTENDS Naturals, FiniteSets, SequencesExt

CONSTANTS
  Channels,       \* what can be subscribed to: a channel or a pattern
  Dbs,            \* database numbers; a connection starts in DefaultDb
  DefaultDb,
  Null,           \* model value: JavaScript's null
  MaxStreams,     \* bound: connections opened in one behaviour
  FaultyStreams,  \* the streams that may fail: connect error, reset, EOF
  RequirePass,    \* the server has a password
  MaxLoads,       \* bound: answers given while loading the data set
  MaxPushes       \* bound: messages and MONITOR lines pushed

Streams == 1..MaxStreams

ASSUME WireAssumption ==
  /\ DefaultDb \in Dbs
  /\ Null \notin Dbs
  /\ IsFiniteSet(Channels)
  /\ MaxStreams \in Nat \ {0}
  /\ FaultyStreams \subseteq Streams
  /\ RequirePass \in BOOLEAN
  /\ MaxLoads \in Nat
  /\ MaxPushes \in Nat

VARIABLES
  sock,      \* per stream, the socket as the client's listeners see it
  toServer,  \* per stream, the commands written and not yet executed
  toClient,  \* per stream, the replies sent and not yet delivered
  srv,       \* per stream, the state the server keeps for the connection
  loads,     \* answers given while loading
  pushes     \* messages and lines pushed

wire == <<sock, toServer, toClient, srv, loads, pushes>>

------------------------------------------------------------------------------
SubKinds == {"subscribe", "unsubscribe"}

\* "get" stands for every command that only reads or writes data.
Kinds == SubKinds \union {"get", "select", "auth", "info", "monitor", "quit"}

\* id is the number of the user's command, 0 for one the client sends on its
\* own behalf; mode is the pub/sub mode the onReady SELECT must put back.
Command == [id : Nat, kind : Kinds, args : Seq(Channels), db : Dbs, mode : BOOLEAN]

CommandSeq == Seq(Command)

ErrorTypes == {"error", "noPassSet", "stillLoading"}

PushTypes == {"message", "line"}

ReplyTypes == ErrorTypes \union PushTypes \union {"ok", "loading", "subscription", "eof"}

\* cmd is the command answered (Null for what the server sends unasked);
\* none says that a subscription reply reports no subscription left.
Reply == [type : ReplyTypes, cmd : Command \union {Null}, none : BOOLEAN]

ReplySeq == Seq(Reply)

SockStates == {"none", "connecting", "open", "eof", "errored", "closed", "detached"}

ServerState == [subs : SUBSET Channels, db : Dbs, monitor : BOOLEAN, authed : BOOLEAN]

NewConnection == [subs |-> {}, db |-> DefaultDb, monitor |-> FALSE, authed |-> FALSE]

ReplyTo(c, type) == [type |-> type, cmd |-> c, none |-> FALSE]

Push(type) == [type |-> type, cmd |-> Null, none |-> FALSE]

------------------------------------------------------------------------------
(* The answers of the server to one command.                               *)

\* One reply per channel, the count in it taken after that channel.
SubscriptionReply(c, left) == [type |-> "subscription", cmd |-> c, none |-> left = {}]

SubscribeReplies(c) == [i \in DOMAIN c.args |-> SubscriptionReply(c, {c.args[i]})]

UnsubscribeReplies(v, c) ==
  IF c.args # <<>>
  THEN [i \in DOMAIN c.args |->
          SubscriptionReply(c, v.subs \ {c.args[j] : j \in 1..i})]
  ELSE \* without arguments: every subscription, and one reply even if there is none
       [i \in 1..(IF v.subs = {} THEN 1 ELSE Cardinality(v.subs)) |->
          SubscriptionReply(c, IF i < Cardinality(v.subs) THEN v.subs ELSE {})]

Refuses(v, c) ==
  \/ RequirePass /\ ~v.authed /\ c.kind \notin {"auth", "quit"}
  \/ v.subs # {} /\ c.kind \notin SubKinds \union {"quit"}

AuthReply(c) == ReplyTo(c, IF RequirePass THEN "ok" ELSE "noPassSet")

Replies(v, c) ==
  IF Refuses(v, c) THEN <<ReplyTo(c, "error")>>
  ELSE CASE c.kind = "subscribe"   -> SubscribeReplies(c)
         [] c.kind = "unsubscribe" -> UnsubscribeReplies(v, c)
         [] c.kind = "auth"        -> <<AuthReply(c)>>
         [] c.kind = "quit"        -> <<ReplyTo(c, "ok"), Push("eof")>>
         [] OTHER                  -> <<ReplyTo(c, "ok")>>

Executed(v, c) ==
  IF Refuses(v, c) THEN v
  ELSE CASE c.kind = "subscribe"   -> [v EXCEPT !.subs = @ \union ToSet(c.args)]
         [] c.kind = "unsubscribe" -> [v EXCEPT !.subs = IF c.args = <<>> THEN {}
                                                         ELSE @ \ ToSet(c.args)]
         [] c.kind = "auth"        -> [v EXCEPT !.authed = TRUE]
         [] c.kind = "select"      -> [v EXCEPT !.db = c.db]
         [] c.kind = "monitor"     -> [v EXCEPT !.monitor = TRUE]
         [] OTHER                  -> v

\* Loading its data set, the server says so to INFO and refuses AUTH.
LoadingReplies(c) ==
  IF c.kind = "info" THEN <<ReplyTo(c, "loading")>> ELSE <<ReplyTo(c, "stillLoading")>>

------------------------------------------------------------------------------
ServerClosed(s) == \E i \in DOMAIN toClient[s] : toClient[s][i].type = "eof"

ServerUp(s) == sock[s] = "open" /\ ~ServerClosed(s)

ServerSends(s, replies) == toClient' = [toClient EXCEPT ![s] = @ \o replies]

ServerExecutes(s) ==
  /\ ServerUp(s)
  /\ toServer[s] # <<>>
  /\ toServer' = [toServer EXCEPT ![s] = Tail(@)]
  /\ LET c == Head(toServer[s]) IN
       \/ /\ ServerSends(s, Replies(srv[s], c))
          /\ srv' = [srv EXCEPT ![s] = Executed(@, c)]
          /\ UNCHANGED loads
       \/ /\ c.kind \in {"info", "auth"} /\ loads < MaxLoads /\ ~Refuses(srv[s], c)
          /\ ServerSends(s, LoadingReplies(c))
          /\ loads' = loads + 1
          /\ UNCHANGED srv
  /\ UNCHANGED <<sock, pushes>>

ServerPushes(s) ==
  /\ ServerUp(s) /\ pushes < MaxPushes
  /\ \/ srv[s].subs # {} /\ ServerSends(s, <<Push("message")>>)
     \/ srv[s].monitor   /\ ServerSends(s, <<Push("line")>>)
  /\ pushes' = pushes + 1
  /\ UNCHANGED <<sock, toServer, srv, loads>>

ServerCloses(s) ==
  /\ ServerUp(s) /\ s \in FaultyStreams
  /\ ServerSends(s, <<Push("eof")>>)
  /\ UNCHANGED <<sock, toServer, srv, loads, pushes>>

------------------------------------------------------------------------------
(* The socket, as the client's calls and the events it hears change it.    *)

WireInit ==
  /\ sock = [s \in Streams |-> IF s = 1 THEN "connecting" ELSE "none"]
  /\ toServer = [s \in Streams |-> <<>>]
  /\ toClient = [s \in Streams |-> <<>>]
  /\ srv = [s \in Streams |-> NewConnection]
  /\ loads = 0
  /\ pushes = 0

\* stream.writable: from the call of connect until the stream ends or fails.
\* What is written before the connection exists is kept and sent then.
Writable(s) == sock[s] \in {"connecting", "open"}

\* Whatever is still under way in either direction is lost with the stream.
Drop(s, state) ==
  /\ sock' = [sock EXCEPT ![s] = state]
  /\ toServer' = [toServer EXCEPT ![s] = <<>>]
  /\ toClient' = [toClient EXCEPT ![s] = <<>>]
  /\ UNCHANGED <<srv, loads, pushes>>

SetSock(s, state) ==
  /\ sock' = [sock EXCEPT ![s] = state]
  /\ UNCHANGED <<toServer, toClient, srv, loads, pushes>>

WireTypeOK ==
  /\ sock \in [Streams -> SockStates]
  /\ toServer \in [Streams -> CommandSeq]
  /\ toClient \in [Streams -> ReplySeq]
  /\ srv \in [Streams -> ServerState]
  /\ loads \in 0..MaxLoads
  /\ pushes \in 0..MaxPushes
==============================================================================
