---------------------------- MODULE MCRedisClient ----------------------------
(* Small instances of RedisClient: the commands the user may issue.        *)
EXTENDS RedisClient

User(kind, args, db) == [kind |-> kind, args |-> args, db |-> db]

Gets    == {User("get", <<>>, 0)}
Selects == {User("select", <<>>, d) : d \in {0, 1}}
Quits   == {User("quit", <<>>, 0)}
Auths   == {User("auth", <<>>, 0)}
Monitors == {User("monitor", <<>>, 0)}

Subs(kind, argLists) == {User(kind, a, 0) : a \in argLists}

CommandSet == Gets \union Selects \union Quits

\* One channel per call: the server answers a call for several several times.
PubSubSet ==
  Gets \union Subs("subscribe", {<<"a">>, <<"b">>})
       \union Subs("unsubscribe", {<<"a">>, <<"b">>})

SubscribeSet == Gets \union Subs("subscribe", {<<"a">>, <<"b">>})

\* A subscription and a selected database to restore.
SelectSubscribeSet ==
  {User("select", <<>>, 1)} \union Subs("subscribe", {<<"a">>})

EverySet ==
  Gets \union Quits \union Auths \union Monitors \union {User("select", <<>>, 1)}
==============================================================================
