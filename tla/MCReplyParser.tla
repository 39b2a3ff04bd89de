---------------------------- MODULE MCReplyParser ----------------------------
(* Small instances of ReplyParser: what the server may send.               *)
EXTENDS ReplyParser

\* Data that looks like the protocol, a header of two digits, nested arrays.
Flat ==
  {Status(<<"x", "y">>), Error(<<"x">>), Integer(<<"1", "0">>),
   Bulk(<<>>), Bulk(<<CR, LF, "$">>), NullBulk, NullMulti, Multi(<<>>)}

Parts == {Integer(<<"1">>), Status(<<"x">>), Bulk(<<"*">>)}

Arrays == {Multi(<<Integer(<<"1">>), Error(<<"x">>), NullBulk>>), Multi(<<Bulk(<<"*">>)>>)}

Deep == Multi(<<Multi(<<Bulk(<<"*">>)>>), Status(<<"x">>)>>)

Long == Bulk([i \in 1..12 |-> IF i % 2 = 0 THEN "*" ELSE LF])

Depths ==
  [r \in Flat \union Parts \union Arrays \union {Deep, Long} |->
     IF r = Deep THEN 2 ELSE IF r \in Arrays THEN 1 ELSE 0]

Kinds == Flat \union {Deep, Multi(<<Integer(<<"1">>), Error(<<"x">>), NullBulk>>)}

UpToTwo == {<<r>> : r \in Kinds \union {Long}} \union {<<r, s>> : r \in Kinds, s \in Kinds}
==============================================================================
