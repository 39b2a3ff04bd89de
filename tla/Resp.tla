--------------------------------- MODULE Resp ---------------------------------
(***************************************************************************)
(* The replies of a Redis server (not in src/), as far as the reply parser *)
(* tells them apart: each is the bytes it is made of together with the     *)
(* JavaScript value it stands for, which is written as a flat sequence of  *)
(* tokens.  Bytes and tokens are strings.                                  *)
(***************************************************************************)
EXTENDS Naturals, SequencesExt

CR == "CR"
LF == "LF"

Crlf == <<CR, LF>>

Digits == <<"0", "1", "2", "3", "4", "5", "6", "7", "8", "9">>

\* The decimal digits of a number.
Decimal(n) ==
  LET digits[k \in 0..n] ==
        (IF k < 10 THEN <<>> ELSE digits[k \div 10]) \o <<Digits[(k % 10) + 1]>>
  IN  digits[n]

NullValue       == <<"null">>
StringValue(s)  == <<"string">> \o s \o <<"end">>
NumberValue(s)  == <<"number">> \o s \o <<"end">>
ArrayValue(vs)  == <<"array">> \o FlattenSeq(vs) \o <<"end">>

Line(type, s) == <<type>> \o s \o Crlf

Status(s)  == [type |-> "+", bytes |-> Line("+", s), value |-> StringValue(s)]
Error(s)   == [type |-> "-", bytes |-> Line("-", s), value |-> StringValue(s)]
Integer(s) == [type |-> ":", bytes |-> Line(":", s), value |-> NumberValue(s)]

Bulk(s) ==
  [type |-> "$", bytes |-> Line("$", Decimal(Len(s))) \o s \o Crlf, value |-> StringValue(s)]

NullBulk == [type |-> "$", bytes |-> Line("$", <<"-", "1">>), value |-> NullValue]

\* The bytes of the first k of some replies, and where they end.
Sent(rs) ==
  LET sent[k \in 0..Len(rs)] == IF k = 0 THEN <<>> ELSE sent[k - 1] \o rs[k].bytes IN sent

EndOf(rs, k) == Len(Sent(rs)[k])

StreamBytes(rs) == Sent(rs)[Len(rs)]

Multi(rs) ==
  [type |-> "*", bytes |-> Line("*", Decimal(Len(rs))) \o StreamBytes(rs),
   value |-> ArrayValue([i \in DOMAIN rs |-> rs[i].value])]

NullMulti == [type |-> "*", bytes |-> Line("*", <<"-", "1">>), value |-> NullValue]

\* What all of these are.
Types == {"+", "-", ":", "$", "*"}

\* True of every string, which the provers do not know of a literal.
ASSUME SymbolsAssumption ==
  {CR, LF, "-"} \union Types \union {Digits[i] : i \in 1..10} \subseteq STRING

Reply == [type : Types, bytes : Seq(STRING), value : Seq(STRING)]

\* A reply begins with its type and ends with a line, which is not taken for one.
WellFormed(r) ==
  /\ Len(r.bytes) >= 4 /\ Head(r.bytes) = r.type
  /\ \A i \in {Len(r.bytes) - 1, Len(r.bytes)} : r.bytes[i] \in {CR, LF}

\* The text of a reply that is neither an array nor null.
Text(r) == SubSeq(r.value, 2, Len(r.value) - 1)

IsLine(s) == \A i \in DOMAIN s : s[i] \notin {CR, LF}

\* What a server may reply, where the elements of an array are among es: there are
\* fewer of them than bytes.
IsReply(r, es) ==
  /\ r \in Reply /\ WellFormed(r)
  /\ \/ r \in {NullBulk, NullMulti}
     \/ IsLine(Text(r)) /\ r \in {Status(Text(r)), Error(Text(r)), Integer(Text(r))}
     \/ r = Bulk(Text(r))
     \/ \E n \in 0..Len(r.bytes) : \E rs \in [1..n -> es] : r = Multi(rs)
===============================================================================
