----------------------------- MODULE ReplyParser -----------------------------
(***************************************************************************)
(* The reply parser in JavaScript (lib/parser/javascript.js): bytes arrive *)
(* in chunks cut anywhere, execute() keeps what is incomplete and emits    *)
(* the replies.  A new connection has a new parser.  A listener of the     *)
(* reply may throw, which ends the execute() that emitted it.              *)
(*                                                                         *)
(* An operator named Def_Fault is a mutant of Def, used by no definition.  *)
(***************************************************************************)
EXTENDS Integers, FiniteSetsExt, Resp

CONSTANTS
  Nesting,         \* the replies there are, those in arrays too: how deep each is nested
  ReplyStreams,    \* what a server may send on a connection: sequences of replies
  MaxConnections,  \* bound: connections in one behaviour
  MaxThrows        \* bound: exceptions thrown by a listener

ASSUME ParserAssumption == MaxConnections \in Nat \ {0} /\ MaxThrows \in Nat

Replies == DOMAIN Nesting

ASSUME RepliesAssumption ==
  /\ Nesting \in [Replies -> Nat]
  /\ \A r \in Replies : IsReply(r, {e \in Replies : Nesting[e] < Nesting[r]})

ASSUME StreamsAssumption == ReplyStreams \subseteq Seq(Replies)

VARIABLES
  replies,         \* the replies the server sends on the current connection
  wire,            \* the bytes of them that have not arrived
  buffer, offset,  \* _buffer, <<>> for null as well, and _offset
  emitted,         \* the events of the current parser
  executing,       \* in the loop of execute()
  stalled,         \* a listener ended the last execute()
  connections, throws

vars == <<replies, wire, buffer, offset, emitted, executing, stalled, connections, throws>>

------------------------------------------------------------------------------
(* Reading at an offset, which counts from 0.  The offset may lie behind   *)
(* the end of the buffer, where every byte is undefined.                   *)

Byte(b, o) == IF o < Len(b) THEN b[o + 1] ELSE "undefined"

Slice(b, from, to) == SubSeq(b, from + 1, to)

\* Where a line may end: the second test looks one byte ahead, so that a chunk
\* that ends between CR and LF ends the line too.
LineEnds(b, o) == {e \in o..(Len(b) - 1) : Byte(b, e) = CR \/ Byte(b, e + 1) = LF}

HasLine(b, o) == LineEnds(b, o) # {}

LineEnd(b, o) == Min(LineEnds(b, o))

BytesRemaining == IF offset > Len(buffer) THEN 0 ELSE Len(buffer) - offset

DigitValue(d) == (CHOOSE i \in DOMAIN Digits : Digits[i] = d) - 1

\* The number that the first digits of a numeral stand for.
Numeral(ds) ==
  LET value[n \in 0..Len(ds)] == IF n = 0 THEN 0 ELSE 10 * value[n - 1] + DigitValue(ds[n])
  IN  value

\* The number a header stands for.
HeaderValue(s) ==
  IF s # <<>> /\ Head(s) = "-" THEN -Numeral(Tail(s))[Len(s) - 1] ELSE Numeral(s)[Len(s)]

Header(b, o) == HeaderValue(Slice(b, o, LineEnd(b, o)))

------------------------------------------------------------------------------
(* _parseResult: the value that starts at o, behind its type, and where    *)
(* the next one starts; or not enough data.                                *)

Returns(value, o) == [complete |-> TRUE, value |-> value, offset |-> o]

Incomplete == [complete |-> FALSE, value |-> <<>>, offset |-> 0]

\* A status, an error or an integer: the rest of the line.
ParseLine(b, type, o) ==
  IF ~HasLine(b, o) THEN Incomplete
  ELSE LET text == Slice(b, o, LineEnd(b, o))
       IN  Returns(IF type = ":" THEN NumberValue(text) ELSE StringValue(text),
                   LineEnd(b, o) + 2)

ParseBulk_TakesWhatIsThere(b, o) ==
  IF ~HasLine(b, o) THEN Incomplete
  ELSE LET start == LineEnd(b, o) + 2
           end   == start + Header(b, o)
       IN  IF Header(b, o) = -1 THEN Returns(NullValue, start)
           ELSE IF end > Len(b) THEN Returns(StringValue(Slice(b, start, Len(b))), Len(b))
           ELSE Returns(StringValue(Slice(b, start, end)), end + 2)

ParseBulk(b, o) ==
  IF ~HasLine(b, o) THEN Incomplete
  ELSE LET start == LineEnd(b, o) + 2
           end   == start + Header(b, o)
       IN  IF Header(b, o) = -1 THEN Returns(NullValue, start)
           ELSE IF end > Len(b) THEN Incomplete
           ELSE Returns(StringValue(Slice(b, start, end)), end + 2)

\* All but a multi bulk reply.
ParseFlat(b, type, o) ==
  CASE type \in {"+", "-", ":"} -> ParseLine(b, type, o)
    [] type = "$"               -> ParseBulk(b, o)
    [] OTHER                    -> Returns(NullValue, o)   \* undefined

\* The value at o, where multi is what _parseResult makes of a multi bulk reply.
ParseAt(b, multi, type, o) == IF type = "*" THEN multi[o] ELSE ParseFlat(b, type, o)

\* One more element of a multi bulk reply, after those in r.
ParseElement(b, multi, r) ==
  IF ~r.complete \/ r.offset + 1 > Len(b) THEN Incomplete
  ELSE LET e == ParseAt(b, multi, Byte(b, r.offset), r.offset + 1)
       IN  IF e.complete THEN Returns(Append(r.value, e.value), e.offset) ELSE Incomplete

\* What is read after the first n elements of size.
Elements(b, multi, start, size) ==
  LET read[n \in 0..size] == IF n = 0 THEN Returns(<<>>, start)
                             ELSE ParseElement(b, multi, read[n - 1])
  IN  read

ParseMultiBulk(b, multi, o) ==
  IF ~HasLine(b, o) THEN Incomplete
  ELSE LET start == LineEnd(b, o) + 2
           size  == Header(b, o)
           all   == Elements(b, multi, start, size)[size]
       IN  CASE size < 0                          -> Returns(NullValue, start)
             [] size > 0 /\ size > Len(b) - start -> Incomplete
             [] OTHER -> IF all.complete THEN Returns(ArrayValue(all.value), all.offset)
                         ELSE Incomplete

\* _parseResult calls itself for the elements of a multi bulk reply, each of which
\* begins behind the header, so that the buffer is longer than the calls are deep.
Nested(b) ==
  LET multi[depth \in 0..Len(b)] ==
        [o \in Nat |-> IF depth = 0 THEN Incomplete ELSE ParseMultiBulk(b, multi[depth - 1], o)]
  IN  multi

ParseResult(b, type, o) == ParseAt(b, Nested(b)[Len(b)], type, o)

------------------------------------------------------------------------------
(* execute                                                                 *)

AppendChunk_KeepsOffset(chunk) ==
  /\ buffer' = IF offset >= Len(buffer) THEN chunk
               ELSE Slice(buffer, offset, Len(buffer)) \o chunk
  /\ UNCHANGED offset

AppendChunk(chunk) ==
  /\ buffer' = IF offset >= Len(buffer) THEN chunk
               ELSE Slice(buffer, offset, Len(buffer)) \o chunk
  /\ offset' = 0

\* The data event of the socket: append the chunk, then the loop.
Execute ==
  /\ ~executing /\ wire # <<>>
  /\ \E n \in 1..Len(wire) :
       /\ AppendChunk(Slice(wire, 0, n))
       /\ wire' = Slice(wire, n, Len(wire))
  /\ executing' = TRUE /\ stalled' = FALSE
  /\ UNCHANGED <<replies, emitted, connections, throws>>

Event(type, value) == [error |-> type = "-", value |-> value]

Rewind_AfterType == executing' = FALSE /\ offset' = offset + 1

\* IncompleteReadBuffer: rewind and wait for the next chunk.
Rewind == executing' = FALSE /\ UNCHANGED offset

Emit(type, r) ==
  /\ emitted' = Append(emitted, Event(type, r.value))
  /\ offset' = r.offset
  /\ \/ UNCHANGED <<executing, stalled, throws>>
     \/ /\ throws < MaxThrows
        /\ executing' = FALSE /\ stalled' = TRUE /\ throws' = throws + 1

TooShort_OffByOne == BytesRemaining <= 4

\* The shortest reply is :1 and its line end.
TooShort == BytesRemaining < 4

\* A turn of the loop.  What is no type of reply is skipped: the line end of a
\* reply that was emitted before its line end came.
Iterate ==
  /\ executing
  /\ LET type == Byte(buffer, offset)
         r    == ParseResult(buffer, type, offset + 1)
     IN  \/ /\ TooShort
            /\ executing' = FALSE
            /\ UNCHANGED <<offset, emitted, stalled, throws>>
         \/ /\ ~TooShort /\ type \in Types
            /\ IF r.complete THEN Emit(type, r)
               ELSE Rewind /\ UNCHANGED <<emitted, stalled, throws>>
         \/ /\ ~TooShort /\ type \notin Types
            /\ offset' = offset + 1
            /\ UNCHANGED <<executing, emitted, stalled, throws>>
  /\ UNCHANGED <<replies, wire, buffer, connections>>

------------------------------------------------------------------------------
\* onConnect makes a new parser.
InitParser == buffer' = <<>> /\ offset' = 0

Init ==
  /\ replies \in ReplyStreams /\ wire = StreamBytes(replies)
  /\ buffer = <<>> /\ offset = 0 /\ emitted = <<>>
  /\ executing = FALSE /\ stalled = FALSE
  /\ connections = 1 /\ throws = 0

\* The connection is lost, in the middle of a reply or not, and made again.
Reconnect ==
  /\ ~executing /\ connections < MaxConnections
  /\ connections' = connections + 1
  /\ InitParser
  /\ replies' \in ReplyStreams /\ wire' = StreamBytes(replies')
  /\ emitted' = <<>> /\ stalled' = FALSE
  /\ UNCHANGED <<executing, throws>>

Next == Execute \/ Iterate \/ Reconnect

Spec == Init /\ [][Next]_vars

------------------------------------------------------------------------------
(* Correctness                                                             *)

\* The offset points into the buffer, or at most the two bytes of a line end
\* behind it: at bytes that have not come yet.
TypeOK ==
  /\ replies \in ReplyStreams
  /\ offset \in 0..(Len(buffer) + 2)
  /\ \A i \in DOMAIN emitted : emitted[i].error \in BOOLEAN
  /\ executing \in BOOLEAN /\ stalled \in BOOLEAN
  /\ connections \in 1..MaxConnections /\ throws \in 0..MaxThrows

Expected == [i \in DOMAIN replies |-> Event(replies[i].type, replies[i].value)]

\* What _parseResult makes of reply k when the buffer holds the bytes behind the
\* first from and up to the first to of the stream: the reply, and where it ends,
\* if all of it is there; the bytes of the last line end need not be.
ReadsReply(rs, k, from, to) ==
  LET r == ParseResult(Slice(StreamBytes(rs), from, to), rs[k].type, EndOf(rs, k - 1) - from + 1)
  IN  /\ EndOf(rs, k) <= to => r.complete
      /\ r.complete => /\ r.value = rs[k].value
                       /\ r.offset = EndOf(rs, k) - from
                       /\ EndOf(rs, k) <= to + 2

Reads(rs) ==
  \A k \in DOMAIN rs :
    \A from \in 0..EndOf(rs, k - 1), to \in (EndOf(rs, k - 1) + 4)..Len(StreamBytes(rs)) :
      ReadsReply(rs, k, from, to)

\* A reply that starts in the buffer is read completely or not at all, whatever
\* stands before it and wherever the buffer ends: a header, a bulk or an element
\* that is cut off is never taken for a shorter one (javascript.js:43-148).
RepliesRead == buffer = <<>> => Reads(replies)

\* However the bytes are cut into chunks, and wherever a listener throws or the
\* connection is lost, the parser emits the replies the server sent on this
\* connection: in their order, each once, with its value (javascript.js:150-222).
RepliesAsSent == IsPrefix(emitted, Expected)

\* The replies whose bytes have all arrived.
Arrived == {k \in DOMAIN replies : EndOf(replies, k) <= Len(StreamBytes(replies)) - Len(wire)}

\* No reply waits for the chunk after the one that completes it: when execute
\* returns, everything that has arrived has been emitted (javascript.js:155-159).
NothingHeldBack == ~executing /\ ~stalled => \A k \in Arrived : k <= Len(emitted)
==============================================================================
