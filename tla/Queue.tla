-------------------------------- MODULE Queue --------------------------------
(***************************************************************************)
(* lib/queue.js: a queue made of two arrays.  Items are pushed on tail and *)
(* taken from head at offset; when head is used up the arrays change       *)
(* places, and the old head, cut to length 0, is the next tail.            *)
(*                                                                         *)
(* The operators named Shift_... are mutants of Shift, used by no other    *)
(* definition.                                                             *)
(***************************************************************************)
EXTENDS Naturals, Sequences

CONSTANTS
  Items,   \* what is pushed
  Null,    \* JavaScript's null
  MaxTail  \* bound: the length of tail at which nothing more is pushed

ASSUME QueueAssumption == MaxTail \in Nat

VARIABLES head, tail, offset,
          answer  \* what shift or the property length returned last

vars == <<head, tail, offset, answer>>

Init == head = <<>> /\ tail = <<>> /\ offset = 0 /\ answer = Null

\* Nobody uses what push returns.
Push(x) ==
  /\ Len(tail) < MaxTail
  /\ tail' = Append(tail, x)
  /\ UNCHANGED <<head, offset, answer>>

Shift_KeepsOldHead ==
  \/ /\ offset # Len(head)
     /\ answer' = head[offset + 1]
     /\ offset' = offset + 1
     /\ UNCHANGED <<head, tail>>
  \/ /\ offset = Len(head)
     /\ head' = tail
     /\ tail' = head
     /\ IF tail = <<>> THEN answer' = Null /\ offset' = 0
        ELSE answer' = tail[1] /\ offset' = 1

Shift_NeverNull ==
  \/ /\ offset # Len(head)
     /\ answer' = head[offset + 1]
     /\ offset' = offset + 1
     /\ UNCHANGED <<head, tail>>
  \/ /\ offset = Len(head)
     /\ head' = tail
     /\ tail' = <<>>
     /\ answer' = IF tail = <<>> THEN Null ELSE tail[1]
     /\ offset' = 1

Shift ==
  \/ /\ offset # Len(head)
     /\ answer' = head[offset + 1]
     /\ offset' = offset + 1
     /\ UNCHANGED <<head, tail>>
  \/ /\ offset = Len(head)
     /\ head' = tail
     /\ tail' = <<>>
     /\ IF tail = <<>> THEN answer' = Null /\ offset' = 0
        ELSE answer' = tail[1] /\ offset' = 1

Length == answer' = Len(head) - offset + Len(tail) /\ UNCHANGED <<head, tail, offset>>

\* The array forEach walks through: what is left of head, then tail.
ForEach == SubSeq(head, offset + 1, Len(head)) \o tail

Next == (\E x \in Items : Push(x)) \/ Shift \/ Length

Spec == Init /\ [][Next]_vars

\* The offset never runs past the end of head: shift compares it with !==, and
\* head[offset] of an offset too large is undefined for ever (queue.js:11).
TypeOK ==
  /\ head \in Seq(Items) /\ tail \in Seq(Items)
  /\ offset \in 0..Len(head)
  /\ answer \in Items \union Nat \union {Null}

\* The two arrays are one FIFO: the items come out once each, in the order they
\* were pushed, length counts them and forEach shows them (queue.js:4-47).
Fifo == INSTANCE FifoQueue WITH items <- ForEach

RefinesFifo == Fifo!Spec
==============================================================================
