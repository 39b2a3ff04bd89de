------------------------------ MODULE FifoQueue ------------------------------
(***************************************************************************)
(* What a queue promises lib/client.js, which keeps its commands in two of *)
(* them: push puts an item at the end, shift takes the oldest one or       *)
(* answers null, and length counts the items.                              *)
(***************************************************************************)
EXTENDS Naturals, Sequences

CONSTANTS Items, Null

VARIABLES items,  \* the items, oldest first
          answer  \* what shift or length returned last

vars == <<items, answer>>

Init == items = <<>> /\ answer = Null

Push(x) == items' = Append(items, x) /\ UNCHANGED answer

Shift ==
  \/ items # <<>> /\ answer' = Head(items) /\ items' = Tail(items)
  \/ items = <<>> /\ answer' = Null /\ UNCHANGED items

Length == answer' = Len(items) /\ UNCHANGED items

Next == (\E x \in Items : Push(x)) \/ Shift \/ Length

Spec == Init /\ [][Next]_vars
==============================================================================
