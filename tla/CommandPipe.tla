----------------------------- MODULE CommandPipe -----------------------------
(***************************************************************************)
(* What the connection of lib/client.js promises about the commands it is  *)
(* given: each is written once or refused, some after having been kept;    *)
(* the kept ones are tried again oldest first; replies are for the oldest  *)
(* command written; and commands are dropped only when a connection is     *)
(* lost, of which only the last of them learns, or when one is made.  It   *)
(* does not promise the order of issue: a command may be written while     *)
(* others are kept.                                                        *)
(***************************************************************************)
EXTENDS Naturals, SequencesExt

CONSTANT Cmds  \* what may be sent; id is 0 for a command of the client's own

VARIABLES
  sent,     \* the commands written and not answered
  waiting,  \* the commands kept for later
  promise,  \* by id: pending, resolved or rejected
  up        \* there is a connection

vars == <<sent, waiting, promise, up>>

Settled(c, how) == IF c.id = 0 THEN promise ELSE [promise EXCEPT ![c.id] = how]

Init == sent = <<>> /\ waiting = <<>> /\ promise = <<>> /\ up = FALSE

------------------------------------------------------------------------------
(* What can become of a command when rest is what waits beside it.         *)

Write(c, rest) == sent' = Append(sent, c) /\ waiting' = rest

Keep(c, rest) == waiting' = Append(rest, c) /\ UNCHANGED sent

Refuse(c, rest) == waiting' = rest /\ UNCHANGED sent

------------------------------------------------------------------------------
\* A command of the user's: it gets the next number.
Issue(c) ==
  /\ c.id = Len(promise) + 1
  /\ \/ (Write(c, waiting) \/ Keep(c, waiting)) /\ promise' = Append(promise, "pending")
     \/ Refuse(c, waiting) /\ promise' = Append(promise, "rejected")
  /\ UNCHANGED up

\* A command of the client's own.
IssueOwn(c) ==
  /\ c.id = 0
  /\ Write(c, waiting) \/ Keep(c, waiting)
  /\ UNCHANGED <<promise, up>>

\* The oldest command that waits is tried again.
Replay ==
  /\ waiting # <<>>
  /\ LET c == Head(waiting)
         rest == Tail(waiting)
     IN  \/ (Write(c, rest) \/ Keep(c, rest)) /\ UNCHANGED promise
         \/ Refuse(c, rest) /\ promise' = Settled(c, "rejected")
  /\ UNCHANGED up

\* A reply is for the oldest command written.
Answer ==
  /\ sent # <<>>
  /\ sent' = Tail(sent)
  /\ \E how \in {"pending", "resolved", "rejected"} : promise' = Settled(Head(sent), how)
  /\ UNCHANGED <<waiting, up>>

\* The connection is lost.
Lose ==
  LET all == waiting \o sent IN
  /\ sent' = <<>> /\ waiting' = <<>>
  /\ promise' = IF all = <<>> THEN promise ELSE Settled(Last(all), "rejected")
  /\ up' = FALSE

\* A new connection owes no replies.
Connect == sent' = <<>> /\ up' = TRUE /\ UNCHANGED <<waiting, promise>>

\* The user ends the connection: nothing is dropped, nothing will be answered.
Close == up' = FALSE /\ UNCHANGED <<sent, waiting, promise>>

Next ==
  \/ Replay \/ Answer \/ Lose \/ Connect \/ Close
  \/ \E c \in Cmds : Issue(c) \/ IssueOwn(c)

Spec == Init /\ [][Next]_vars
==============================================================================
