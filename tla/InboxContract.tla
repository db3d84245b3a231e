--------------------------- MODULE InboxContract ---------------------------
(***************************************************************************)
(* What inbound mail promises the sending MTA: a message enters each of    *)
(* its destination mailboxes at most once and never leaves it, and the MTA *)
(* may forget the message only when it is in all of them.                  *)
(***************************************************************************)
CONSTANTS
  Env,     \* messages, each with its envelope
  Dest     \* the mailboxes each message is addressed to

VARIABLES
  inbox,   \* the mailboxes that hold each message
  taken    \* the messages the MTA has been relieved of

vars == <<inbox, taken>>

Init ==
  /\ inbox = [e \in Env |-> {}]
  /\ taken = {}

Deliver(e) ==
  \E b \in Dest[e] \ inbox[e] :
    /\ inbox' = [inbox EXCEPT ![e] = @ \cup {b}]
    /\ UNCHANGED taken

Take(e) ==
  /\ e \notin taken
  /\ inbox[e] = Dest[e]
  /\ taken' = taken \cup {e}
  /\ UNCHANGED inbox

Next == \E e \in Env : Deliver(e) \/ Take(e)

Spec == Init /\ [][Next]_vars
=============================================================================
