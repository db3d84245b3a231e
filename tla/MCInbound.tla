----------------------------- MODULE MCInbound -----------------------------
(* Instances of Inbound for TLC.                                            *)
EXTENDS Inbound, TLC
CONSTANTS e1, e2, e3, e4, a1, a2, a3, b1, b2, s1, h1, h2
\* a1 and a2 are two spellings of one mailbox's address, a3 is another's.
BoxOfValue == (a1 :> b1) @@ (a2 :> b1) @@ (a3 :> b2)
\* One message to both spellings; two messages to one mailbox; the messages of
\* the mixes.
TwoSpellings == (e1 :> {a1, a2})
TwoMessages == (e1 :> {a1}) @@ (e2 :> {a1})
Mixed == (e1 :> {a1}) @@ (e2 :> {a1}) @@ (e3 :> {a3}) @@ (e4 :> {a1, a3})
SenderOfValue == [e \in Env |-> s1]
HandlerSymmetry == Permutations(Handlers)
=============================================================================
