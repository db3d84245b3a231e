---------------------------- MODULE MCInboundMix ----------------------------
(* Inbound for TLC under two mixes of traffic: two messages of one sender to *)
(* one mailbox, or one message to two mailboxes beside a spam message.       *)
EXTENDS MCInbound
MixInit == Init /\ {e \in Env : mta[e] = "queued"} \in {{e1, e2}, {e3, e4}}
MixSpec == MixInit /\ [][Next]_vars
=============================================================================
