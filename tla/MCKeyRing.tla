----------------------------- MODULE MCKeyRing -----------------------------
(* The keys of one mailbox for TLC, with one browser.                       *)
EXTENDS KeyRing
CONSTANT p
=============================================================================
