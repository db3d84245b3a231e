----------------------------- MODULE MCRotation -----------------------------
(* The recovery page for TLC, with a private and a managed mailbox.          *)
EXTENDS Rotation
CONSTANTS p, o, x
=============================================================================
