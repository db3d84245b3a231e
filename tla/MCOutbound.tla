----------------------------- MODULE MCOutbound -----------------------------
(* Instances of Outbound for TLC.                                           *)
EXTENDS Outbound, TLC
CONSTANTS r1, r2, w1
OneResv == {r1}
TwoResv == {r1, r2}
OneWorker == {w1}
OneBad == {r2}
NoneBad == {}
NoBridge == {}
OneBridged == {r2}
=============================================================================
