----------------------------- MODULE MCStorage -----------------------------
(* Instances of Storage for TLC.                                            *)
EXTENDS Storage, TLC
CONSTANTS o1, c1, c2, c3, k1, k2, r1, r2
OneOrg == [c \in Conns |-> o1]
\* Providers that may refuse, or hang as well; Drive always answers.
MayRefuse == [k \in Configs \cup {Drive} |-> IF k = Drive THEN {"ok"} ELSE {"ok", "refuses"}]
MayHang == [k \in Configs \cup {Drive} |-> IF k = Drive THEN {"ok"} ELSE {"ok", "hangs"}]
RowSymmetry == Permutations(Reqs) \cup Permutations(Conns) \cup Permutations(Configs)
=============================================================================
