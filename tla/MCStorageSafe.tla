--------------------------- MODULE MCStorageSafe ---------------------------
(* The storage of one organisation for TLC: its connections and their      *)
(* health (Storage), or the placement and migration of its objects          *)
(* (Placement), which share no state beyond what each describes.            *)
EXTENDS MCStorage, Placement
CONSTANTS b1, b2, d1, d2, d3, y1, y2, m1
VARIABLE part
\* Each mailbox has one object; the migration's prefix covers both.
OneEach == (y1 :> b1) @@ (y2 :> b2)
BothBoxes == (m1 :> {b1, b2})
SafeVars == <<storageVars, placementVars, part>>
SafeInit == StorageInit /\ PlacementInit /\ part \in {"connections", "objects"}
SafeNext ==
  \/ part = "connections" /\ StorageNext /\ UNCHANGED <<placementVars, part>>
  \/ part = "objects" /\ PlacementNext /\ UNCHANGED <<storageVars, part>>
SafeSpec == SafeInit /\ [][SafeNext]_SafeVars
SafeSymmetry == RowSymmetry \cup Permutations(Connections)
=============================================================================
