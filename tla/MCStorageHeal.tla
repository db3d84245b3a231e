--------------------------- MODULE MCStorageHeal ---------------------------
(* The monitor of the storage connections for TLC, under one of two loads:  *)
(* beside the requests of the users, or with ticks that are cut off.        *)
EXTENDS MCStorage
VARIABLE load
HealVars == <<storageVars, load>>
HealInit == StorageInit /\ load \in {"requests", "lost ticks"}
HealNext ==
  \/ load = "requests" /\ StorageNext /\ lost' = lost /\ UNCHANGED load
  \/ load = "lost ticks" /\ StorageNext /\ req' = req /\ UNCHANGED load
HealSpec == HealInit /\ [][HealNext]_HealVars /\ StorageFairness
=============================================================================
