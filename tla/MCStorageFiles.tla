--------------------------- MODULE MCStorageFiles --------------------------
(* StorageFiles instantiated for TLC.                                      *)
EXTENDS StorageFiles, TLC

Symmetry == Permutations(Requests) \cup Permutations(Ids)

===========================================================================
