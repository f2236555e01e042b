--------------------------- MODULE MCStorageGate ---------------------------
(* Two clients that save the storage settings and three that change other data. *)
EXTENDS StorageGate
=============================================================================
