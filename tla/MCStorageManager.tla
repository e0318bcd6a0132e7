--------------------------- MODULE MCStorageManager -------------------------
(***************************************************************************)
(* Instance of StorageClients for TLC: every external call of the storage  *)
(* manager may fail.                                                       *)
(***************************************************************************)
EXTENDS StorageClients

MCFaults == {"bus", "write", "spi", "fs"}

=============================================================================
