---------------------------- MODULE MCDiskStore ----------------------------
(* Small instances of DiskStore for TLC.                                     *)
EXTENDS DiskStore
=============================================================================
