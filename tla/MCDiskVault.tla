---------------------------- MODULE MCDiskVault ----------------------------
(* DiskVault with two threads that unseal and seal, or with two writers.   *)
EXTENDS DiskVault
=============================================================================
