------------------------------ MODULE MCSyncCheck ------------------------------
(* Instances of SyncCheck for TLC. *)
EXTENDS SyncCheck
================================================================================
