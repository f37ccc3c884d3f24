---------------------------- MODULE MCLKSemaphore ----------------------------
(* Small instances of LKSemaphore for TLC.                                 *)
EXTENDS LKSemaphore
=============================================================================
