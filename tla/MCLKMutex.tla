------------------------------ MODULE MCLKMutex ------------------------------
(* Small instances of LKMutex for TLC.                                     *)
EXTENDS LKMutex
=============================================================================
