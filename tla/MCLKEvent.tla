------------------------------ MODULE MCLKEvent ------------------------------
(* Small instances of LKEvent for TLC.                                     *)
EXTENDS LKEvent
=============================================================================
