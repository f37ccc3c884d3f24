------------------------------ MODULE MCLTimer ------------------------------
(* Small instances of LTimer for TLC.                                      *)
EXTENDS LTimer, TLC
=============================================================================
