----------------------------- MODULE MCLKThread -----------------------------
(* Small instances of LKThread for TLC.                                    *)
EXTENDS LKThread, TLC

WorkerSymmetry == Permutations(Workers)

\* values thread_set_priority clamps from both sides
OutOfRange == {-1, HighestPriority + 1}
NoPriorities == {}
=============================================================================
