---------------------------- MODULE MCLKLVolume ----------------------------
(* A small instance of LKLVolume for TLC.                                  *)
EXTENDS LKLVolume, TLC

VolumeSymmetry == Permutations(Volumes) \cup Permutations(KeyFiles)
=============================================================================
