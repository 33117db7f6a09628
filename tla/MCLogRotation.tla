----------------------------- MODULE MCLogRotation -----------------------------
(* Instances of LogRotation for TLC. *)
EXTENDS LogRotation, TLC

LogSymmetry == Permutations(Workers)
================================================================================
