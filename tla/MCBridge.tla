------------------------------- MODULE MCBridge -------------------------------
(* Instances of Bridge for TLC. *)
EXTENDS Bridge, TLC

BridgeSymmetry == Permutations(Workers) \cup Permutations(Ids)
================================================================================
