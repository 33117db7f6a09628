------------------------------ MODULE MCSendGate ------------------------------
(* Instances of SendGate for TLC. *)
EXTENDS SendGate, TLC

GateSymmetry == Permutations(Workers) \cup Permutations(Payloads)
================================================================================
