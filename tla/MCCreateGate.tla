---------------------------- MODULE MCCreateGate ----------------------------
(* CreateGate for TLC: names and handlers are interchangeable.              *)
EXTENDS CreateGate, TLC

GateSymmetry == Permutations(Workers) \cup Permutations(Names)
=============================================================================
