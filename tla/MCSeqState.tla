----------------------------- MODULE MCSeqState -----------------------------
(* SeqState for TLC: two rooms in one shard, a third in another; setters are *)
(* interchangeable.                                                        *)
EXTENDS SeqState, TLC

CONSTANTS a, b, c, s1, s2

TwoShards == a :> s1 @@ b :> s1 @@ c :> s2
SetterSymmetry == Permutations(Setters)

OneSeed == {[floor |-> 2, gen |-> 1]}
=============================================================================
