----------------------------- MODULE MCTsValue -----------------------------
(* No allocation of a call fails, or one of the first six, or all from one *)
(* on, as when the memory is used up.                                       *)
EXTENDS TsValue, TLC

MCFailSets == {{}} \cup {{n} : n \in 1..6} \cup {n..12 : n \in 1..6}
Swaps == Permutations(Values)
=============================================================================
