------------------------------ MODULE MCTsTree ------------------------------
(* Four nodes, so that a child can have siblings on both sides; two have    *)
(* one name and two another, so that lookups meet namesakes.  Blocks of one *)
(* name are interchangeable.                                                *)
EXTENDS TsTree, TLC

CONSTANTS n1, n2, n3, n4, a1, a2, width, height

MCNodes == {n1, n2, n3, n4}
MCAttrs == {a1, a2}
MCNames == {width, height}
MCNameOf == [b \in MCNodes \cup MCAttrs |-> IF b \in {n3, n4} THEN height ELSE width]

Renamings == {p @@ q : p \in Permutations(MCNodes), q \in Permutations(MCAttrs)}
Namesakes ==
  {p \in Renamings : \A b \in MCNodes \cup MCAttrs : MCNameOf[p[b]] = MCNameOf[b]}
=============================================================================
