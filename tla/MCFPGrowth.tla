----------------------------- MODULE MCFPGrowth -----------------------------
(***************************************************************************)
(* Every database of a few items and transactions, up to the order of its  *)
(* transactions; and one transaction of all items.                         *)
(***************************************************************************)
EXTENDS FPGrowth

Rank(S) == SumSet({2 ^ i : i \in S})

MCDatabases ==
  {d \in [Tid -> SUBSET Item] :
     \A s, t \in Tid : s < t => Rank(d[s]) <= Rank(d[t])}

MCOneLong == {[t \in Tid |-> Item]}

MCSupports == {1, 2}

MCOne == {1}
=============================================================================
