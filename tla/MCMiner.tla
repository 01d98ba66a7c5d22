------------------------------- MODULE MCMiner -------------------------------
(***************************************************************************)
(* Miner, with its refinement of Levelwise, on every database of four      *)
(* items and three transactions up to the order of the transactions.       *)
(* All the orders of equal and unequal item counts occur among them.       *)
(***************************************************************************)
EXTENDS MinerHistory

Rank(S) == SumSet({2 ^ i : i \in S})

MCDatabases ==
  {d \in [Tid -> SUBSET Item] :
     \A s, t \in Tid : s < t => Rank(d[s]) <= Rank(d[t])}

MCSupports == {1, 2}

MCMaxLevels == {0, 1, 3}
=============================================================================
