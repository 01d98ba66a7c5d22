----------------------------- MODULE MCLevelwise -----------------------------
(***************************************************************************)
(* Levelwise on every database of a few items and transactions.  The       *)
(* algorithm does not tell transactions apart, so one database stands for  *)
(* all the orders of its transactions.                                     *)
(***************************************************************************)
EXTENDS Levelwise, FiniteSetsExt

Rank(S) == SumSet({2 ^ i : i \in S})

MCDatabases ==
  {d \in [Tid -> SUBSET Item] :
     \A s, t \in Tid : s < t => Rank(d[s]) <= Rank(d[t])}

MCSupports == {1, 2}

MCMaxLevels == {0, 1, 3}
=============================================================================
