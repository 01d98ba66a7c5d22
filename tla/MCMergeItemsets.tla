-------------------------- MODULE MCMergeItemsets --------------------------
(***************************************************************************)
(* Every database of a few items and transactions up to the order of its   *)
(* transactions, which the merge does not tell apart, and every division   *)
(* of the items into two parts of which item 0 is in the first.            *)
(***************************************************************************)
EXTENDS MergeItemsets, FiniteSetsExt

Rank(S) == SumSet({2 ^ i : i \in S})

MCDatabases ==
  {d \in [Tid -> SUBSET Item] :
     \A s, t \in Tid : s < t => Rank(d[s]) <= Rank(d[t])}

MCSupports == {1, 2}

MCParts == {P \in SUBSET Item : 0 \in P}

MCStartLevels == {2, 3}
=============================================================================
