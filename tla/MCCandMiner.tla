----------------------------- MODULE MCCandMiner -----------------------------
(***************************************************************************)
(* Every database of a few items and transactions up to the order of its   *)
(* transactions, mined on from level 1 or 2 with limits below, at and      *)
(* above the levels there are.                                             *)
(***************************************************************************)
EXTENDS CandMiner, FiniteSetsExt

Rank(S) == SumSet({2 ^ i : i \in S})

MCDatabases ==
  {d \in [Tid -> SUBSET Item] :
     \A s, t \in Tid : s < t => Rank(d[s]) <= Rank(d[t])}

MCSupports == {1, 2}

MCMaxLevels == {0, 2, 3}

MCFirstLevels == {1, 2}

\* By chance it may be the right number.
MCUnset == {0, NumTxn}
=============================================================================
