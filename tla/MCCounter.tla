------------------------------ MODULE MCCounter ------------------------------
(***************************************************************************)
(* Every database of a few items and transactions, up to the order of its  *)
(* transactions.  The integer types are so small that item counts reach    *)
(* into each of their ranges.                                              *)
(***************************************************************************)
EXTENDS Counter

Rank(S) == SumSet({2 ^ x : x \in S})

MCDatabases ==
  {d \in [Tid -> SUBSET Item] :
     \A s, t \in Tid : s < t => Rank(d[s]) <= Rank(d[t])}

MCSupports == {1, 2}

MCPercents == {50, 100}

MCNone == {}

MCUnset == 0 .. NumTxn
=============================================================================
