---------------------------- MODULE MCVerticalDB ----------------------------
(***************************************************************************)
(* VerticalDB on three items over one to four transactions, with words of  *)
(* two bits: bit vectors then have full words, partial words, or both.  An *)
(* item is sparse at half the transactions or fewer.  Items may be renamed *)
(* at will, so their tidsets come in a fixed order.                        *)
(***************************************************************************)
EXTENDS VerticalDB

Rank(S) == SumSet({2 ^ t : t \in S})

MCDatabases ==
  {d \in [Tid -> SUBSET Item] :
     \A i, j \in Item : i < j => Rank(Tidset(d, {i})) <= Rank(Tidset(d, {j}))}

MCSupports == {1, 2}
=============================================================================
