------------------------------- MODULE Inputs -------------------------------
(***************************************************************************)
(* The inputs of a mining run: the transactions, the absolute support and  *)
(* the max_level argument of discover_absolute.                            *)
(***************************************************************************)
EXTENDS Itemsets

CONSTANTS Databases,  \* the databases considered
          Supports,   \* the absolute supports considered
          MaxLevels   \* the max_level arguments considered, 0 for no limit

ASSUME InputAssumption ==
  /\ Databases \subseteq Database
  /\ Supports \subseteq Nat \ {0}
  /\ MaxLevels \subseteq Nat
=============================================================================
