------------------------------ MODULE MCReorder ------------------------------
(***************************************************************************)
(* All vectors of up to MaxLen of the items, with repetitions, and all     *)
(* counts up to MaxCount: equal counts, blocks inside and at either end.   *)
(***************************************************************************)
EXTENDS Reorder

CONSTANT MaxCount

MCCounts == [Item -> 1 .. MaxCount]
=============================================================================
