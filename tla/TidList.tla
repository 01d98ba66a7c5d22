------------------------------- MODULE TidList -------------------------------
(***************************************************************************)
(* bitdrill/Tid_List.hxx and Tid_Vector.hxx: the transactions an itemset   *)
(* occurs in, held as a bit vector when they are dense and as a sorted     *)
(* vector of transaction ids when they are sparse.  Both vectors are       *)
(* members of the object; implementation says which one is in use.         *)
(***************************************************************************)
EXTENDS BitVector, SequencesExt

CONSTANT Sparsity  \* 32 in choose_implementation

ASSUME SparsityAssumption == Sparsity \in Nat \ {0}

TidVectors == Seq(Nat)

TidLists == [implementation : {"Bitvector", "Tidvector"},
             bitvector : BitVectors, tidvector : TidVectors]

\* Tid_List::error ends the process; the caller sees no list.
Error == [implementation |-> "none"]

BitvectorOf(bv) ==
  [implementation |-> "Bitvector", bitvector |-> bv, tidvector |-> <<>>]

TidvectorOf(tv) ==
  [implementation |-> "Tidvector", bitvector |-> NewBits(0), tidvector |-> tv]

\* Tid_List::reset, which asserts expected_count > 0.
Reset(num_txn, expected_count) ==
  IF num_txn \div expected_count < Sparsity
  THEN BitvectorOf(NewBits(num_txn))
  ELSE TidvectorOf(<<>>)

\* Mutant of AddTransaction: pushes at the front.
AddTransactionFront(tl, txn_id) ==
  IF tl.implementation = "Bitvector"
  THEN [tl EXCEPT !.bitvector = SetBit(@, txn_id)]
  ELSE [tl EXCEPT !.tidvector = <<txn_id>> \o @]

AddTransaction(tl, txn_id) ==
  IF tl.implementation = "Bitvector"
  THEN [tl EXCEPT !.bitvector = SetBit(@, txn_id)]
  ELSE [tl EXCEPT !.tidvector = Append(@, txn_id)]

\* The loop that pushes the entries of a vector that are in S, in their order.
Select(tv, S) ==
  LET sel[n \in 0 .. Len(tv)] ==
        IF n = 0 THEN <<>>
        ELSE IF tv[n] \in S THEN Append(sel[n - 1], tv[n]) ELSE sel[n - 1]
  IN sel[Len(tv)]

\* std::set_intersection of two sorted vectors without repetitions.
IntersectTids(a, b) == Select(a, ToSet(b))

\* Tid_Vector::intersect with a bit vector
SelectTids(tv, bv) == Select(tv, {t \in ToSet(tv) : GetBit(bv, t)})

(***************************************************************************)
(* Tid_List::intersect with a result: what the result held before is lost. *)
(***************************************************************************)
Intersect(a, b) ==
  CASE a.implementation = "Bitvector" /\ b.implementation = "Bitvector" ->
         BitvectorOf(IntersectBits(a.bitvector, b.bitvector))
    [] a.implementation = "Bitvector" /\ b.implementation = "Tidvector" ->
         TidvectorOf(SelectTids(b.tidvector, a.bitvector))
    [] a.implementation = "Tidvector" /\ b.implementation = "Tidvector" ->
         TidvectorOf(IntersectTids(a.tidvector, b.tidvector))
    [] OTHER -> TidvectorOf(SelectTids(a.tidvector, b.bitvector))

(***************************************************************************)
(* Tid_List::intersect without a result, as the code has it: a tid vector  *)
(* meets the tid vector of a list that uses its bit vector.                *)
(***************************************************************************)
IntersectInPlace(a, b) ==
  CASE a.implementation = "Bitvector" /\ b.implementation = "Bitvector" ->
         [a EXCEPT !.bitvector = IntersectBits(@, b.bitvector)]
    [] a.implementation = "Tidvector" /\ b.implementation = "Bitvector" ->
         [a EXCEPT !.tidvector = IntersectTids(@, b.tidvector)]
    [] OTHER -> Error

\* Mutant of CountTids: always counts the bit vector.
CountOnlyBits(tl) == CountBits(tl.bitvector)

\* Tid_List::count
CountTids(tl) ==
  IF tl.implementation = "Bitvector" THEN CountBits(tl.bitvector)
  ELSE Len(tl.tidvector)

\* Tid_Vector::count_intersection: the scan of two sorted vectors.
MergeCount(a, b) ==
  LET n[p \in (1 .. Len(a) + 1) \X (1 .. Len(b) + 1)] ==
        LET i == p[1]
            j == p[2]
        IN IF i > Len(a) \/ j > Len(b) THEN 0
           ELSE IF a[i] = b[j] THEN 1 + n[<<i + 1, j + 1>>]
           ELSE IF a[i] < b[j] THEN n[<<i + 1, j>>]
           ELSE n[<<i, j + 1>>]
  IN n[<<1, 1>>]

\* Mutant of CountIntersection: ignores which vector the other list uses.
CountSameKind(a, b) ==
  IF a.implementation = "Bitvector"
  THEN CountBitIntersection(a.bitvector, b.bitvector)
  ELSE MergeCount(a.tidvector, b.tidvector)

\* Tid_List::count_intersection
CountIntersection(a, b) ==
  CASE a.implementation = "Bitvector" /\ b.implementation = "Bitvector" ->
         CountBitIntersection(a.bitvector, b.bitvector)
    [] a.implementation = "Bitvector" /\ b.implementation = "Tidvector" ->
         Len(SelectTids(b.tidvector, a.bitvector))
    [] a.implementation = "Tidvector" /\ b.implementation = "Tidvector" ->
         MergeCount(a.tidvector, b.tidvector)
    [] OTHER -> Len(SelectTids(a.tidvector, b.bitvector))

(***************************************************************************)
(* The abstraction: the transactions a list stands for, and what a sound   *)
(* representation is.  No code computes these.                             *)
(***************************************************************************)
Denotes(tl) ==
  IF tl.implementation = "Bitvector"
  THEN {t \in 0 .. tl.bitvector.num_bits - 1 : GetBit(tl.bitvector, t)}
  ELSE ToSet(tl.tidvector)

IsSound(tl) ==
  /\ tl \in TidLists
  /\ \A i \in 1 .. Len(tl.tidvector) - 1 : tl.tidvector[i] < tl.tidvector[i + 1]
  /\ Len(tl.bitvector.vec) =
       (tl.bitvector.num_bits + WordBits - 1) \div WordBits
=============================================================================
