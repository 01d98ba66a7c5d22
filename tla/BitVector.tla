------------------------------ MODULE BitVector ------------------------------
(***************************************************************************)
(* bitdrill/Bit_Vector.hxx: a bit vector of fixed size in words.  A word   *)
(* is the set of its bit positions that are 1, so that & is intersection   *)
(* and | is union; the code has words of 32 bits.  The last word may be    *)
(* partial, and its bits from end_offset on belong to no index.            *)
(***************************************************************************)
EXTENDS Naturals, FiniteSets, Sequences

CONSTANT WordBits

ASSUME WordAssumption == WordBits \in Nat \ {0}

Word == SUBSET (0 .. WordBits - 1)

BitVectors == [num_bits : Nat, vec : Seq(Word)]

\* Bit_Vector::resize drops the contents.
NewBits(n) ==
  [num_bits |-> n,
   vec |-> [j \in 1 .. (n + WordBits - 1) \div WordBits |-> {}]]

EndOffset(bv) == bv.num_bits % WordBits

\* The last word is partial; the loops stop before it and treat it apart.
IsPartial(bv, j) == EndOffset(bv) # 0 /\ j = Len(bv.vec)

\* 0xffffffff << end_offset
Mask(bv) == EndOffset(bv) .. WordBits - 1

GetBit(bv, ix) == ix % WordBits \in bv.vec[ix \div WordBits + 1]

SetBit(bv, ix) ==
  [bv EXCEPT !.vec[ix \div WordBits + 1] = @ \cup {ix % WordBits}]

\* Mutant of IntersectBits: the loop never reaches the partial word.
IntersectFullWords(a, b) ==
  [a EXCEPT !.vec = [j \in DOMAIN a.vec |->
     IF IsPartial(a, j) THEN a.vec[j] ELSE a.vec[j] \cap b.vec[j]]]

(***************************************************************************)
(* Bit_Vector::intersect, with or without a result: the bits of a beyond   *)
(* the end stay as they are.                                               *)
(***************************************************************************)
IntersectBits(a, b) ==
  [a EXCEPT !.vec = [j \in DOMAIN a.vec |->
     IF IsPartial(a, j) THEN a.vec[j] \cap (b.vec[j] \cup Mask(a))
     ELSE a.vec[j] \cap b.vec[j]]]

\* Bit_Vector::count; numbits of a word is its cardinality.
CountBits(a) ==
  LET n[j \in 0 .. Len(a.vec)] ==
        IF j = 0 THEN 0
        ELSE n[j - 1] + Cardinality(IF IsPartial(a, j)
                                    THEN a.vec[j] \ Mask(a) ELSE a.vec[j])
  IN n[Len(a.vec)]

\* Bit_Vector::count_intersection
CountBitIntersection(a, b) == CountBits(IntersectBits(a, b))
=============================================================================
