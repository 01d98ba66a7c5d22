-------------------------- MODULE VerticalDBProofs --------------------------
(***************************************************************************)
(* The tidlists are exact for every database, number of transactions, word *)
(* width, sparsity and depth of the walks; and the quicksorts sort, within *)
(* the range they are given, and come to an end.                           *)
(***************************************************************************)
EXTENDS VerticalDB, Reorder, ItemsetsProofs

-----------------------------------------------------------------------------
(* Words.  W stands for the number of their bits.                          *)

\* The place of a bit: its word and its position in the word.
LEMMA Places ==
  ASSUME NEW W \in Nat \ {0}, NEW t \in Nat
  PROVE  /\ t \div W \in Nat
         /\ (t % W) \in 0 .. W - 1
         /\ t = W * (t \div W) + (t % W)
  OBVIOUS

\* And back.
LEMMA PlaceOf ==
  ASSUME NEW W \in Nat \ {0}, NEW q \in Nat, NEW s \in 0 .. W - 1
  PROVE  /\ (W * q + s) \in Nat
         /\ (W * q + s) \div W = q
         /\ ((W * q + s) % W) = s
  OBVIOUS

\* A vector of n bits has a word for each of them.
LEMMA WordExists ==
  ASSUME NEW W \in Nat \ {0}, NEW n \in Nat, NEW t \in 0 .. n - 1
  PROVE  /\ (n + W - 1) \div W \in Nat
         /\ t \div W + 1 \in 1 .. (n + W - 1) \div W
<1>1. t \div W < (n + W - 1) \div W
  OBVIOUS
<1>2. t \div W \in Nat
  OBVIOUS
<1>3. (n + W - 1) \div W \in Nat
  OBVIOUS
<1> QED
  BY <1>1, <1>2, <1>3

\* Which bits of the words belong to one of n indices: all but those of the
\* last word from its end on, when that is partial.
LEMMA WordEnds ==
  ASSUME NEW W \in Nat \ {0}, NEW n \in Nat, NEW q \in Nat,
         q + 1 <= (n + W - 1) \div W, NEW s \in 0 .. W - 1
  PROVE  W * q + s < n
           <=> ((n % W) # 0 /\ q + 1 = (n + W - 1) \div W => s < (n % W))
<1> DEFINE Q == n \div W
           e == n % W
           L == (n + W - 1) \div W
<1>1. Q \in Nat /\ e \in 0 .. W - 1 /\ n = W * Q + e
  BY Places
<1>2. L = IF e = 0 THEN Q ELSE Q + 1
  <2>1. CASE e = 0
    <3>1. n + W - 1 = W * Q + (W - 1) /\ W - 1 \in 0 .. W - 1
      BY <1>1, <2>1
    <3> HIDE DEF Q, e
    <3>2. (W * Q + (W - 1)) \div W = Q
      BY <1>1, <3>1, PlaceOf
    <3> QED
      BY <2>1, <3>1, <3>2
  <2>2. CASE e # 0
    <3>1. n + W - 1 = W * (Q + 1) + (e - 1) /\ e - 1 \in 0 .. W - 1 /\ Q + 1 \in Nat
      BY <1>1, <2>2
    <3> HIDE DEF Q, e
    <3>2. (W * (Q + 1) + (e - 1)) \div W = Q + 1
      BY <3>1, PlaceOf
    <3> QED
      BY <2>2, <3>1, <3>2
  <2> QED
    BY <2>1, <2>2
<1>3. q + 1 <= L
  OBVIOUS
<1> HIDE DEF Q, e, L
<1>4. CASE q < Q
  <2>1. W * q + W <= W * Q
    <3>1. PICK d \in Nat : Q = q + 1 + d
      <4>1. Q - q - 1 \in Nat /\ Q = q + 1 + (Q - q - 1)
        BY <1>1, <1>4
      <4> QED
        BY <4>1
    <3>2. W * Q = W * q + W + W * d /\ W * d \in Nat
      BY <3>1
    <3>3. W * q \in Nat /\ W * Q \in Nat
      BY <1>1
    <3> QED
      BY <3>2, <3>3
  <2>2. W * q + s < n
    <3>1. W * q \in Nat /\ W * Q \in Nat
      BY <1>1
    <3> QED
      BY <1>1, <2>1, <3>1
  <2>3. ~ (e # 0 /\ q + 1 = L)
    BY <1>1, <1>2, <1>4
  <2> QED
    BY <2>2, <2>3 DEF e, L
<1>5. CASE ~ q < Q
  <2>1. q = Q /\ e # 0 /\ q + 1 = L
    BY <1>1, <1>2, <1>3, <1>5
  <2>2. W * q + s < n <=> s < e
    <3>1. W * q \in Nat
      OBVIOUS
    <3>2. n = W * q + e
      BY <1>1, <2>1
    <3> QED
      BY <1>1, <3>1, <3>2
  <2> QED
    BY <2>1, <2>2 DEF e, L
<1> QED
  BY <1>4, <1>5
-----------------------------------------------------------------------------
(* Bit vectors.                                                            *)

\* A bit vector with as many words as its size asks for.
FullBits(bv) ==
  /\ bv \in BitVectors
  /\ Len(bv.vec) = (bv.num_bits + WordBits - 1) \div WordBits

\* The indices of its bits that are 1.
BitSet(bv) == {t \in 0 .. bv.num_bits - 1 : GetBit(bv, t)}

\* The bits of a word that count() counts.
CountedBits(bv, l) ==
  IF IsPartial(bv, l) THEN bv.vec[l] \ Mask(bv) ELSE bv.vec[l]

LEMMA FullBitsType ==
  ASSUME NEW bv, FullBits(bv)
  PROVE  /\ bv = [num_bits |-> bv.num_bits, vec |-> bv.vec]
         /\ bv.num_bits \in Nat
         /\ bv.vec \in Seq(Word)
         /\ Len(bv.vec) \in Nat
         /\ DOMAIN bv.vec = 1 .. Len(bv.vec)
         /\ \A l \in 1 .. Len(bv.vec) : bv.vec[l] \in Word
         /\ \A t \in 0 .. bv.num_bits - 1 :
              /\ t \in Nat
              /\ t \div WordBits + 1 \in 1 .. Len(bv.vec)
              /\ t \div WordBits \in Nat
              /\ (t % WordBits) \in 0 .. WordBits - 1
              /\ t = WordBits * (t \div WordBits) + (t % WordBits)
<1>1. /\ bv.num_bits \in Nat /\ bv.vec \in Seq(Word)
      /\ bv = [num_bits |-> bv.num_bits, vec |-> bv.vec]
  BY DEF FullBits, BitVectors
<1>2. \A t \in 0 .. bv.num_bits - 1 : t \div WordBits + 1 \in 1 .. Len(bv.vec)
  BY <1>1, WordAssumption, WordExists DEF FullBits
<1>3. \A t \in 0 .. bv.num_bits - 1 : t \in Nat
  BY <1>1
<1>4. \A t \in Nat : /\ t \div WordBits \in Nat
                     /\ (t % WordBits) \in 0 .. WordBits - 1
                     /\ t = WordBits * (t \div WordBits) + (t % WordBits)
  BY WordAssumption, Places
<1> QED
  BY <1>1, <1>2, <1>3, <1>4

\* A new vector is of the right size and empty.
LEMMA NewBitsEmpty ==
  ASSUME NEW n \in Nat
  PROVE  FullBits(NewBits(n)) /\ NewBits(n).num_bits = n /\ BitSet(NewBits(n)) = {}
<1> DEFINE L == (n + WordBits - 1) \div WordBits
           v == [l \in 1 .. L |-> {}]
<1>1. L \in Nat
  BY WordAssumption
<1>2. NewBits(n) = [num_bits |-> n, vec |-> v]
  BY DEF NewBits
<1>3. \A t \in 0 .. n - 1 : t \div WordBits + 1 \in 1 .. L
  BY WordAssumption, WordExists
<1> HIDE DEF L
<1>4. v \in Seq(Word) /\ Len(v) = L
  BY <1>1 DEF Word
<1>5. \A t \in 0 .. n - 1 : ~ GetBit(NewBits(n), t)
  BY <1>2, <1>3 DEF GetBit
<1> HIDE DEF v
<1>6. NewBits(n) \in BitVectors /\ NewBits(n).num_bits = n /\ NewBits(n).vec = v
  BY <1>2, <1>4 DEF BitVectors
<1> QED
  BY <1>4, <1>5, <1>6 DEF FullBits, BitSet, L

\* Setting a bit adds its index and no other.
LEMMA SetBitAdds ==
  ASSUME NEW bv, FullBits(bv), NEW ix \in 0 .. bv.num_bits - 1
  PROVE  /\ FullBits(SetBit(bv, ix))
         /\ SetBit(bv, ix).num_bits = bv.num_bits
         /\ BitSet(SetBit(bv, ix)) = BitSet(bv) \cup {ix}
<1> DEFINE q == ix \div WordBits + 1
           s == ix % WordBits
           v == [bv.vec EXCEPT ![q] = @ \cup {s}]
           b == SetBit(bv, ix)
<1>1. /\ bv.num_bits \in Nat /\ bv.vec \in Seq(Word) /\ Len(bv.vec) \in Nat
      /\ \A l \in 1 .. Len(bv.vec) : bv.vec[l] \in Word
      /\ bv = [num_bits |-> bv.num_bits, vec |-> bv.vec]
      /\ \A t \in 0 .. bv.num_bits - 1 :
           /\ t \div WordBits + 1 \in 1 .. Len(bv.vec)
           /\ t \div WordBits \in Nat
           /\ (t % WordBits) \in 0 .. WordBits - 1
           /\ t = WordBits * (t \div WordBits) + (t % WordBits)
  BY FullBitsType
<1>2. q \in 1 .. Len(bv.vec) /\ s \in 0 .. WordBits - 1
  BY <1>1
<1>3. b = [bv EXCEPT !.vec = v]
  BY DEF SetBit
<1>4. b = [num_bits |-> bv.num_bits, vec |-> v]
  BY <1>1, <1>3
<1>5. b.num_bits = bv.num_bits /\ b.vec = v
  BY <1>4
<1>6. ASSUME NEW t \in 0 .. bv.num_bits - 1
      PROVE  GetBit(b, t) <=> GetBit(bv, t) \/ t = ix
  <2> DEFINE qt == t \div WordBits + 1
             rt == t % WordBits
  <2>1. qt \in 1 .. Len(bv.vec)
    BY <1>1
  <2>2. t = ix <=> qt = q /\ rt = s
    <3>1. /\ t = WordBits * (t \div WordBits) + (t % WordBits)
          /\ ix = WordBits * (ix \div WordBits) + (ix % WordBits)
          /\ t \div WordBits \in Nat /\ ix \div WordBits \in Nat
      BY <1>1
    <3> QED
      BY <3>1
  <2> HIDE DEF q, s, qt, rt
  <2>3. v[qt] = IF qt = q THEN bv.vec[q] \cup {s} ELSE bv.vec[qt]
    BY <1>1, <1>2, <2>1, SMTT(30)
  <2>4. GetBit(b, t) <=> rt \in v[qt]
    BY <1>5 DEF GetBit, qt, rt
  <2>5. GetBit(bv, t) <=> rt \in bv.vec[qt]
    BY DEF GetBit, qt, rt
  <2> QED
    BY <2>2, <2>3, <2>4, <2>5
<1>7. v \in Seq(Word) /\ Len(v) = Len(bv.vec)
  <2>1. bv.vec[q] \cup {s} \in Word
    BY <1>1, <1>2 DEF Word
  <2> HIDE DEF q, s
  <2> QED
    BY <1>1, <1>2, <2>1
<1> HIDE DEF v, b, q, s
<1>8. FullBits(b)
  BY <1>1, <1>4, <1>5, <1>7 DEF FullBits, BitVectors
<1>9. BitSet(b) = BitSet(bv) \cup {ix}
  BY <1>5, <1>6 DEF BitSet
<1> QED
  BY <1>5, <1>8, <1>9 DEF b

\* Intersecting never changes the size; with a vector of the same size it
\* gives the common indices, the mask protecting only bits without an index.
LEMMA IntersectBitsMeets ==
  ASSUME NEW a, NEW b, FullBits(a), FullBits(b)
  PROVE  /\ FullBits(IntersectBits(a, b))
         /\ IntersectBits(a, b).num_bits = a.num_bits
         /\ a.num_bits = b.num_bits
              => BitSet(IntersectBits(a, b)) = BitSet(a) \cap BitSet(b)
<1> DEFINE v == [l \in DOMAIN a.vec |->
                   IF IsPartial(a, l) THEN a.vec[l] \cap (b.vec[l] \cup Mask(a))
                   ELSE a.vec[l] \cap b.vec[l]]
           c == IntersectBits(a, b)
<1>1. /\ a.num_bits \in Nat /\ a.vec \in Seq(Word) /\ Len(a.vec) \in Nat
      /\ DOMAIN a.vec = 1 .. Len(a.vec)
      /\ \A l \in 1 .. Len(a.vec) : a.vec[l] \in Word
      /\ a = [num_bits |-> a.num_bits, vec |-> a.vec]
      /\ \A t \in 0 .. a.num_bits - 1 :
           /\ t \div WordBits + 1 \in 1 .. Len(a.vec)
           /\ t \div WordBits \in Nat
           /\ (t % WordBits) \in 0 .. WordBits - 1
           /\ t = WordBits * (t \div WordBits) + (t % WordBits)
  BY FullBitsType
<1>2. c = [num_bits |-> a.num_bits, vec |-> v]
  <2>1. c = [a EXCEPT !.vec = v]
    BY DEF IntersectBits
  <2> HIDE DEF c, v
  <2> QED
    BY <1>1, <2>1
<1>3. c.num_bits = a.num_bits /\ c.vec = v
  BY <1>2
<1>4. v \in Seq(Word) /\ Len(v) = Len(a.vec)
  <2>1. \A l \in 1 .. Len(a.vec) : v[l] \in Word
    BY <1>1 DEF Word
  <2>2. v = [l \in 1 .. Len(a.vec) |-> v[l]]
    BY <1>1
  <2> HIDE DEF v
  <2> QED
    BY <1>1, <2>1, <2>2
<1>5. FullBits(c)
  BY <1>1, <1>2, <1>3, <1>4 DEF FullBits, BitVectors
<1>6. ASSUME a.num_bits = b.num_bits, NEW t \in 0 .. a.num_bits - 1
      PROVE  GetBit(c, t) <=> GetBit(a, t) /\ GetBit(b, t)
  <2> DEFINE q == t \div WordBits
             s == t % WordBits
             n == a.num_bits
  <2>1. /\ q + 1 \in 1 .. Len(a.vec) /\ q \in Nat /\ s \in 0 .. WordBits - 1
        /\ t = WordBits * q + s
    BY <1>1
  <2>2. IsPartial(a, q + 1) => s \notin Mask(a)
    <3>1. WordBits * q + s < n
      <4>1. t < n
        BY <1>1
      <4> HIDE DEF q, s, n
      <4> QED
        BY <2>1, <4>1
    <3>2. q + 1 <= (n + WordBits - 1) \div WordBits
      BY <2>1 DEF FullBits
    <3> HIDE DEF q, s, n
    <3>3. (n % WordBits) # 0 /\ q + 1 = (n + WordBits - 1) \div WordBits
            => s < (n % WordBits)
      BY <1>1, <2>1, <3>1, <3>2, WordAssumption, WordEnds DEF n
    <3>4. (n % WordBits) \in Nat
      <4>1. n \in Nat
        BY <1>1 DEF n
      <4> QED
        BY <4>1, WordAssumption, Places
    <3> QED
      BY <2>1, <3>3, <3>4 DEF IsPartial, EndOffset, Mask, FullBits, n
  <2>3. GetBit(c, t) <=> s \in v[q + 1]
    BY <1>3 DEF GetBit
  <2>4. (GetBit(a, t) <=> s \in a.vec[q + 1]) /\ (GetBit(b, t) <=> s \in b.vec[q + 1])
    BY DEF GetBit
  <2>5. s \in v[q + 1] <=> s \in a.vec[q + 1] /\ s \in b.vec[q + 1]
    <3> HIDE DEF q, s
    <3> QED
      BY <1>1, <2>1, <2>2
  <2> QED
    BY <2>3, <2>4, <2>5
<1> HIDE DEF v, c
<1>7. a.num_bits = b.num_bits => BitSet(c) = BitSet(a) \cap BitSet(b)
  BY <1>3, <1>6 DEF BitSet
<1> QED
  BY <1>3, <1>5, <1>7 DEF c

\* The indices of one word are as many as its counted bits.
LEMMA WordCount ==
  ASSUME NEW a, FullBits(a), NEW q \in 0 .. Len(a.vec) - 1
  PROVE  /\ IsFiniteSet(CountedBits(a, q + 1))
         /\ Cardinality(CountedBits(a, q + 1)) \in Nat
         /\ Cardinality({t \in BitSet(a) : t \div WordBits = q})
              = Cardinality(CountedBits(a, q + 1))
<1> DEFINE W == WordBits
           n == a.num_bits
           C == CountedBits(a, q + 1)
           B == {t \in BitSet(a) : t \div W = q}
           f == [u \in C |-> W * q + u]
<1>1. W \in Nat \ {0} /\ n \in Nat /\ q \in Nat /\ q + 1 \in 1 .. Len(a.vec)
  BY WordAssumption, FullBitsType
<1>2. C \subseteq 0 .. W - 1
  <2>1. a.vec[q + 1] \in Word
    BY <1>1, FullBitsType
  <2> QED
    BY <2>1 DEF CountedBits, Word
<1>3. IsFiniteSet(C) /\ Cardinality(C) \in Nat
  <2>1. W - 1 \in Int
    BY <1>1
  <2>2. IsFiniteSet(0 .. W - 1)
    BY <2>1, FS_Interval
  <2> HIDE DEF C
  <2>3. IsFiniteSet(C)
    BY <1>2, <2>2, FS_Subset
  <2> QED
    BY <2>3, FS_CardinalityType
<1>4. ASSUME NEW u \in 0 .. W - 1
      PROVE  W * q + u \in B <=> u \in C
  <2>1. W * q + u \in Nat /\ (W * q + u) \div W = q /\ ((W * q + u) % W) = u
    BY <1>1, PlaceOf
  <2>2. W * q + u < n
          <=> ((n % W) # 0 /\ q + 1 = (n + W - 1) \div W => u < (n % W))
    <3>1. q + 1 <= (n + W - 1) \div W
      BY <1>1 DEF FullBits
    <3> HIDE DEF W, n
    <3> QED
      BY <1>1, <3>1, WordEnds
  <2>3. GetBit(a, W * q + u) <=> u \in a.vec[q + 1]
    BY <2>1 DEF GetBit
  <2>4. u \in C <=> u \in a.vec[q + 1] /\ (IsPartial(a, q + 1) => u \notin Mask(a))
    BY DEF CountedBits
  <2>5. IsPartial(a, q + 1) <=> (n % W) # 0 /\ q + 1 = (n + W - 1) \div W
    BY DEF IsPartial, EndOffset, FullBits
  <2>6. u \notin Mask(a) <=> u < (n % W)
    <3>1. (n % W) \in 0 .. W - 1 /\ W - 1 \in Int
      <4>1. (n % W) \in 0 .. W - 1
        BY <1>1, Places
      <4> QED
        BY <1>1, <4>1
    <3>2. Mask(a) = (n % W) .. W - 1
      BY DEF Mask, EndOffset
    <3> DEFINE e == n % W
    <3> HIDE DEF W, n, e
    <3>3. u \notin e .. W - 1 <=> u < e
      BY <1>1, <3>1 DEF e
    <3> QED
      BY <3>2, <3>3 DEF e
  <2>7. W * q + u \in B <=> W * q + u \in 0 .. n - 1 /\ GetBit(a, W * q + u)
    BY <2>1 DEF BitSet
  <2>8. W * q + u \in 0 .. n - 1 <=> W * q + u < n
    <3> DEFINE t == W * q + u
    <3>1. t \in Nat
      BY <2>1
    <3> HIDE DEF t, n
    <3>2. t \in 0 .. n - 1 <=> t < n
      BY <1>1, <3>1
    <3> QED
      BY <3>2 DEF t
  <2> HIDE DEF B, C, W, n
  <2> QED
    BY <2>2, <2>3, <2>4, <2>5, <2>6, <2>7, <2>8
<1>5. \A u \in C : f[u] \in B
  <2> HIDE DEF B, C, W
  <2> QED
    BY <1>2, <1>4
<1>6. \A t \in B : \E u \in C : f[u] = t
  <2> TAKE t \in B
  <2>1. t \in 0 .. n - 1 /\ t \div W = q
    BY DEF BitSet
  <2>2. (t % W) \in 0 .. W - 1 /\ t = W * (t \div W) + (t % W)
    BY <2>1, FullBitsType
  <2>3. t % W \in C
    <3> DEFINE u == t % W
    <3>1. u \in 0 .. W - 1 /\ W * q + u \in B
      BY <2>1, <2>2
    <3> HIDE DEF u, B, C, W
    <3>2. u \in C
      BY <1>4, <3>1
    <3> QED
      BY <3>2 DEF u
  <2>4. f[t % W] = t
    BY <2>1, <2>2, <2>3
  <2> QED
    BY <2>3, <2>4
<1>7. \A u, s \in C : f[u] = f[s] => u = s
  <2> TAKE u, s \in C
  <2>1. u \in Nat /\ s \in Nat /\ W * q \in Nat /\ f[u] = W * q + u /\ f[s] = W * q + s
    BY <1>1, <1>2
  <2> HIDE DEF f, C
  <2> QED
    BY <2>1
<1>8. f \in Bijection(C, B)
  <2> HIDE DEF B, C
  <2> QED
    BY <1>5, <1>6, <1>7 DEF Bijection, Injection, Surjection, IsInjective
<1>9. Cardinality(B) = Cardinality(C)
  <2> HIDE DEF B, C, f
  <2> QED
    BY <1>3, <1>8, FS_Bijection DEF ExistsBijection
<1> QED
  BY <1>3, <1>9

\* count() returns the number of indices whose bit is 1.
LEMMA CountBitsExact ==
  ASSUME NEW a, FullBits(a)
  PROVE  CountBits(a) = Cardinality(BitSet(a)) /\ Cardinality(BitSet(a)) \in Nat
<1> DEFINE L == Len(a.vec)
           w(l) == Cardinality(CountedBits(a, l))
           D(m) == [l \in 0 .. L |-> IF l = 0 THEN 0 ELSE m[l - 1] + w(l)]
           n == CHOOSE m : m = D(m)
           G == [s \in (0 .. L) \X Nat |-> IF s[1] = 0 THEN 0 ELSE s[2] + w(s[1])]
           B(l) == {t \in BitSet(a) : t \div WordBits < l}
           T == {l \in 0 .. L : n[l] = Cardinality(B(l))}
<1>1. L \in Nat /\ a.num_bits \in Nat
  BY FullBitsType
<1>2. \A l \in 1 .. L : w(l) \in Nat
  <2> TAKE l \in 1 .. L
  <2>1. l - 1 \in 0 .. L - 1 /\ (l - 1) + 1 = l
    BY <1>1
  <2> DEFINE q == l - 1
  <2> HIDE DEF q
  <2>2. Cardinality(CountedBits(a, q + 1)) \in Nat
    BY <2>1, WordCount DEF q
  <2> QED
    BY <2>1, <2>2 DEF q
<1>3. CountBits(a) = n[L]
  BY DEF CountBits, CountedBits
<1> HIDE DEF w, L
<1>4. PICK m \in [0 .. L -> Nat] : Follows(m, L, 0, G)
  <2>1. G \in [(0 .. L) \X Nat -> Nat] /\ 0 \in Nat
    BY <1>1, <1>2
  <2> HIDE DEF G
  <2> QED
    BY <1>1, <2>1, RecursionExists
<1>5. m = D(m)
  <2>1. ASSUME NEW l \in 0 .. L
        PROVE  m[l] = IF l = 0 THEN 0 ELSE m[l - 1] + w(l)
    <3>1. CASE l = 0
      BY <1>4, <3>1 DEF Follows
    <3>2. CASE l # 0
      <4>1. l \in 1 .. L /\ l - 1 \in 0 .. L /\ m[l - 1] \in Nat
        BY <1>1, <1>4, <3>2
      <4> QED
        BY <1>4, <3>2, <4>1 DEF Follows
    <3> QED
      BY <3>1, <3>2
  <2> QED
    BY <1>4, <2>1
<1>6. n = D(n)
  <2> HIDE DEF D
  <2> QED
    BY <1>5
<1> HIDE DEF n, G
<1>7. n[0] = 0 /\ \A l \in 0 .. L - 1 : n[l + 1] = n[l] + w(l + 1)
  <2>1. \A l \in 0 .. L : n[l] = IF l = 0 THEN 0 ELSE n[l - 1] + w(l)
    BY <1>6
  <2>2. ASSUME NEW l \in 0 .. L - 1 PROVE n[l + 1] = n[l] + w(l + 1)
    <3>1. l + 1 \in 0 .. L /\ l + 1 # 0 /\ (l + 1) - 1 = l
      BY <1>1
    <3> QED
      BY <2>1, <3>1
  <2> QED
    BY <1>1, <2>1, <2>2
<1> HIDE DEF D
<1>8. BitSet(a) \subseteq Nat /\ IsFiniteSet(BitSet(a))
  <2>1. BitSet(a) \subseteq 0 .. a.num_bits - 1
    BY DEF BitSet
  <2>2. IsFiniteSet(0 .. a.num_bits - 1)
    <3>1. a.num_bits - 1 \in Int
      BY <1>1
    <3> QED
      BY <3>1, FS_Interval
  <2>3. 0 .. a.num_bits - 1 \subseteq Nat
    BY <1>1
  <2> QED
    BY <2>1, <2>2, <2>3, FS_Subset
<1>9. ASSUME NEW t \in BitSet(a) PROVE t \div WordBits \in Nat /\ t \div WordBits < L
  <2>1. t \in 0 .. a.num_bits - 1
    BY DEF BitSet
  <2>2. t \div WordBits \in Nat /\ t \div WordBits + 1 \in 1 .. Len(a.vec)
    BY <2>1, FullBitsType
  <2> QED
    BY <1>1, <2>2 DEF L
<1>10. 0 \in T
  <2>1. B(0) = {}
    BY <1>9
  <2>2. n[0] = Cardinality(B(0)) /\ 0 \in 0 .. L
    <3>1. Cardinality(B(0)) = 0
      BY <2>1, FS_EmptySet
    <3> HIDE DEF B
    <3> QED
      BY <1>1, <1>7, <3>1
  <2> QED
    BY <2>2
<1>11. ASSUME NEW l \in 0 .. L - 1, l \in T PROVE l + 1 \in T
  <2> DEFINE C == {t \in BitSet(a) : t \div WordBits = l}
  <2>1. B(l + 1) = B(l) \cup C
    <3>1. \A t \in BitSet(a) :
            t \div WordBits < l + 1 <=> t \div WordBits < l \/ t \div WordBits = l
      <4> TAKE t \in BitSet(a)
      <4> DEFINE d == t \div WordBits
      <4>1. d \in Nat
        BY <1>9
      <4> HIDE DEF d
      <4>2. d < l + 1 <=> d < l \/ d = l
        BY <1>1, <4>1
      <4> QED
        BY <4>2 DEF d
    <3> QED
      BY <3>1
  <2>2. B(l) \cap C = {}
    BY <1>9
  <2>3. IsFiniteSet(B(l)) /\ IsFiniteSet(C)
    BY <1>8, FS_Subset
  <2>4. Cardinality(C) = w(l + 1)
    BY WordCount DEF w, L
  <2>5. Cardinality(B(l + 1)) = Cardinality(B(l)) + Cardinality(C)
    <3> DEFINE Bj == B(l)
    <3>1. IsFiniteSet(Bj) /\ IsFiniteSet(C) /\ Bj \cap C = {}
      BY <2>2, <2>3
    <3> HIDE DEF Bj, C, B
    <3>2. Cardinality(Bj \cup C)
            = Cardinality(Bj) + Cardinality(C) - Cardinality(Bj \cap C)
      BY <3>1, FS_Union
    <3>3. Cardinality(Bj \cap C) = 0
      BY <3>1, FS_EmptySet
    <3>4. Cardinality(Bj) \in Nat /\ Cardinality(C) \in Nat
      BY <3>1, FS_CardinalityType
    <3>5. Cardinality(Bj \cup C) = Cardinality(Bj) + Cardinality(C)
      BY <3>2, <3>3, <3>4
    <3> QED
      BY <2>1, <3>5 DEF Bj
  <2>6. l + 1 \in 0 .. L
    BY <1>1
  <2> HIDE DEF B, C
  <2>7. n[l + 1] = Cardinality(B(l + 1))
    BY <1>7, <1>11, <2>4, <2>5
  <2> QED
    BY <2>6, <2>7
<1>12. L \in T
  <2>1. 0 \in Nat /\ L \in 0 .. L
    BY <1>1
  <2> HIDE DEF T
  <2>2. \A l \in 0 .. L : l \in T
    BY <1>1, <1>10, <1>11, <2>1, IntervalInduction
  <2> QED
    BY <2>1, <2>2
<1>13. B(L) = BitSet(a)
  BY <1>9
<1> QED
  BY <1>3, <1>8, <1>12, <1>13, FS_CardinalityType

-----------------------------------------------------------------------------
(* Tid vectors.                                                            *)

\* Every earlier entry is smaller.
Increasing(s) == \A k, l \in 1 .. Len(s) : k < l => s[k] < s[l]

\* It is enough that neighbours are in order.
LEMMA NeighboursIncrease ==
  ASSUME NEW s \in Seq(Nat), \A k \in 1 .. Len(s) - 1 : s[k] < s[k + 1]
  PROVE  Increasing(s)
<1> SUFFICES ASSUME NEW k \in 1 .. Len(s), NEW m \in 1 .. Len(s), k < m
             PROVE  s[k] < s[m]
  BY DEF Increasing
<1> DEFINE T == {l \in k + 1 .. Len(s) : s[k] < s[l]}
<1>1. k + 1 \in Nat /\ Len(s) \in Nat /\ m \in k + 1 .. Len(s)
  OBVIOUS
<1>2. k + 1 \in T
  OBVIOUS
<1>3. ASSUME NEW l \in k + 1 .. Len(s) - 1, l \in T PROVE l + 1 \in T
  <2>1. s[k] < s[l] /\ s[l] < s[l + 1] /\ l + 1 \in k + 1 .. Len(s)
    BY <1>3
  <2>2. s[k] \in Nat /\ s[l] \in Nat /\ s[l + 1] \in Nat
    BY <2>1, SMTT(30)
  <2> QED
    BY <2>1, <2>2, SMTT(30)
<1> HIDE DEF T
<1>4. \A l \in k + 1 .. Len(s) : l \in T
  BY <1>1, <1>2, <1>3, IntervalInduction
<1> QED
  BY <1>1, <1>4 DEF T

LEMMA IncreasingNeighbours ==
  ASSUME NEW s \in Seq(Nat), Increasing(s)
  PROVE  \A k \in 1 .. Len(s) - 1 : s[k] < s[k + 1]
  BY DEF Increasing

\* An increasing vector has as many entries as members.
LEMMA IncreasingLength ==
  ASSUME NEW s \in Seq(Nat), Increasing(s)
  PROVE  IsFiniteSet(ToSet(s)) /\ Cardinality(ToSet(s)) = Len(s)
<1> DEFINE f == [k \in 1 .. Len(s) |-> s[k]]
           S == ToSet(s)
           I == 1 .. Len(s)
<1>1. Len(s) \in Nat /\ DOMAIN s = I /\ \A k \in I : s[k] \in Nat
  OBVIOUS
<1>2. S = {s[k] : k \in I}
  BY <1>1 DEF ToSet
<1>3. \A k, l \in I : f[k] = f[l] => k = l
  <2> TAKE k, l \in I
  <2>1. k < l => s[k] < s[l]
    BY DEF Increasing
  <2>2. l < k => s[l] < s[k]
    BY DEF Increasing
  <2>3. k \in Nat /\ l \in Nat /\ s[k] \in Nat /\ s[l] \in Nat
    BY <1>1
  <2> QED
    BY <2>1, <2>2, <2>3
<1>4. f \in Bijection(I, S)
  <2>1. f \in [I -> S]
    BY <1>2
  <2>2. \A t \in S : \E k \in I : f[k] = t
    BY <1>2
  <2>3. f \in Injection(I, S)
    <3> HIDE DEF f, S, I
    <3> QED
      BY <1>3, <2>1 DEF Injection, IsInjective
  <2>4. f \in Surjection(I, S)
    <3> HIDE DEF f, S, I
    <3> QED
      BY <2>1, <2>2 DEF Surjection
  <2> QED
    BY <2>3, <2>4 DEF Bijection
<1>5. IsFiniteSet(I) /\ Cardinality(I) = Len(s)
  <2> DEFINE n == Len(s)
  <2>1. n \in Nat
    BY <1>1
  <2> HIDE DEF n
  <2>2. 1 \in Int /\ n \in Int
    BY <2>1
  <2>3. IsFiniteSet(1 .. n) /\ Cardinality(1 .. n) = IF 1 > n THEN 0 ELSE n - 1 + 1
    BY <2>2, FS_Interval
  <2>4. (IF 1 > n THEN 0 ELSE n - 1 + 1) = n
    BY <2>1
  <2> QED
    BY <2>3, <2>4 DEF n
<1> HIDE DEF f, S, I
<1>6. IsFiniteSet(S) /\ Cardinality(S) = Cardinality(I)
  BY <1>4, <1>5, FS_Bijection DEF ExistsBijection
<1> QED
  BY <1>5, <1>6 DEF S

\* Appending a larger entry.
LEMMA AppendIncreases ==
  ASSUME NEW s \in Seq(Nat), Increasing(s), NEW t \in Nat, \A u \in ToSet(s) : u < t
  PROVE  /\ Append(s, t) \in Seq(Nat)
         /\ Increasing(Append(s, t))
         /\ ToSet(Append(s, t)) = ToSet(s) \cup {t}
<1> DEFINE q == Append(s, t)
<1>1. /\ q \in Seq(Nat) /\ Len(q) = Len(s) + 1 /\ q[Len(s) + 1] = t
      /\ \A k \in 1 .. Len(s) : q[k] = s[k] /\ s[k] \in ToSet(s)
      /\ Len(s) \in Nat
  BY DEF ToSet
<1> HIDE DEF q
<1>2. Increasing(q)
  <2> SUFFICES ASSUME NEW k \in 1 .. Len(q), NEW l \in 1 .. Len(q), k < l
               PROVE  q[k] < q[l]
    BY DEF Increasing
  <2>1. k \in 1 .. Len(s)
    BY <1>1
  <2>2. CASE l = Len(s) + 1
    BY <1>1, <2>1, <2>2
  <2>3. CASE l # Len(s) + 1
    <3> DEFINE n == Len(s)
    <3>1. n \in Nat /\ l \in 1 .. n + 1 /\ l # n + 1
      BY <1>1, <2>3
    <3> HIDE DEF n
    <3>2. l \in 1 .. n
      BY <3>1
    <3> QED
      BY <1>1, <2>1, <3>2 DEF Increasing, n
  <2> QED
    BY <2>2, <2>3
<1>3. ToSet(q) = ToSet(s) \cup {t}
  <2>1. DOMAIN q = 1 .. Len(s) + 1 /\ DOMAIN s = 1 .. Len(s)
    BY <1>1
  <2>2. \A k \in DOMAIN q : q[k] \in ToSet(s) \cup {t}
    <3> TAKE k \in DOMAIN q
    <3>1. k \in 1 .. Len(s) \/ k = Len(s) + 1
      BY <1>1, <2>1
    <3> QED
      BY <1>1, <3>1
  <2>3. \A u \in ToSet(s) \cup {t} : \E k \in DOMAIN q : q[k] = u
    <3> TAKE u \in ToSet(s) \cup {t}
    <3>1. CASE u = t
      <4>1. Len(s) + 1 \in DOMAIN q
        BY <1>1, <2>1
      <4> QED
        BY <1>1, <3>1, <4>1
    <3>2. CASE u \in ToSet(s)
      <4>1. PICK k \in 1 .. Len(s) : s[k] = u
        BY <2>1, <3>2 DEF ToSet
      <4>2. k \in DOMAIN q /\ q[k] = u
        BY <1>1, <2>1, <4>1
      <4> QED
        BY <4>2
    <3> QED
      BY <3>1, <3>2
  <2> QED
    BY <2>2, <2>3 DEF ToSet
<1> QED
  BY <1>1, <1>2, <1>3 DEF q

\* The loop that selects keeps the order and pushes just the entries in S.
LEMMA SelectExact ==
  ASSUME NEW tv \in Seq(Nat), Increasing(tv), NEW S
  PROVE  /\ Select(tv, S) \in Seq(Nat)
         /\ Increasing(Select(tv, S))
         /\ ToSet(Select(tv, S)) = ToSet(tv) \cap S
<1> DEFINE L == Len(tv)
           V == Seq(Nat)
           D(m) == [n \in 0 .. L |->
                      IF n = 0 THEN <<>>
                      ELSE IF tv[n] \in S THEN Append(m[n - 1], tv[n]) ELSE m[n - 1]]
           sel == CHOOSE m : m = D(m)
           G == [q \in (0 .. L) \X V |->
                   IF q[1] = 0 THEN <<>>
                   ELSE IF tv[q[1]] \in S THEN Append(q[2], tv[q[1]]) ELSE q[2]]
           B(n) == {tv[k] : k \in 1 .. n}
           T == {n \in 0 .. L : /\ sel[n] \in V
                                /\ Increasing(sel[n])
                                /\ ToSet(sel[n]) = B(n) \cap S}
<1>1. L \in Nat /\ \A n \in 1 .. L : tv[n] \in Nat
  OBVIOUS
<1>2. Select(tv, S) = sel[L]
  BY DEF Select
<1>3. <<>> \in V /\ \A s \in V : \A n \in 1 .. L : Append(s, tv[n]) \in V
  BY <1>1
<1> HIDE DEF L, V
<1>4. PICK m \in [0 .. L -> V] : Follows(m, L, <<>>, G)
  <2>1. G \in [(0 .. L) \X V -> V]
    <3>1. ASSUME NEW n \in 0 .. L, NEW s \in V
          PROVE  (IF n = 0 THEN <<>>
                  ELSE IF tv[n] \in S THEN Append(s, tv[n]) ELSE s) \in V
      <4>1. n = 0 \/ n \in 1 .. L
        BY <1>1
      <4> QED
        BY <1>3, <4>1
    <3> QED
      BY <3>1
  <2> HIDE DEF G
  <2> QED
    BY <1>1, <1>3, <2>1, RecursionExists
<1>5. m = D(m)
  <2>1. ASSUME NEW n \in 0 .. L
        PROVE  m[n] = IF n = 0 THEN <<>>
                      ELSE IF tv[n] \in S THEN Append(m[n - 1], tv[n]) ELSE m[n - 1]
    <3>1. CASE n = 0
      BY <1>4, <3>1 DEF Follows
    <3>2. CASE n # 0
      <4>1. n \in 1 .. L /\ n - 1 \in 0 .. L /\ m[n - 1] \in V
        BY <1>1, <1>4, <3>2
      <4> QED
        BY <1>4, <3>2, <4>1 DEF Follows
    <3> QED
      BY <3>1, <3>2
  <2> QED
    BY <1>4, <2>1
<1>6. sel = D(sel)
  <2> HIDE DEF D
  <2> QED
    BY <1>5
<1> HIDE DEF sel, G
<1>7. /\ sel[0] = <<>>
      /\ \A n \in 0 .. L - 1 :
           sel[n + 1] = IF tv[n + 1] \in S THEN Append(sel[n], tv[n + 1]) ELSE sel[n]
  <2>1. \A n \in 0 .. L :
          sel[n] = IF n = 0 THEN <<>>
                   ELSE IF tv[n] \in S THEN Append(sel[n - 1], tv[n]) ELSE sel[n - 1]
    BY <1>6
  <2>2. 0 \in 0 .. L
    BY <1>1
  <2>3. ASSUME NEW n \in 0 .. L - 1
        PROVE  sel[n + 1] = IF tv[n + 1] \in S THEN Append(sel[n], tv[n + 1])
                            ELSE sel[n]
    <3>1. n + 1 \in 0 .. L /\ n + 1 # 0 /\ (n + 1) - 1 = n
      BY <1>1
    <3> QED
      BY <2>1, <3>1
  <2> QED
    BY <2>1, <2>2, <2>3
<1> HIDE DEF D
<1>8. 0 \in T
  <2>1. B(0) = {}
    OBVIOUS
  <2>2. ToSet(<<>>) = {} /\ Increasing(<<>>)
    BY DEF ToSet, Increasing
  <2> QED
    BY <1>1, <1>3, <1>7, <2>1, <2>2
<1>9. ASSUME NEW n \in 0 .. L - 1, n \in T PROVE n + 1 \in T
  <2> DEFINE t == tv[n + 1]
             s == sel[n]
  <2>1. n + 1 \in 1 .. L /\ n + 1 \in 0 .. L /\ t \in Nat
    BY <1>1
  <2>2. B(n + 1) = B(n) \cup {t}
    <3>1. \A k : k \in 1 .. n + 1 <=> k \in 1 .. n \/ k = n + 1
      BY <1>1
    <3> QED
      BY <3>1
  <2>3. \A u \in B(n) : u < t
    <3> TAKE u \in B(n)
    <3>1. PICK k \in 1 .. n : u = tv[k]
      OBVIOUS
    <3>2. k \in 1 .. L /\ k < n + 1
      BY <1>1
    <3> QED
      BY <2>1, <3>1, <3>2 DEF Increasing, L
  <2>4. s \in Seq(Nat) /\ Increasing(s) /\ ToSet(s) = B(n) \cap S
    BY <1>9 DEF V
  <2> HIDE DEF t, s, B
  <2>5. CASE t \in S
    <3>1. sel[n + 1] = Append(s, t)
      BY <1>7, <2>5 DEF s, t
    <3>2. /\ Append(s, t) \in Seq(Nat) /\ Increasing(Append(s, t))
          /\ ToSet(Append(s, t)) = ToSet(s) \cup {t}
      BY <2>1, <2>3, <2>4, AppendIncreases
    <3>3. ToSet(s) \cup {t} = B(n + 1) \cap S
      BY <2>2, <2>4, <2>5
    <3> QED
      BY <2>1, <3>1, <3>2, <3>3 DEF V
  <2>6. CASE t \notin S
    <3>1. sel[n + 1] = s
      BY <1>7, <2>6 DEF s, t
    <3>2. ToSet(s) = B(n + 1) \cap S
      BY <2>2, <2>4, <2>6
    <3> QED
      BY <2>1, <2>4, <3>1, <3>2 DEF V
  <2> QED
    BY <2>5, <2>6
<1> HIDE DEF T, B
<1>10. L \in T
  <2>1. 0 \in Nat /\ L \in 0 .. L
    BY <1>1
  <2>2. \A n \in 0 .. L : n \in T
    BY <1>1, <1>8, <1>9, <2>1, IntervalInduction
  <2> QED
    BY <2>1, <2>2
<1>11. B(L) = ToSet(tv)
  BY DEF B, L, ToSet
<1> QED
  BY <1>2, <1>10, <1>11 DEF T, V

-----------------------------------------------------------------------------
(* The scan of two increasing vectors.                                     *)

\* The entries from i on.
From(s, k) == {s[y] : y \in k .. Len(s)}

\* What two vectors have in common from i and from j on: past the smaller of
\* the two entries nothing of it is lost.
LEMMA FromStep ==
  ASSUME NEW a \in Seq(Nat), NEW b \in Seq(Nat), Increasing(a), Increasing(b),
         NEW m \in 1 .. Len(a) + 1, NEW l \in 1 .. Len(b) + 1
  PROVE  /\ m > Len(a) \/ l > Len(b) => From(a, m) \cap From(b, l) = {}
         /\ m <= Len(a) /\ l <= Len(b) =>
              /\ a[m] \in Nat /\ b[l] \in Nat
              /\ a[m] = b[l] =>
                   /\ From(a, m) \cap From(b, l)
                        = (From(a, m + 1) \cap From(b, l + 1)) \cup {a[m]}
                   /\ a[m] \notin From(a, m + 1) \cap From(b, l + 1)
              /\ a[m] < b[l] =>
                   From(a, m) \cap From(b, l) = From(a, m + 1) \cap From(b, l)
              /\ a[m] > b[l] =>
                   From(a, m) \cap From(b, l) = From(a, m) \cap From(b, l + 1)
<1>1. CASE m > Len(a) \/ l > Len(b)
  <2>1. (m .. Len(a)) = {} \/ (l .. Len(b)) = {}
    BY <1>1
  <2>2. ~ (m <= Len(a) /\ l <= Len(b))
    BY <1>1
  <2>3. From(a, m) = {} \/ From(b, l) = {}
    BY <2>1 DEF From
  <2> HIDE DEF From
  <2> QED
    BY <2>2, <2>3
<1>2. CASE m <= Len(a) /\ l <= Len(b)
  <2>1. m \in 1 .. Len(a) /\ l \in 1 .. Len(b)
    BY <1>2
  <2>2. a[m] \in Nat /\ b[l] \in Nat
    BY <2>1
  <2>3. ASSUME NEW s \in Seq(Nat), Increasing(s), NEW k \in 1 .. Len(s)
        PROVE  /\ From(s, k) = From(s, k + 1) \cup {s[k]}
               /\ \A t \in From(s, k + 1) : t \in Nat /\ s[k] < t
    <3>1. \A y : y \in k .. Len(s) <=> y \in k + 1 .. Len(s) \/ y = k
      OBVIOUS
    <3>2. ASSUME NEW y \in k + 1 .. Len(s) PROVE s[y] \in Nat /\ s[k] < s[y]
      <4>1. y \in 1 .. Len(s) /\ k < y
        OBVIOUS
      <4> QED
        BY <2>3, <4>1 DEF Increasing
    <3> QED
      BY <3>1, <3>2 DEF From
  <2> DEFINE C == From(a, m + 1)
             B == From(b, l + 1)
  <2>4. /\ From(a, m) = C \cup {a[m]} /\ From(b, l) = B \cup {b[l]}
        /\ \A t \in C : t \in Nat /\ a[m] < t
        /\ \A t \in B : t \in Nat /\ b[l] < t
    BY <2>1, <2>3
  <2> HIDE DEF C, B
  <2>5. a[m] \notin C /\ b[l] \notin B
    BY <2>2, <2>4
  <2>6. CASE a[m] = b[l]
    <3>1. ~ (a[m] < b[l]) /\ ~ (a[m] > b[l])
      BY <2>2, <2>6
    <3> QED
      BY <1>2, <2>2, <2>4, <2>5, <2>6, <3>1, SMTT(30) DEF C, B
  <2>7. CASE a[m] < b[l]
    <3>1. a[m] # b[l] /\ ~ (a[m] > b[l]) /\ a[m] \notin B
      BY <2>2, <2>4, <2>7
    <3> QED
      BY <1>2, <2>2, <2>4, <3>1, SMTT(30) DEF C, B
  <2>8. CASE a[m] > b[l]
    <3>1. a[m] # b[l] /\ ~ (a[m] < b[l]) /\ b[l] \notin C
      BY <2>2, <2>4, <2>8
    <3> QED
      BY <1>2, <2>2, <2>4, <3>1, SMTT(30) DEF C, B
  <2>9. a[m] = b[l] \/ a[m] < b[l] \/ a[m] > b[l]
    BY <2>2
  <2> QED
    BY <2>6, <2>7, <2>8, <2>9, Zenon
<1>3. m \in Nat /\ l \in Nat /\ Len(a) \in Nat /\ Len(b) \in Nat
  OBVIOUS
<1>4. CASE ~ (m > Len(a) \/ l > Len(b))
  BY <1>2, <1>3, <1>4
<1> QED
  BY <1>1, <1>4, Zenon

\* The scan counts what the two vectors have in common.
LEMMA MergeCountExact ==
  ASSUME NEW a \in Seq(Nat), NEW b \in Seq(Nat), Increasing(a), Increasing(b)
  PROVE  MergeCount(a, b) = Cardinality(ToSet(a) \cap ToSet(b))
<1> DEFINE I == 1 .. Len(a) + 1
           J == 1 .. Len(b) + 1
           M(k, l) == From(a, k) \cap From(b, l)
           c(k, l) == Cardinality(M(k, l))
           E(n, k, l) == IF k > Len(a) \/ l > Len(b) THEN 0
                         ELSE IF a[k] = b[l] THEN 1 + n[<<k + 1, l + 1>>]
                         ELSE IF a[k] < b[l] THEN n[<<k + 1, l>>]
                         ELSE n[<<k, l + 1>>]
           D(n) == [q \in I \X J |-> E(n, q[1], q[2])]
           n0 == [q \in I \X J |-> c(q[1], q[2])]
           m == CHOOSE n : n = D(n)
           T == {s \in 0 .. Len(a) + Len(b) :
                   \A k \in I, l \in J :
                     Len(a) + 1 - k + (Len(b) + 1 - l) <= s => m[<<k, l>>] = c(k, l)}
<1>1. Len(a) \in Nat /\ Len(b) \in Nat /\ I \subseteq Nat /\ J \subseteq Nat
  OBVIOUS
<1>2. MergeCount(a, b) = m[<<1, 1>>]
  BY DEF MergeCount
<1>3. ASSUME NEW k \in I, NEW l \in J
      PROVE  IsFiniteSet(M(k, l)) /\ c(k, l) \in Nat
  <2>1. From(a, k) \subseteq ToSet(a)
    <3>1. \A e \in k .. Len(a) : e \in DOMAIN a
      OBVIOUS
    <3> QED
      BY <3>1 DEF From, ToSet
  <2>2. IsFiniteSet(M(k, l))
    BY <2>1, IncreasingLength, FS_Subset
  <2> QED
    BY <2>2, FS_CardinalityType
<1>4. ASSUME NEW k \in I, NEW l \in J
      PROVE  /\ k > Len(a) \/ l > Len(b) => c(k, l) = 0
             /\ k <= Len(a) /\ l <= Len(b) =>
                  /\ k + 1 \in I /\ l + 1 \in J
                  /\ a[k] \in Nat /\ b[l] \in Nat
                  /\ a[k] = b[l] => c(k, l) = 1 + c(k + 1, l + 1)
                  /\ a[k] < b[l] => c(k, l) = c(k + 1, l)
                  /\ a[k] > b[l] => c(k, l) = c(k, l + 1)
  <2>1. k > Len(a) \/ l > Len(b) => c(k, l) = 0
    <3>1. k > Len(a) \/ l > Len(b) => M(k, l) = {}
      BY FromStep
    <3> HIDE DEF M
    <3> QED
      BY <3>1, FS_EmptySet
  <2>2. CASE k <= Len(a) /\ l <= Len(b)
    <3>1. /\ a[k] \in Nat /\ b[l] \in Nat
          /\ a[k] = b[l] => /\ M(k, l) = M(k + 1, l + 1) \cup {a[k]}
                            /\ a[k] \notin M(k + 1, l + 1)
          /\ a[k] < b[l] => M(k, l) = M(k + 1, l)
          /\ a[k] > b[l] => M(k, l) = M(k, l + 1)
      BY <2>2, FromStep
    <3>2. k + 1 \in I /\ l + 1 \in J
      BY <1>1, <2>2
    <3>3. IsFiniteSet(M(k + 1, l + 1)) /\ Cardinality(M(k + 1, l + 1)) \in Nat
      BY <1>3, <3>2
    <3>4. a[k] = b[l] => Cardinality(M(k, l)) = 1 + Cardinality(M(k + 1, l + 1))
      <4> SUFFICES ASSUME a[k] = b[l]
                   PROVE  Cardinality(M(k, l)) = 1 + Cardinality(M(k + 1, l + 1))
        OBVIOUS
      <4> DEFINE S == M(k + 1, l + 1)
      <4>1. IsFiniteSet(S) /\ Cardinality(S) \in Nat /\ a[k] \notin S
            /\ M(k, l) = S \cup {a[k]}
        BY <3>1, <3>3
      <4> HIDE DEF S, M
      <4>2. Cardinality(S \cup {a[k]}) = Cardinality(S) + 1
        BY <4>1, FS_AddElement
      <4> QED
        BY <4>1, <4>2 DEF S
    <3> HIDE DEF M, I, J
    <3> QED
      BY <2>1, <3>1, <3>2, <3>4
  <2>3. CASE ~ (k <= Len(a) /\ l <= Len(b))
    BY <2>1, <2>3
  <2> QED
    BY <2>2, <2>3
<1> HIDE DEF c, M
<1>5. n0 = D(n0)
  <2>1. ASSUME NEW k \in I, NEW l \in J PROVE n0[<<k, l>>] = E(n0, k, l)
    <3>1. \A e \in I, y \in J : n0[<<e, y>>] = c(e, y)
      OBVIOUS
    <3>2. CASE k > Len(a) \/ l > Len(b)
      BY <1>4, <3>1, <3>2
    <3>3. CASE ~ (k > Len(a) \/ l > Len(b))
      <4>1. k <= Len(a) /\ l <= Len(b)
        BY <1>1, <3>3
      <4>2. /\ k + 1 \in I /\ l + 1 \in J
            /\ a[k] \in Nat /\ b[l] \in Nat
            /\ a[k] = b[l] => c(k, l) = 1 + c(k + 1, l + 1)
            /\ a[k] < b[l] => c(k, l) = c(k + 1, l)
            /\ a[k] > b[l] => c(k, l) = c(k, l + 1)
        BY <1>4, <4>1
      <4>3. a[k] = b[l] \/ a[k] < b[l] \/ a[k] > b[l]
        BY <4>2
      <4> HIDE DEF n0, I, J
      <4> QED
        BY <3>1, <3>3, <4>2, <4>3
    <3> QED
      BY <3>2, <3>3
  <2>2. n0 = [q \in I \X J |-> n0[q]]
    OBVIOUS
  <2>3. \A q \in I \X J : q = <<q[1], q[2]>> /\ q[1] \in I /\ q[2] \in J
    OBVIOUS
  <2> HIDE DEF n0, E, I, J
  <2>4. \A q \in I \X J : n0[q] = E(n0, q[1], q[2])
    BY <2>1, <2>3
  <2> QED
    BY <2>2, <2>4
<1>6. m = D(m)
  <2> HIDE DEF D, n0
  <2> QED
    BY <1>5
<1> HIDE DEF m, n0
<1>7. \A k \in I, l \in J : m[<<k, l>>] = E(m, k, l)
  <2> TAKE k \in I, l \in J
  <2> DEFINE q == <<k, l>>
  <2>1. q \in I \X J /\ q[1] = k /\ q[2] = l
    OBVIOUS
  <2> HIDE DEF q, E, I, J
  <2>2. m[q] = E(m, q[1], q[2])
    BY <1>6, <2>1
  <2> QED
    BY <2>1, <2>2 DEF q
<1> HIDE DEF D
<1>8. ASSUME NEW k \in I, NEW l \in J,
             k <= Len(a) => \A y \in {l, l + 1} \cap J : m[<<k + 1, y>>] = c(k + 1, y),
             l <= Len(b) => m[<<k, l + 1>>] = c(k, l + 1)
      PROVE  m[<<k, l>>] = c(k, l)
  <2>1. m[<<k, l>>] = E(m, k, l)
    BY <1>7
  <2>2. CASE k > Len(a) \/ l > Len(b)
    BY <1>4, <2>1, <2>2
  <2>3. CASE ~ (k > Len(a) \/ l > Len(b))
    <3>1. k <= Len(a) /\ l <= Len(b)
      BY <1>1, <2>3
    <3>2. /\ k + 1 \in I /\ l + 1 \in J
          /\ a[k] \in Nat /\ b[l] \in Nat
          /\ a[k] = b[l] => c(k, l) = 1 + c(k + 1, l + 1)
          /\ a[k] < b[l] => c(k, l) = c(k + 1, l)
          /\ a[k] > b[l] => c(k, l) = c(k, l + 1)
      BY <1>4, <3>1
    <3>3. /\ m[<<k + 1, l>>] = c(k + 1, l)
          /\ m[<<k + 1, l + 1>>] = c(k + 1, l + 1)
          /\ m[<<k, l + 1>>] = c(k, l + 1)
      BY <1>8, <3>1, <3>2
    <3>4. a[k] = b[l] \/ a[k] < b[l] \/ a[k] > b[l]
      BY <3>2
    <3> HIDE DEF I, J
    <3> QED
      BY <2>1, <2>3, <3>2, <3>3, <3>4
  <2> QED
    BY <2>2, <2>3
<1> HIDE DEF E
<1>9. 0 \in T
  <2>1. ASSUME NEW k \in I, NEW l \in J, Len(a) + 1 - k + (Len(b) + 1 - l) <= 0
        PROVE  m[<<k, l>>] = c(k, l)
    <3>1. ~ (k <= Len(a)) /\ ~ (l <= Len(b))
      BY <1>1, <2>1
    <3> HIDE DEF I, J
    <3> QED
      BY <1>8, <3>1
  <2> QED
    BY <1>1, <2>1
<1>10. ASSUME NEW s \in 0 .. Len(a) + Len(b) - 1, s \in T PROVE s + 1 \in T
  <2>1. ASSUME NEW k \in I, NEW l \in J, Len(a) + 1 - k + (Len(b) + 1 - l) <= s + 1
        PROVE  m[<<k, l>>] = c(k, l)
    <3>1. \A e \in I, y \in J :
            Len(a) + 1 - e + (Len(b) + 1 - y) <= s => m[<<e, y>>] = c(e, y)
      BY <1>10
    <3>2. ASSUME k <= Len(a), NEW y \in {l, l + 1} \cap J
          PROVE  m[<<k + 1, y>>] = c(k + 1, y)
      <4>1. k + 1 \in I /\ y \in J /\ Len(a) + 1 - (k + 1) + (Len(b) + 1 - y) <= s
        BY <1>1, <2>1, <3>2
      <4> HIDE DEF I, J
      <4> QED
        BY <3>1, <4>1
    <3>3. ASSUME l <= Len(b) PROVE m[<<k, l + 1>>] = c(k, l + 1)
      <4>1. l + 1 \in J /\ Len(a) + 1 - k + (Len(b) + 1 - (l + 1)) <= s
        BY <1>1, <2>1, <3>3
      <4> HIDE DEF I, J
      <4> QED
        BY <3>1, <4>1
    <3> HIDE DEF I, J
    <3> QED
      BY <1>8, <3>2, <3>3
  <2>2. s + 1 \in 0 .. Len(a) + Len(b)
    BY <1>1
  <2> HIDE DEF I, J
  <2> QED
    BY <2>1, <2>2
<1>11. Len(a) + Len(b) \in T
  <2> DEFINE z == Len(a) + Len(b)
  <2>1. 0 \in Nat /\ z \in Nat /\ z \in 0 .. z
    BY <1>1
  <2>2. \A s \in 0 .. z - 1 : s \in T => s + 1 \in T
    BY <1>10
  <2> HIDE DEF T, z
  <2>3. \A s \in 0 .. z : s \in T
    BY <1>9, <2>1, <2>2, IntervalInduction
  <2> QED
    BY <2>1, <2>3 DEF z
<1>12. 1 \in I /\ 1 \in J /\ Len(a) + 1 - 1 + (Len(b) + 1 - 1) <= Len(a) + Len(b)
  BY <1>1
<1>13. m[<<1, 1>>] = c(1, 1)
  <2> HIDE DEF I, J
  <2> QED
    BY <1>11, <1>12
<1>14. From(a, 1) = ToSet(a) /\ From(b, 1) = ToSet(b)
  BY DEF From, ToSet
<1> QED
  BY <1>2, <1>13, <1>14 DEF c, M

-----------------------------------------------------------------------------
(* Tidlists, for n transactions.                                           *)

\* A sound list of transactions among the first n.
Fits(tl, n) ==
  /\ IsSound(tl)
  /\ tl.implementation = "Bitvector" => tl.bitvector.num_bits = n
  /\ Denotes(tl) \subseteq 0 .. n - 1

LEMMA SoundParts ==
  ASSUME NEW tl
  PROVE  IsSound(tl) <=>
           /\ tl \in TidLists
           /\ FullBits(tl.bitvector)
           /\ Increasing(tl.tidvector)
<1>1. ASSUME tl \in TidLists
      PROVE  tl.tidvector \in Seq(Nat) /\ tl.bitvector \in BitVectors
  BY <1>1 DEF TidLists, TidVectors
<1> QED
  BY <1>1, NeighboursIncrease, IncreasingNeighbours DEF IsSound, FullBits

LEMMA ListParts ==
  ASSUME NEW tl \in TidLists
  PROVE  /\ tl = [implementation |-> tl.implementation,
                  bitvector |-> tl.bitvector, tidvector |-> tl.tidvector]
         /\ tl.implementation \in {"Bitvector", "Tidvector"}
         /\ tl.tidvector \in Seq(Nat)
         /\ tl.bitvector \in BitVectors
         /\ tl.implementation = "Bitvector" => Denotes(tl) = BitSet(tl.bitvector)
         /\ tl.implementation = "Tidvector" => Denotes(tl) = ToSet(tl.tidvector)
         /\ tl # Error
<1>1. /\ tl = [implementation |-> tl.implementation,
               bitvector |-> tl.bitvector, tidvector |-> tl.tidvector]
      /\ tl.implementation \in {"Bitvector", "Tidvector"}
      /\ tl.tidvector \in Seq(Nat)
      /\ tl.bitvector \in BitVectors
  BY DEF TidLists, TidVectors
<1>2. Error.implementation = "none"
  BY DEF Error
<1> QED
  BY <1>1, <1>2 DEF Denotes, BitSet

\* A list that holds a bit vector.
LEMMA BitvectorFits ==
  ASSUME NEW bv, FullBits(bv)
  PROVE  /\ Fits(BitvectorOf(bv), bv.num_bits)
         /\ Denotes(BitvectorOf(bv)) = BitSet(bv)
<1> DEFINE tl == BitvectorOf(bv)
<1>1. /\ tl.implementation = "Bitvector" /\ tl.bitvector = bv /\ tl.tidvector = <<>>
      /\ tl \in TidLists
  BY DEF BitvectorOf, TidLists, TidVectors, FullBits
<1>2. IsSound(tl)
  <2>1. Increasing(<<>>)
    BY DEF Increasing
  <2> HIDE DEF tl
  <2> QED
    BY <1>1, <2>1, SoundParts
<1>3. Denotes(tl) = BitSet(bv)
  <2> HIDE DEF tl
  <2> QED
    BY <1>1, ListParts
<1> HIDE DEF tl
<1>4. Fits(tl, bv.num_bits)
  BY <1>1, <1>2, <1>3 DEF Fits, BitSet
<1> QED
  BY <1>3, <1>4 DEF tl

\* A list that holds a tid vector.
LEMMA TidvectorFits ==
  ASSUME NEW tv \in Seq(Nat), Increasing(tv), NEW n \in Nat, ToSet(tv) \subseteq 0 .. n - 1
  PROVE  /\ Fits(TidvectorOf(tv), n)
         /\ Denotes(TidvectorOf(tv)) = ToSet(tv)
<1> DEFINE tl == TidvectorOf(tv)
<1>1. FullBits(NewBits(0))
  <2>1. 0 \in Nat
    OBVIOUS
  <2> QED
    BY <2>1, NewBitsEmpty
<1>2. /\ tl.implementation = "Tidvector" /\ tl.bitvector = NewBits(0) /\ tl.tidvector = tv
      /\ tl \in TidLists
  BY <1>1 DEF TidvectorOf, TidLists, TidVectors, FullBits
<1> HIDE DEF tl
<1>3. IsSound(tl)
  BY <1>1, <1>2, SoundParts
<1>4. Denotes(tl) = ToSet(tv)
  BY <1>2, ListParts
<1>5. Fits(tl, n)
  BY <1>2, <1>3, <1>4 DEF Fits
<1> QED
  BY <1>4, <1>5 DEF tl

\* A list for n transactions starts empty.
LEMMA ResetFits ==
  ASSUME NEW n \in Nat, NEW c
  PROVE  Fits(Reset(n, c), n) /\ Denotes(Reset(n, c)) = {}
<1>1. /\ FullBits(NewBits(n)) /\ NewBits(n).num_bits = n
      /\ BitSet(NewBits(n)) = {}
  BY NewBitsEmpty
<1>2. <<>> \in Seq(Nat) /\ Increasing(<<>>) /\ ToSet(<<>>) = {}
  BY DEF Increasing, ToSet
<1>3. Fits(TidvectorOf(<<>>), n) /\ Denotes(TidvectorOf(<<>>)) = {}
  BY <1>2, TidvectorFits
<1> QED
  BY <1>1, <1>3, BitvectorFits DEF Reset

\* Adding a later transaction.
LEMMA AddFits ==
  ASSUME NEW n \in Nat, NEW tl, Fits(tl, n), NEW t \in 0 .. n - 1,
         \A u \in Denotes(tl) : u < t
  PROVE  /\ Fits(AddTransaction(tl, t), n)
         /\ Denotes(AddTransaction(tl, t)) = Denotes(tl) \cup {t}
<1> DEFINE l == AddTransaction(tl, t)
<1>1. tl \in TidLists /\ FullBits(tl.bitvector) /\ Increasing(tl.tidvector)
  BY SoundParts DEF Fits
<1>2. /\ tl = [implementation |-> tl.implementation,
               bitvector |-> tl.bitvector, tidvector |-> tl.tidvector]
      /\ tl.implementation \in {"Bitvector", "Tidvector"}
      /\ tl.tidvector \in Seq(Nat)
      /\ tl.bitvector \in BitVectors
      /\ tl.implementation = "Bitvector" => Denotes(tl) = BitSet(tl.bitvector)
      /\ tl.implementation = "Tidvector" => Denotes(tl) = ToSet(tl.tidvector)
  BY <1>1, ListParts
<1>3. t \in Nat /\ Denotes(tl) \subseteq 0 .. n - 1
  BY DEF Fits
<1>4. CASE tl.implementation = "Bitvector"
  <2> DEFINE bv == SetBit(tl.bitvector, t)
  <2>1. tl.bitvector.num_bits = n
    BY <1>4 DEF Fits
  <2>2. FullBits(bv) /\ bv.num_bits = n /\ BitSet(bv) = BitSet(tl.bitvector) \cup {t}
    BY <1>1, <2>1, SetBitAdds
  <2>3. l = [tl EXCEPT !.bitvector = bv]
    BY <1>4 DEF AddTransaction
  <2> HIDE DEF bv, l
  <2>4. /\ l.implementation = "Bitvector" /\ l.bitvector = bv /\ l.tidvector = tl.tidvector
        /\ l = [implementation |-> "Bitvector", bitvector |-> bv,
                tidvector |-> tl.tidvector]
    BY <1>2, <1>4, <2>3
  <2>5. l \in TidLists
    BY <1>2, <2>2, <2>4 DEF TidLists, TidVectors, FullBits
  <2>6. IsSound(l)
    BY <1>1, <2>2, <2>4, <2>5, SoundParts
  <2>7. Denotes(l) = Denotes(tl) \cup {t}
    BY <1>2, <1>4, <2>2, <2>4, <2>5, ListParts
  <2>8. Fits(l, n)
    BY <1>3, <2>2, <2>4, <2>6, <2>7 DEF Fits
  <2> QED
    BY <2>7, <2>8 DEF l
<1>5. CASE tl.implementation = "Tidvector"
  <2> DEFINE tv == Append(tl.tidvector, t)
  <2>1. tv \in Seq(Nat) /\ Increasing(tv) /\ ToSet(tv) = ToSet(tl.tidvector) \cup {t}
    BY <1>1, <1>2, <1>3, <1>5, AppendIncreases
  <2>2. l = [tl EXCEPT !.tidvector = tv]
    BY <1>5 DEF AddTransaction
  <2> HIDE DEF tv, l
  <2>3. /\ l.implementation = "Tidvector" /\ l.bitvector = tl.bitvector /\ l.tidvector = tv
        /\ l = [implementation |-> "Tidvector", bitvector |-> tl.bitvector,
                tidvector |-> tv]
    BY <1>2, <1>5, <2>2
  <2>4. l \in TidLists
    BY <1>2, <2>1, <2>3 DEF TidLists, TidVectors
  <2>5. IsSound(l)
    BY <1>1, <2>1, <2>3, <2>4, SoundParts
  <2>6. Denotes(l) = Denotes(tl) \cup {t}
    BY <1>2, <1>5, <2>1, <2>3, <2>4, ListParts
  <2>7. Fits(l, n)
    BY <1>3, <2>3, <2>5, <2>6 DEF Fits
  <2> QED
    BY <2>6, <2>7 DEF l
<1> QED
  BY <1>2, <1>4, <1>5

\* count() is the number of transactions.
LEMMA CountTidsExact ==
  ASSUME NEW tl, IsSound(tl)
  PROVE  CountTids(tl) = Cardinality(Denotes(tl)) /\ CountTids(tl) \in Nat
<1>1. tl \in TidLists /\ FullBits(tl.bitvector) /\ Increasing(tl.tidvector)
  BY SoundParts
<1>2. /\ tl.implementation \in {"Bitvector", "Tidvector"}
      /\ tl.tidvector \in Seq(Nat)
      /\ tl.implementation = "Bitvector" => Denotes(tl) = BitSet(tl.bitvector)
      /\ tl.implementation = "Tidvector" => Denotes(tl) = ToSet(tl.tidvector)
  BY <1>1, ListParts
<1>3. CASE tl.implementation = "Bitvector"
  BY <1>1, <1>2, <1>3, CountBitsExact DEF CountTids
<1>4. CASE tl.implementation = "Tidvector"
  <2>1. Cardinality(ToSet(tl.tidvector)) = Len(tl.tidvector)
    BY <1>1, <1>2, IncreasingLength
  <2>2. Len(tl.tidvector) \in Nat
    BY <1>2
  <2> QED
    BY <1>2, <1>4, <2>1, <2>2 DEF CountTids
<1> QED
  BY <1>2, <1>3, <1>4

\* A tid vector meets a bit vector.
LEMMA SelectTidsMeets ==
  ASSUME NEW tv \in Seq(Nat), Increasing(tv), NEW bv, FullBits(bv),
         ToSet(tv) \subseteq 0 .. bv.num_bits - 1
  PROVE  /\ SelectTids(tv, bv) \in Seq(Nat)
         /\ Increasing(SelectTids(tv, bv))
         /\ ToSet(SelectTids(tv, bv)) = ToSet(tv) \cap BitSet(bv)
<1> DEFINE S == {t \in ToSet(tv) : GetBit(bv, t)}
<1>1. SelectTids(tv, bv) = Select(tv, S)
  BY DEF SelectTids
<1>2. ToSet(tv) \cap S = ToSet(tv) \cap BitSet(bv)
  BY DEF BitSet
<1> HIDE DEF S
<1> QED
  BY <1>1, <1>2, SelectExact

\* In all four pairs of representations an intersection has the common
\* transactions, whatever the result held before.
LEMMA IntersectMeets ==
  ASSUME NEW n \in Nat, NEW a, NEW b, Fits(a, n), Fits(b, n)
  PROVE  /\ Fits(Intersect(a, b), n)
         /\ Denotes(Intersect(a, b)) = Denotes(a) \cap Denotes(b)
         /\ CountIntersection(a, b) = Cardinality(Denotes(a) \cap Denotes(b))
<1> DEFINE D == Denotes(a) \cap Denotes(b)
<1>1. /\ a \in TidLists /\ FullBits(a.bitvector) /\ Increasing(a.tidvector)
      /\ b \in TidLists /\ FullBits(b.bitvector) /\ Increasing(b.tidvector)
  BY SoundParts DEF Fits
<1>2. /\ a.implementation \in {"Bitvector", "Tidvector"}
      /\ a.tidvector \in Seq(Nat)
      /\ a.implementation = "Bitvector" => Denotes(a) = BitSet(a.bitvector)
      /\ a.implementation = "Tidvector" => Denotes(a) = ToSet(a.tidvector)
      /\ b.implementation \in {"Bitvector", "Tidvector"}
      /\ b.tidvector \in Seq(Nat)
      /\ b.implementation = "Bitvector" => Denotes(b) = BitSet(b.bitvector)
      /\ b.implementation = "Tidvector" => Denotes(b) = ToSet(b.tidvector)
  BY <1>1, ListParts
<1>3. /\ a.implementation = "Bitvector" => a.bitvector.num_bits = n
      /\ b.implementation = "Bitvector" => b.bitvector.num_bits = n
      /\ Denotes(a) \subseteq 0 .. n - 1 /\ Denotes(b) \subseteq 0 .. n - 1
  BY DEF Fits
<1>4. CASE a.implementation = "Bitvector" /\ b.implementation = "Bitvector"
  <2> DEFINE bv == IntersectBits(a.bitvector, b.bitvector)
  <2> DEFINE z == a.bitvector
             y == b.bitvector
  <2>0. FullBits(z) /\ FullBits(y) /\ z.num_bits = n /\ y.num_bits = n
        /\ Denotes(a) = BitSet(z) /\ Denotes(b) = BitSet(y)
    BY <1>1, <1>2, <1>3, <1>4
  <2>1. FullBits(bv) /\ bv.num_bits = n /\ BitSet(bv) = D
    <3> HIDE DEF z, y
    <3>1. /\ FullBits(IntersectBits(z, y))
          /\ IntersectBits(z, y).num_bits = n
          /\ BitSet(IntersectBits(z, y)) = BitSet(z) \cap BitSet(y)
      BY <2>0, IntersectBitsMeets
    <3> QED
      BY <2>0, <3>1 DEF z, y
  <2>2. Intersect(a, b) = BitvectorOf(bv) /\ CountIntersection(a, b) = CountBits(bv)
    BY <1>4 DEF Intersect, CountIntersection, CountBitIntersection
  <2> HIDE DEF bv, D
  <2>3. CountBits(bv) = Cardinality(D)
    BY <2>1, CountBitsExact
  <2>4. Fits(BitvectorOf(bv), n) /\ Denotes(BitvectorOf(bv)) = D
    BY <2>1, BitvectorFits
  <2> QED
    BY <2>2, <2>3, <2>4 DEF D
<1>5. ASSUME NEW tv \in Seq(Nat), Increasing(tv), ToSet(tv) = D,
             Intersect(a, b) = TidvectorOf(tv)
      PROVE  /\ Fits(Intersect(a, b), n)
             /\ Denotes(Intersect(a, b)) = D
             /\ Cardinality(D) = Len(tv)
  <2>1. ToSet(tv) \subseteq 0 .. n - 1
    BY <1>3, <1>5
  <2> HIDE DEF D
  <2>2. Fits(TidvectorOf(tv), n) /\ Denotes(TidvectorOf(tv)) = D
    BY <1>5, <2>1, TidvectorFits
  <2>3. Cardinality(D) = Len(tv)
    BY <1>5, IncreasingLength
  <2> QED
    BY <1>5, <2>2, <2>3
<1>6. CASE a.implementation = "Bitvector" /\ b.implementation = "Tidvector"
  <2> DEFINE tv == SelectTids(b.tidvector, a.bitvector)
  <2>1. tv \in Seq(Nat) /\ Increasing(tv) /\ ToSet(tv) = D
    BY <1>1, <1>2, <1>3, <1>6, SelectTidsMeets
  <2>2. Intersect(a, b) = TidvectorOf(tv) /\ CountIntersection(a, b) = Len(tv)
    BY <1>6 DEF Intersect, CountIntersection
  <2> HIDE DEF tv, D
  <2> QED
    BY <1>5, <2>1, <2>2 DEF D
<1>7. CASE a.implementation = "Tidvector" /\ b.implementation = "Bitvector"
  <2> DEFINE tv == SelectTids(a.tidvector, b.bitvector)
  <2>1. tv \in Seq(Nat) /\ Increasing(tv) /\ ToSet(tv) = D
    BY <1>1, <1>2, <1>3, <1>7, SelectTidsMeets
  <2>2. Intersect(a, b) = TidvectorOf(tv) /\ CountIntersection(a, b) = Len(tv)
    BY <1>7 DEF Intersect, CountIntersection
  <2> HIDE DEF tv, D
  <2> QED
    BY <1>5, <2>1, <2>2 DEF D
<1>8. CASE a.implementation = "Tidvector" /\ b.implementation = "Tidvector"
  <2> DEFINE tv == IntersectTids(a.tidvector, b.tidvector)
  <2>1. tv \in Seq(Nat) /\ Increasing(tv) /\ ToSet(tv) = D
    BY <1>1, <1>2, <1>8, SelectExact DEF IntersectTids
  <2>2. /\ Intersect(a, b) = TidvectorOf(tv)
        /\ CountIntersection(a, b) = MergeCount(a.tidvector, b.tidvector)
    BY <1>8 DEF Intersect, CountIntersection
  <2>3. MergeCount(a.tidvector, b.tidvector) = Cardinality(D)
    BY <1>1, <1>2, <1>8, MergeCountExact
  <2> HIDE DEF tv, D
  <2> QED
    BY <1>5, <2>1, <2>2, <2>3 DEF D
<1> QED
  BY <1>2, <1>4, <1>6, <1>7, <1>8

\* The intersection in place ends in an error or leaves a sound list.
LEMMA InPlaceSound ==
  ASSUME NEW a, NEW b, IsSound(a), IsSound(b)
  PROVE  IntersectInPlace(a, b) = Error \/ IsSound(IntersectInPlace(a, b))
<1> DEFINE l == IntersectInPlace(a, b)
<1>1. /\ a \in TidLists /\ FullBits(a.bitvector) /\ Increasing(a.tidvector)
      /\ b \in TidLists /\ FullBits(b.bitvector) /\ Increasing(b.tidvector)
  BY SoundParts
<1>2. /\ a = [implementation |-> a.implementation,
              bitvector |-> a.bitvector, tidvector |-> a.tidvector]
      /\ a.implementation \in {"Bitvector", "Tidvector"}
      /\ a.tidvector \in Seq(Nat) /\ a.bitvector \in BitVectors
  BY <1>1, ListParts
<1>3. CASE a.implementation = "Bitvector" /\ b.implementation = "Bitvector"
  <2> DEFINE bv == IntersectBits(a.bitvector, b.bitvector)
  <2>1. FullBits(bv) /\ bv \in BitVectors
    BY <1>1, IntersectBitsMeets DEF FullBits
  <2>2. l = [a EXCEPT !.bitvector = bv]
    BY <1>3 DEF IntersectInPlace
  <2> HIDE DEF bv, l
  <2>3. /\ l.bitvector = bv /\ l.tidvector = a.tidvector
        /\ l = [implementation |-> a.implementation, bitvector |-> bv,
                tidvector |-> a.tidvector]
    BY <1>2, <2>2
  <2>4. l \in TidLists
    BY <1>2, <2>1, <2>3 DEF TidLists, TidVectors
  <2>5. IsSound(l)
    BY <1>1, <2>1, <2>3, <2>4, SoundParts
  <2> QED
    BY <2>5 DEF l
<1>4. CASE a.implementation = "Tidvector" /\ b.implementation = "Bitvector"
  <2> DEFINE tv == IntersectTids(a.tidvector, b.tidvector)
  <2>1. tv \in Seq(Nat) /\ Increasing(tv)
    BY <1>1, <1>2, SelectExact DEF IntersectTids
  <2>2. l = [a EXCEPT !.tidvector = tv]
    BY <1>4 DEF IntersectInPlace
  <2> HIDE DEF tv, l
  <2>3. /\ l.bitvector = a.bitvector /\ l.tidvector = tv
        /\ l = [implementation |-> a.implementation, bitvector |-> a.bitvector,
                tidvector |-> tv]
    BY <1>2, <2>2
  <2>4. l \in TidLists
    BY <1>2, <2>1, <2>3 DEF TidLists, TidVectors
  <2>5. IsSound(l)
    BY <1>1, <2>1, <2>3, <2>4, SoundParts
  <2> QED
    BY <2>5 DEF l
<1>5. CASE ~ (a.implementation = "Bitvector" /\ b.implementation = "Bitvector")
            /\ ~ (a.implementation = "Tidvector" /\ b.implementation = "Bitvector")
  BY <1>5 DEF IntersectInPlace
<1> QED
  BY <1>3, <1>4, <1>5

-----------------------------------------------------------------------------
(* The database and its clients.                                           *)

\* The members of a sequence that grows.
LEMMA AppendToSet ==
  ASSUME NEW S, NEW s \in Seq(S), NEW a \in S
  PROVE  ToSet(Append(s, a)) = ToSet(s) \cup {a}
<1> DEFINE q == Append(s, a)
<1>1. /\ DOMAIN q = 1 .. Len(s) + 1 /\ DOMAIN s = 1 .. Len(s) /\ Len(s) \in Nat
      /\ q[Len(s) + 1] = a
      /\ \A k \in 1 .. Len(s) : q[k] = s[k]
  OBVIOUS
<1> HIDE DEF q
<1>2. \A k : k \in 1 .. Len(s) + 1 <=> k \in 1 .. Len(s) \/ k = Len(s) + 1
  BY <1>1
<1> QED
  BY <1>1, <1>2 DEF ToSet, q

\* A transaction that holds an item exists.
LEMMA TidsetExists ==
  ASSUME IInv, NEW X, X # {}
  PROVE  Tidset(db, X) \subseteq 0 .. num_txn - 1
<1>1. /\ num_txn \in 1 .. NumTxn
      /\ \A t \in Tid : t >= num_txn => db[t] = {}
  BY DEF IInv, SizesFit
<1>2. ASSUME NEW t \in Tidset(db, X) PROVE t \in 0 .. num_txn - 1
  <2>1. t \in Tid /\ db[t] # {}
    BY DEF Tidset
  <2>2. t \in Nat /\ ~ t >= num_txn
    BY <1>1, <2>1, SizesAssumption DEF Tid
  <2> QED
    BY <1>1, <2>2, SizesAssumption
<1> QED
  BY <1>2

\* The lists of the database and of the string, in every state of IInv.
LEMMA ListsFit ==
  ASSUME IInv
  PROVE  /\ num_txn \in Nat \ {0}
         /\ \A k \in F : Fits(tidlists[k], num_txn)
         /\ pc # "scan" => \A k \in F : Denotes(tidlists[k]) = Tidset(db, {k})
         /\ \A d \in DOMAIN string : Fits(cache[d], num_txn)
<1>1. /\ num_txn \in 1 .. NumTxn /\ NumTxn \in Nat /\ txn_id \in 0 .. num_txn
      /\ \A t \in Tid : t >= num_txn => db[t] = {}
      /\ \A k \in F : IsSound(tidlists[k]) /\ Sized(tidlists[k])
      /\ \A d \in DOMAIN string : IsSound(cache[d]) /\ Sized(cache[d])
  <2>1. \A d \in DOMAIN string : d \in DOMAIN cache
    <3>1. /\ string \in Seq(F) /\ cache \in [1 .. Depth -> TidLists]
          /\ Len(string) <= Depth /\ Depth \in Nat
      BY InputAssumption DEF IInv, TypeOK, SizesFit
    <3>2. DOMAIN string = 1 .. Len(string) /\ Len(string) \in Nat
      BY <3>1
    <3> QED
      BY <3>1, <3>2
  <2> QED
    BY <2>1, SizesAssumption DEF IInv, TypeOK, SizesFit
<1>2. \A k \in F : Denotes(tidlists[k]) = {t \in 0 .. txn_id - 1 : k \in db[t]}
  BY DEF IInv, ListsExact
<1>3. \A k \in F : Fits(tidlists[k], num_txn)
  <2>1. 0 .. txn_id - 1 \subseteq 0 .. num_txn - 1
    BY <1>1
  <2> QED
    BY <1>1, <1>2, <2>1 DEF Fits, Sized
<1>4. ASSUME pc # "scan", NEW k \in F PROVE Denotes(tidlists[k]) = Tidset(db, {k})
  <2>1. txn_id = num_txn
    BY <1>4 DEF IInv, ScanFirst
  <2>2. Tidset(db, {k}) \subseteq 0 .. num_txn - 1
    BY TidsetExists
  <2>3. 0 .. num_txn - 1 \subseteq Tid
    BY <1>1 DEF Tid
  <2> QED
    BY <1>2, <2>1, <2>2, <2>3 DEF Tidset
<1>5. ASSUME NEW d \in DOMAIN string PROVE Fits(cache[d], num_txn)
  <2> DEFINE X == ToSet(SubSeq(string, 1, d))
  <2>1. Denotes(cache[d]) = Tidset(db, X)
    BY DEF IInv, ListsExact
  <2>2. X # {}
    <3>1. string \in Seq(F)
      BY DEF IInv, TypeOK
    <3>2. d \in 0 .. Len(string) /\ d >= 1
      BY <3>1
    <3>3. SubSeq(string, 1, d) \in Seq(F) /\ Len(SubSeq(string, 1, d)) = d
      BY <3>1, <3>2, PrefixType
    <3>4. 1 \in DOMAIN SubSeq(string, 1, d)
      BY <3>2, <3>3
    <3> QED
      BY <3>4 DEF ToSet
  <2> HIDE DEF X
  <2>3. Tidset(db, X) \subseteq 0 .. num_txn - 1
    BY <2>2, TidsetExists
  <2> QED
    BY <1>1, <2>1, <2>3 DEF Fits, Sized
<1> QED
  BY <1>1, <1>3, <1>4, <1>5

\* tidlist() ends in an error or in a sound list, and is right for one item
\* and for two.
LEMMA TidlistOfSound ==
  ASSUME NEW n \in Nat, \A l \in F : Fits(tidlists[l], n),
         NEW y \in Seq(F), y # <<>>
  PROVE  /\ TidlistOf(y) = Error \/ IsSound(TidlistOf(y))
         /\ Len(y) = 1 => /\ IsSound(TidlistOf(y))
                          /\ Denotes(TidlistOf(y)) = Denotes(tidlists[y[1]])
         /\ Len(y) = 2 => /\ IsSound(TidlistOf(y))
                          /\ Denotes(TidlistOf(y))
                               = Denotes(tidlists[y[1]]) \cap Denotes(tidlists[y[2]])
<1> DEFINE L == Len(y)
           D(m) == [k \in 1 .. L |->
                      IF k = 1 THEN tidlists[y[1]]
                      ELSE IF k = 2 THEN Intersect(m[k - 1], tidlists[y[k]])
                      ELSE IF m[k - 1] = Error THEN Error
                      ELSE IntersectInPlace(m[k - 1], tidlists[y[k]])]
           meet == CHOOSE m : m = D(m)
           V == {tl \in TidLists \cup {Error} : tl = Error \/ IsSound(tl)}
           g(k, s) == IF k \in {0, 1} THEN tidlists[y[1]]
                      ELSE IF k = 2 THEN Intersect(tidlists[y[1]], tidlists[y[2]])
                      ELSE IF s = Error THEN Error
                      ELSE IntersectInPlace(s, tidlists[y[k]])
           G == [q \in (0 .. L) \X V |-> g(q[1], q[2])]
           T == {k \in 1 .. L : meet[k] \in V}
<1>1. L \in Nat \ {0} /\ \A k \in 1 .. L : y[k] \in F
  OBVIOUS
<1>2. TidlistOf(y) = meet[L]
  BY DEF TidlistOf
<1>3. \A tl : IsSound(tl) => tl \in V
  BY SoundParts
<1>4. Error \in V
  OBVIOUS
<1>5. \A k \in 1 .. L : IsSound(tidlists[y[k]]) /\ Fits(tidlists[y[k]], n)
  BY <1>1 DEF Fits
<1>6. ASSUME NEW s \in V, NEW k \in 1 .. L
      PROVE  (IF s = Error THEN Error ELSE IntersectInPlace(s, tidlists[y[k]])) \in V
  <2>1. CASE s = Error
    BY <1>4, <2>1
  <2>2. CASE s # Error
    <3>1. IsSound(s)
      BY <2>2
    <3>2. \/ IntersectInPlace(s, tidlists[y[k]]) = Error
          \/ IsSound(IntersectInPlace(s, tidlists[y[k]]))
      BY <1>5, <3>1, InPlaceSound
    <3> QED
      BY <1>3, <1>4, <2>2, <3>2
  <2> QED
    BY <2>1, <2>2
<1> HIDE DEF V, L
<1>7. L >= 2 => /\ IsSound(Intersect(tidlists[y[1]], tidlists[y[2]]))
                /\ Denotes(Intersect(tidlists[y[1]], tidlists[y[2]]))
                     = Denotes(tidlists[y[1]]) \cap Denotes(tidlists[y[2]])
  <2> SUFFICES ASSUME L >= 2
               PROVE  /\ IsSound(Intersect(tidlists[y[1]], tidlists[y[2]]))
                      /\ Denotes(Intersect(tidlists[y[1]], tidlists[y[2]]))
                           = Denotes(tidlists[y[1]]) \cap Denotes(tidlists[y[2]])
    OBVIOUS
  <2>1. 1 \in 1 .. L /\ 2 \in 1 .. L
    BY <1>1
  <2> DEFINE a == tidlists[y[1]]
             b == tidlists[y[2]]
  <2>2. Fits(a, n) /\ Fits(b, n)
    BY <1>5, <2>1
  <2> HIDE DEF a, b
  <2>3. Fits(Intersect(a, b), n) /\ Denotes(Intersect(a, b)) = Denotes(a) \cap Denotes(b)
    BY <2>2, IntersectMeets, ZenonT(40)
  <2> QED
    BY <2>3 DEF Fits, a, b
<1>8. tidlists[y[1]] \in V /\ IsSound(tidlists[y[1]])
  <2>1. 1 \in 1 .. L
    BY <1>1
  <2> QED
    BY <1>3, <1>5, <2>1
<1>9. PICK f \in [0 .. L -> V] : Follows(f, L, tidlists[y[1]], G)
  <2>1. ASSUME NEW k \in 0 .. L, NEW s \in V PROVE g(k, s) \in V
    <3>1. CASE k \in {0, 1}
      BY <1>8, <3>1
    <3>2. CASE k = 2
      <4>1. L >= 2 /\ k \notin {0, 1}
        BY <1>1, <3>2
      <4> QED
        BY <1>3, <1>7, <3>2, <4>1
    <3>3. CASE k \notin {0, 1, 2}
      <4>1. k \in 1 .. L
        BY <1>1, <3>3
      <4>2. g(k, s) = IF s = Error THEN Error ELSE IntersectInPlace(s, tidlists[y[k]])
        BY <3>3
      <4> QED
        BY <1>6, <4>1, <4>2
    <3> QED
      BY <3>1, <3>2, <3>3
  <2> HIDE DEF g
  <2>2. G \in [(0 .. L) \X V -> V]
    BY <2>1
  <2> HIDE DEF G
  <2> QED
    BY <1>1, <1>8, <2>2, RecursionExists
<1> DEFINE m0 == [k \in 1 .. L |-> f[k]]
<1>10. m0 = D(m0)
  <2>1. \A k \in 1 .. L : k \in 0 .. L /\ f[k] = g(k, f[k - 1])
    <3> TAKE k \in 1 .. L
    <3>1. k \in 0 .. L /\ k - 1 \in 0 .. L /\ f[k - 1] \in V
      BY <1>1, <1>9
    <3>2. G[<<k, f[k - 1]>>] = g(k, f[k - 1])
      <4> HIDE DEF g
      <4> QED
        BY <3>1
    <3> HIDE DEF g, G
    <3> QED
      BY <1>9, <3>1, <3>2 DEF Follows
  <2>2. ASSUME NEW k \in 1 .. L
        PROVE  m0[k] = IF k = 1 THEN tidlists[y[1]]
                       ELSE IF k = 2 THEN Intersect(m0[k - 1], tidlists[y[k]])
                       ELSE IF m0[k - 1] = Error THEN Error
                       ELSE IntersectInPlace(m0[k - 1], tidlists[y[k]])
    <3>1. m0[k] = g(k, f[k - 1]) /\ 1 \in 1 .. L /\ k # 0
      BY <1>1, <2>1
    <3>2. CASE k = 1
      BY <3>1, <3>2
    <3>3. CASE k = 2
      <4>1. k - 1 = 1 /\ k # 1 /\ m0[1] = g(1, f[0])
        BY <1>1, <2>1, <3>1, <3>3
      <4>2. g(1, f[0]) = tidlists[y[1]]
        OBVIOUS
      <4> HIDE DEF m0
      <4> QED
        BY <3>1, <3>3, <4>1, <4>2
    <3>4. CASE k \notin {1, 2}
      <4>1. k - 1 \in 1 .. L
        BY <1>1, <3>4
      <4>2. m0[k - 1] = f[k - 1]
        BY <4>1
      <4> HIDE DEF m0
      <4> QED
        BY <3>1, <3>4, <4>2
    <3> QED
      BY <3>2, <3>3, <3>4
  <2>3. m0 = [k \in 1 .. L |-> m0[k]]
    OBVIOUS
  <2> HIDE DEF m0
  <2> QED
    BY <2>2, <2>3
<1>11. meet = D(meet)
  <2> HIDE DEF D, m0
  <2> QED
    BY <1>10
<1> HIDE DEF meet
<1>12. \A k \in 1 .. L :
         meet[k] = IF k = 1 THEN tidlists[y[1]]
                   ELSE IF k = 2 THEN Intersect(meet[k - 1], tidlists[y[k]])
                   ELSE IF meet[k - 1] = Error THEN Error
                   ELSE IntersectInPlace(meet[k - 1], tidlists[y[k]])
  BY <1>11
<1>13. meet[1] = tidlists[y[1]]
  <2>1. 1 \in 1 .. L
    BY <1>1
  <2> QED
    BY <1>12, <2>1
<1>14. L >= 2 => meet[2] = Intersect(tidlists[y[1]], tidlists[y[2]])
  <2> SUFFICES ASSUME L >= 2 PROVE meet[2] = Intersect(tidlists[y[1]], tidlists[y[2]])
    OBVIOUS
  <2>1. 2 \in 1 .. L /\ 2 - 1 = 1 /\ 2 # 1
    BY <1>1
  <2>2. meet[2] = Intersect(meet[2 - 1], tidlists[y[2]])
    BY <1>12, <2>1
  <2> QED
    BY <1>13, <2>1, <2>2
<1> HIDE DEF D
<1>15. 1 \in T
  BY <1>1, <1>8, <1>13
<1>16. ASSUME NEW k \in 1 .. L - 1, k \in T PROVE k + 1 \in T
  <2>1. k + 1 \in 1 .. L /\ (k + 1) - 1 = k /\ k + 1 # 1
    BY <1>1
  <2>2. CASE k = 1
    <3>1. L >= 2 /\ k + 1 = 2
      BY <1>1, <2>2
    <3> QED
      BY <1>3, <1>7, <1>14, <2>1, <3>1
  <2>3. CASE k # 1
    <3>1. meet[k + 1] = IF meet[k] = Error THEN Error
                        ELSE IntersectInPlace(meet[k], tidlists[y[k + 1]])
      <4>1. k + 1 # 2
        BY <2>3
      <4> QED
        BY <1>12, <2>1, <4>1
    <3> QED
      BY <1>6, <1>16, <2>1, <3>1
  <2> QED
    BY <2>2, <2>3
<1> HIDE DEF T
<1>17. L \in T
  <2>1. 1 \in Nat /\ L \in Nat /\ L \in 1 .. L
    BY <1>1
  <2>2. \A k \in 1 .. L : k \in T
    BY <1>15, <1>16, <2>1, IntervalInduction
  <2> QED
    BY <2>1, <2>2
<1>18. TidlistOf(y) = Error \/ IsSound(TidlistOf(y))
  BY <1>2, <1>17 DEF T, V
<1>19. L = 1 => TidlistOf(y) = tidlists[y[1]]
  BY <1>2, <1>13
<1>20. L = 2 => TidlistOf(y) = Intersect(tidlists[y[1]], tidlists[y[2]])
  BY <1>2, <1>14
<1> QED
  BY <1>7, <1>8, <1>18, <1>19, <1>20 DEF L

-----------------------------------------------------------------------------
(* The invariant.                                                          *)

LEMMA InitInvariant ==
  ASSUME Init
  PROVE  IInv
<1>1. /\ db \in Database /\ support \in Nat \ {0}
      /\ num_txn \in 1 .. NumTxn /\ \A t \in Tid : t >= num_txn => db[t] = {}
      /\ num_txn \in Nat
  BY InputAssumption, SizesAssumption DEF Init
<1>2. /\ pc = "scan" /\ txn_id = 0 /\ string = <<>> /\ asked = <<>> /\ answer = 0
      /\ tidlists = [k \in F |-> Reset(num_txn, Count(db, k))]
      /\ cache = [d \in 1 .. Depth |-> BitvectorOf(NewBits(0))]
  BY DEF Init
<1>3. ASSUME NEW k \in F
      PROVE  /\ IsSound(tidlists[k]) /\ Sized(tidlists[k])
             /\ tidlists[k] \in TidLists /\ Denotes(tidlists[k]) = {}
  <2> DEFINE tl == Reset(num_txn, Count(db, k))
  <2>1. Fits(tl, num_txn) /\ Denotes(tl) = {}
    BY <1>1, ResetFits
  <2>2. tidlists[k] = tl
    BY <1>2
  <2> HIDE DEF tl
  <2>3. tl \in TidLists
    BY <2>1, SoundParts DEF Fits
  <2> QED
    BY <2>1, <2>2, <2>3 DEF Fits, Sized
<1>4. ASSUME NEW d \in 1 .. Depth PROVE IsSound(cache[d]) /\ cache[d] \in TidLists
  <2>1. 0 \in Nat
    OBVIOUS
  <2>2. FullBits(NewBits(0))
    BY <2>1, NewBitsEmpty
  <2>3. IsSound(BitvectorOf(NewBits(0)))
    BY <2>2, BitvectorFits DEF Fits
  <2> QED
    BY <1>2, <2>3, SoundParts
<1>5. TypeOK
  <2>1. DOMAIN cache = 1 .. Depth /\ txn_id \in 0 .. num_txn
    BY <1>1, <1>2
  <2>2. string \in Seq(F) /\ asked \in Seq(F)
    BY <1>2
  <2> QED
    BY <1>1, <1>2, <1>3, <1>4, <2>1, <2>2 DEF TypeOK
<1>6. ListsExact
  <2>1. DOMAIN string = {} /\ 0 .. txn_id - 1 = {}
    BY <1>2
  <2> QED
    BY <1>3, <2>1 DEF ListsExact
<1>7. PairFrequencyExact
  BY <1>2 DEF PairFrequencyExact
<1>8. SizesFit
  <2>1. tidlists \in [F -> TidLists] /\ cache \in [1 .. Depth -> TidLists]
    BY <1>2, <1>3, <1>4
  <2>2. Len(string) <= Depth /\ DOMAIN string = {}
    BY <1>2, InputAssumption
  <2> QED
    BY <1>1, <1>3, <2>1, <2>2 DEF SizesFit
<1>9. ScanFirst
  BY <1>2 DEF ScanFirst
<1> QED
  BY <1>5, <1>6, <1>7, <1>8, <1>9 DEF IInv

\* The scan of a transaction.
LEMMA ScanInvariant ==
  ASSUME IInv, ScanTransaction
  PROVE  IInv'
<1>1. /\ pc = "scan" /\ txn_id < num_txn /\ txn_id' = txn_id + 1
      /\ tidlists' = [k \in F |-> IF k \in db[txn_id]
                                  THEN AddTransaction(tidlists[k], txn_id)
                                  ELSE tidlists[k]]
      /\ db' = db /\ num_txn' = num_txn /\ support' = support /\ pc' = pc
      /\ string' = string /\ cache' = cache /\ asked' = asked /\ answer' = answer
  BY DEF ScanTransaction, inputs, client
<1>2. F' = F
  BY <1>1 DEF F
<1>3. string = <<>> /\ asked = <<>>
  BY <1>1 DEF IInv, ScanFirst
<1>4. num_txn \in Nat /\ txn_id \in 0 .. num_txn - 1
  BY <1>1 DEF IInv, TypeOK
<1>5. ASSUME NEW k \in F
      PROVE  /\ Fits(tidlists'[k], num_txn)
             /\ tidlists'[k] \in TidLists
             /\ Denotes(tidlists'[k]) = {t \in 0 .. txn_id : k \in db[t]}
  <2> DEFINE tl == tidlists[k]
             l == tidlists'[k]
             S == {t \in 0 .. txn_id - 1 : k \in db[t]}
  <2>1. Fits(tl, num_txn) /\ Denotes(tl) = S
    BY ListsFit DEF IInv, ListsExact
  <2>2. \A u \in S : u < txn_id
    BY <1>4
  <2>3. \A t : t \in 0 .. txn_id <=> t \in 0 .. txn_id - 1 \/ t = txn_id
    BY <1>4
  <2>4. l = IF k \in db[txn_id] THEN AddTransaction(tl, txn_id) ELSE tl
    BY <1>1
  <2>5. CASE k \in db[txn_id]
    <3>1. {t \in 0 .. txn_id : k \in db[t]} = S \cup {txn_id}
      BY <2>3, <2>5
    <3> HIDE DEF tl, l, S
    <3>2. /\ Fits(AddTransaction(tl, txn_id), num_txn)
          /\ Denotes(AddTransaction(tl, txn_id)) = S \cup {txn_id}
      BY <1>4, <2>1, <2>2, AddFits
    <3>3. Fits(l, num_txn) /\ Denotes(l) = S \cup {txn_id}
      BY <2>4, <2>5, <3>2
    <3>4. l \in TidLists
      BY <3>3, SoundParts DEF Fits
    <3> QED
      BY <3>1, <3>3, <3>4 DEF l
  <2>6. CASE k \notin db[txn_id]
    <3>1. {t \in 0 .. txn_id : k \in db[t]} = S
      BY <2>3, <2>6
    <3> HIDE DEF tl, l, S
    <3>2. l \in TidLists
      BY <2>1, <2>4, <2>6, SoundParts DEF Fits
    <3> QED
      BY <2>1, <2>4, <2>6, <3>1, <3>2 DEF l
  <2> QED
    BY <2>5, <2>6
<1>6. TypeOK'
  <2>1. txn_id' \in 0 .. num_txn'
    BY <1>1, <1>4
  <2> QED
    BY <1>1, <1>2, <1>5, <2>1 DEF IInv, TypeOK, Fits
<1>7. ListsExact'
  <2>1. txn_id' - 1 = txn_id
    BY <1>1, <1>4
  <2>2. DOMAIN string' = {}
    BY <1>1, <1>3
  <2> QED
    BY <1>1, <1>2, <1>5, <2>1, <2>2 DEF ListsExact
<1>8. PairFrequencyExact'
  BY <1>1, <1>3 DEF PairFrequencyExact
<1>9. SizesFit'
  <2>1. tidlists' = [k \in F |-> tidlists'[k]]
    BY <1>1
  <2>2. tidlists' \in [F -> TidLists]
    BY <1>5, <2>1
  <2>3. DOMAIN string' = {}
    BY <1>1, <1>3
  <2> QED
    BY <1>1, <1>2, <1>5, <2>2, <2>3 DEF IInv, SizesFit, Sized, Fits
<1>10. ScanFirst'
  BY <1>1, <1>3 DEF ScanFirst
<1> QED
  BY <1>6, <1>7, <1>8, <1>9, <1>10 DEF IInv

\* The start of a walk.
LEMMA StartInvariant ==
  ASSUME IInv, StartWalk
  PROVE  IInv'
<1>1. /\ pc = "scan" /\ txn_id = num_txn /\ pc' = "ready"
      /\ db' = db /\ num_txn' = num_txn /\ support' = support
      /\ txn_id' = txn_id /\ tidlists' = tidlists /\ string' = string
      /\ asked' = asked /\ answer' = answer
  BY DEF StartWalk, inputs
<1>2. PICK first \in F :
        cache' = [d \in 1 .. Depth |-> Reset(num_txn, Count(db, first))]
  BY DEF StartWalk
<1>3. F' = F
  BY <1>1 DEF F
<1>4. string = <<>> /\ asked = <<>>
  BY <1>1 DEF IInv, ScanFirst
<1>5. /\ DOMAIN cache' = 1 .. Depth /\ cache' \in [1 .. Depth -> TidLists]
      /\ \A d \in 1 .. Depth : IsSound(cache'[d])
  <2> DEFINE tl == Reset(num_txn, Count(db, first))
  <2>1. num_txn \in Nat
    BY DEF IInv, TypeOK
  <2>2. Fits(tl, num_txn)
    BY <2>1, ResetFits
  <2> HIDE DEF tl
  <2>3. IsSound(tl) /\ tl \in TidLists
    BY <2>2, SoundParts DEF Fits
  <2> QED
    BY <1>2, <2>3 DEF tl
<1>6. TypeOK'
  BY <1>1, <1>3, <1>5 DEF IInv, TypeOK
<1>7. DOMAIN string' = {}
  BY <1>1, <1>4
<1>8. ListsExact'
  BY <1>1, <1>3, <1>7 DEF IInv, ListsExact
<1>9. PairFrequencyExact'
  BY <1>1, <1>4 DEF PairFrequencyExact
<1>10. SizesFit'
  BY <1>1, <1>3, <1>5, <1>7 DEF IInv, SizesFit, Sized
<1>11. ScanFirst'
  BY <1>1 DEF ScanFirst
<1> QED
  BY <1>6, <1>8, <1>9, <1>10, <1>11 DEF IInv

\* Going down an arc: the new line of the cache has the transactions of the
\* longer string.
LEMMA DescendInvariant ==
  ASSUME IInv, NEW k \in F, Descend(k)
  PROVE  IInv'
<1> DEFINE l == Len(string)
           d == l + 1
           tl == IF d = 1 THEN tidlists[k] ELSE Intersect(cache[d - 1], tidlists[k])
<1>1. /\ pc = "ready" /\ d <= Depth
      /\ string' = Append(string, k)
      /\ cache' = [cache EXCEPT ![d] = tl]
      /\ db' = db /\ num_txn' = num_txn /\ support' = support /\ pc' = pc
      /\ txn_id' = txn_id /\ tidlists' = tidlists
      /\ asked' = asked /\ answer' = answer
  BY DEF Descend, inputs
<1>2. F' = F
  BY <1>1 DEF F
<1>3. /\ string \in Seq(F) /\ l \in Nat /\ DOMAIN string = 1 .. l
      /\ Depth \in Nat /\ cache \in [1 .. Depth -> TidLists] /\ d \in 1 .. Depth
  <2>1. string \in Seq(F) /\ cache \in [1 .. Depth -> TidLists] /\ Depth \in Nat
    BY InputAssumption DEF IInv, TypeOK, SizesFit
  <2> QED
    BY <1>1, <2>1
<1>4. /\ Append(string, k) \in Seq(F) /\ Len(Append(string, k)) = d
      /\ \A m \in 0 .. l : SubSeq(Append(string, k), 1, m) = SubSeq(string, 1, m)
      /\ SubSeq(Append(string, k), 1, d) = Append(string, k)
      /\ ToSet(Append(string, k)) = ToSet(string) \cup {k}
  <2>1. /\ Append(string, k) \in Seq(F) /\ Len(Append(string, k)) = d
        /\ \A m \in 0 .. l : SubSeq(Append(string, k), 1, m) = SubSeq(string, 1, m)
    BY <1>3, FrontAppend
  <2>2. ToSet(Append(string, k)) = ToSet(string) \cup {k}
    BY <1>3, AppendToSet
  <2>3. SubSeq(Append(string, k), 1, d) = Append(string, k)
    BY <2>1, SubSeqFull
  <2> QED
    BY <2>1, <2>2, <2>3
<1>5. Fits(tl, num_txn) /\ Denotes(tl) = Tidset(db, ToSet(string) \cup {k})
  <2>1. /\ num_txn \in Nat /\ Fits(tidlists[k], num_txn)
        /\ Denotes(tidlists[k]) = Tidset(db, {k})
    BY <1>1, ListsFit
  <2>2. CASE l = 0
    <3>1. ToSet(string) = {}
      BY <1>3, <2>2 DEF ToSet
    <3>2. ToSet(string) \cup {k} = {k}
      BY <3>1
    <3>3. tl = tidlists[k]
      BY <2>2
    <3> HIDE DEF tl
    <3> QED
      BY <2>1, <3>2, <3>3
  <2>3. CASE l # 0
    <3> DEFINE a == cache[l]
               b == tidlists[k]
    <3>1. l \in DOMAIN string /\ d - 1 = l /\ d # 1
      BY <1>3, <2>3
    <3>2. SubSeq(string, 1, l) = string
      BY <1>3, SubSeqFull
    <3>3. Fits(a, num_txn) /\ Denotes(a) = Tidset(db, ToSet(string))
      BY <3>1, <3>2, ListsFit DEF IInv, ListsExact
    <3>4. tl = Intersect(a, b)
      BY <3>1
    <3> HIDE DEF a, b, tl
    <3>5. /\ Fits(Intersect(a, b), num_txn)
          /\ Denotes(Intersect(a, b)) = Denotes(a) \cap Denotes(b)
      BY <2>1, <3>3, IntersectMeets DEF b
    <3>6. Denotes(b) = Tidset(db, {k})
      BY <2>1 DEF b
    <3> QED
      BY <3>3, <3>4, <3>5, <3>6, TidsetUnion
  <2> QED
    BY <2>2, <2>3
<1>6. /\ cache'[d] = tl /\ DOMAIN cache' = DOMAIN cache
      /\ \A m \in 1 .. Depth : m # d => cache'[m] = cache[m]
  <2> HIDE DEF tl, d
  <2> QED
    BY <1>1, <1>3
<1>7. IsSound(tl) /\ tl \in TidLists
  BY <1>5, SoundParts DEF Fits
<1> HIDE DEF tl
<1>8. \A m : m \in 1 .. d <=> m \in 1 .. l \/ m = d
  BY <1>3
<1>9. /\ DOMAIN string' = 1 .. d /\ Len(string') = d /\ string' \in Seq(F)
      /\ d \in Nat
  BY <1>1, <1>3, <1>4
<1>10. ASSUME NEW m \in 1 .. l
       PROVE  m \in 1 .. Depth /\ m # d /\ m \in 0 .. l /\ m \in DOMAIN string
  BY <1>1, <1>3
<1> HIDE DEF d, l
<1>11. TypeOK'
  <2>1. \A m \in DOMAIN cache' : IsSound(cache'[m])
    BY <1>3, <1>6, <1>7 DEF IInv, TypeOK
  <2> QED
    BY <1>1, <1>2, <1>9, <2>1 DEF IInv, TypeOK
<1>12. ListsExact'
  <2>1. ASSUME NEW m \in 1 .. d
        PROVE  Denotes(cache'[m]) = Tidset(db, ToSet(SubSeq(string', 1, m)))
    <3>1. CASE m = d
      BY <1>1, <1>4, <1>5, <1>6, <3>1
    <3>2. CASE m # d
      <4>1. m \in 1 .. l
        BY <1>8, <3>2
      <4>2. cache'[m] = cache[m] /\ SubSeq(string', 1, m) = SubSeq(string, 1, m)
        BY <1>1, <1>4, <1>6, <1>10, <4>1
      <4>3. Denotes(cache[m]) = Tidset(db, ToSet(SubSeq(string, 1, m)))
        BY <1>10, <4>1 DEF IInv, ListsExact
      <4> QED
        BY <4>2, <4>3
    <3> QED
      BY <3>1, <3>2
  <2> QED
    BY <1>1, <1>2, <1>9, <2>1 DEF IInv, ListsExact
<1>13. PairFrequencyExact'
  BY <1>1 DEF IInv, PairFrequencyExact
<1>14. SizesFit'
  <2>1. cache' \in [1 .. Depth -> TidLists]
    BY <1>1, <1>3, <1>7
  <2>2. ASSUME NEW m \in 1 .. d
        PROVE  cache'[m].implementation = "Bitvector"
                 => cache'[m].bitvector.num_bits = num_txn
    <3>1. CASE m = d
      BY <1>5, <1>6, <3>1 DEF Fits
    <3>2. CASE m # d
      <4>1. m \in 1 .. l
        BY <1>8, <3>2
      <4>2. cache'[m] = cache[m] /\ Sized(cache[m])
        BY <1>6, <1>10, <4>1 DEF IInv, SizesFit
      <4> QED
        BY <4>2 DEF Sized
    <3> QED
      BY <3>1, <3>2
  <2>3. Len(string') <= Depth
    BY <1>1, <1>9
  <2> QED
    BY <1>1, <1>2, <1>9, <2>1, <2>2, <2>3 DEF IInv, SizesFit, Sized
<1>15. ScanFirst'
  BY <1>1 DEF IInv, ScanFirst
<1> QED
  BY <1>11, <1>12, <1>13, <1>14, <1>15 DEF IInv

\* Going back: the lines of the shorter string are still there.
LEMMA BacktrackInvariant ==
  ASSUME IInv, Backtrack
  PROVE  IInv'
<1> DEFINE l == Len(string)
<1>1. /\ pc = "ready" /\ string # <<>> /\ string' = Front(string)
      /\ db' = db /\ num_txn' = num_txn /\ support' = support /\ pc' = pc
      /\ txn_id' = txn_id /\ tidlists' = tidlists /\ cache' = cache
      /\ asked' = asked /\ answer' = answer
  BY DEF Backtrack, inputs
<1>2. F' = F
  BY <1>1 DEF F
<1>3. string \in Seq(F)
  BY DEF IInv, TypeOK
<1>4. /\ l \in Nat \ {0} /\ DOMAIN string = 1 .. l
      /\ Front(string) \in Seq(F) /\ Len(Front(string)) = l - 1
      /\ \A m \in 0 .. l - 1 : SubSeq(Front(string), 1, m) = SubSeq(string, 1, m)
  BY <1>1, <1>3, FrontType
<1>5. /\ DOMAIN string' = 1 .. l - 1 /\ Len(string') = l - 1 /\ string' \in Seq(F)
  BY <1>1, <1>4
<1>6. ASSUME NEW m \in 1 .. l - 1
      PROVE  m \in DOMAIN string /\ SubSeq(string', 1, m) = SubSeq(string, 1, m)
  BY <1>1, <1>4
<1>7. TypeOK'
  BY <1>1, <1>2, <1>5 DEF IInv, TypeOK
<1>8. ListsExact'
  <2>1. ASSUME NEW m \in 1 .. l - 1
        PROVE  Denotes(cache[m]) = Tidset(db, ToSet(SubSeq(string', 1, m)))
    <3>1. Denotes(cache[m]) = Tidset(db, ToSet(SubSeq(string, 1, m)))
      BY <1>6 DEF IInv, ListsExact
    <3> QED
      BY <1>6, <3>1
  <2> QED
    BY <1>1, <1>2, <1>5, <2>1 DEF IInv, ListsExact
<1>9. PairFrequencyExact'
  BY <1>1 DEF IInv, PairFrequencyExact
<1>10. SizesFit'
  <2>1. \A m \in 1 .. l - 1 : Sized(cache[m])
    BY <1>6 DEF IInv, SizesFit
  <2>2. l - 1 <= Depth
    <3>1. l <= Depth /\ Depth \in Nat
      BY InputAssumption DEF IInv, SizesFit
    <3> QED
      BY <1>4, <3>1
  <2> QED
    BY <1>1, <1>2, <1>5, <2>1, <2>2 DEF IInv, SizesFit, Sized
<1>11. ScanFirst'
  BY <1>1 DEF IInv, ScanFirst
<1> QED
  BY <1>7, <1>8, <1>9, <1>10, <1>11 DEF IInv

\* A call of frequency(): right when it makes one intersection or none.
LEMMA FrequencyInvariant ==
  ASSUME IInv, NEW y \in Vectors, Frequency(y)
  PROVE  IInv'
<1>1. /\ pc = "ready" /\ string = <<>> /\ asked' = y
      /\ TidlistOf(y) = Error => pc' = "exited" /\ answer' = answer
      /\ TidlistOf(y) # Error => pc' = pc /\ answer' = CountTids(TidlistOf(y))
      /\ db' = db /\ num_txn' = num_txn /\ support' = support
      /\ txn_id' = txn_id /\ tidlists' = tidlists
      /\ string' = string /\ cache' = cache
  BY DEF Frequency, inputs
<1>2. F' = F
  BY <1>1 DEF F
<1>3. y \in Seq(F) /\ y # <<>>
  BY InputAssumption DEF Vectors, BoundedSeq, SeqOf
<1>4. /\ num_txn \in Nat
      /\ \A k \in F : Fits(tidlists[k], num_txn)
      /\ \A k \in F : Denotes(tidlists[k]) = Tidset(db, {k})
  BY <1>1, ListsFit
<1>5. /\ TidlistOf(y) = Error \/ IsSound(TidlistOf(y))
      /\ Len(y) = 1 => /\ IsSound(TidlistOf(y))
                       /\ Denotes(TidlistOf(y)) = Denotes(tidlists[y[1]])
      /\ Len(y) = 2 => /\ IsSound(TidlistOf(y))
                       /\ Denotes(TidlistOf(y))
                            = Denotes(tidlists[y[1]]) \cap Denotes(tidlists[y[2]])
  BY <1>3, <1>4, TidlistOfSound
<1>6. IsSound(TidlistOf(y)) =>
        /\ TidlistOf(y) # Error
        /\ CountTids(TidlistOf(y)) = Cardinality(Denotes(TidlistOf(y)))
        /\ CountTids(TidlistOf(y)) \in Nat
  BY SoundParts, ListParts, CountTidsExact
<1>7. answer' \in Nat /\ pc' \in {"scan", "ready", "exited"} /\ asked' \in Seq(F)
  BY <1>1, <1>3, <1>5, <1>6 DEF IInv, TypeOK
<1>8. ASSUME Len(y) \in {1, 2} PROVE answer' = Support(db, ToSet(y))
  <2>1. IsSound(TidlistOf(y))
    BY <1>5, <1>8
  <2>2. Denotes(TidlistOf(y)) = Tidset(db, ToSet(y))
    <3>1. CASE Len(y) = 1
      <4>1. y[1] \in F /\ ToSet(y) = {y[1]}
        BY <1>3, <3>1 DEF ToSet
      <4> QED
        BY <1>4, <1>5, <3>1, <4>1
    <3>2. CASE Len(y) = 2
      <4>1. y[1] \in F /\ y[2] \in F /\ DOMAIN y = {1, 2}
        BY <1>3, <3>2
      <4>2. ToSet(y) = {y[1]} \cup {y[2]}
        BY <4>1 DEF ToSet
      <4>3. Tidset(db, {y[1]} \cup {y[2]}) = Tidset(db, {y[1]}) \cap Tidset(db, {y[2]})
        BY TidsetUnion
      <4>4. /\ Denotes(tidlists[y[1]]) = Tidset(db, {y[1]})
            /\ Denotes(tidlists[y[2]]) = Tidset(db, {y[2]})
        BY <1>4, <4>1
      <4> QED
        BY <1>5, <3>2, <4>2, <4>3, <4>4
    <3> QED
      BY <1>8, <3>1, <3>2
  <2>3. answer' = CountTids(TidlistOf(y))
    BY <1>1, <1>6, <2>1
  <2> QED
    BY <1>6, <2>1, <2>2, <2>3 DEF Support
<1>9. TypeOK'
  BY <1>1, <1>2, <1>7 DEF IInv, TypeOK
<1>10. ListsExact'
  BY <1>1, <1>2 DEF IInv, ListsExact
<1>11. PairFrequencyExact'
  BY <1>1, <1>8 DEF PairFrequencyExact
<1>12. SizesFit'
  BY <1>1, <1>2 DEF IInv, SizesFit, Sized
<1>13. ScanFirst'
  BY <1>1 DEF IInv, ScanFirst
<1> QED
  BY <1>9, <1>10, <1>11, <1>12, <1>13 DEF IInv

LEMMA NextInvariant ==
  ASSUME IInv, [Next]_vars
  PROVE  IInv'
<1>1. CASE UNCHANGED vars
  <2>1. F' = F
    BY <1>1 DEF vars, F
  <2> QED
    BY <1>1, <2>1
       DEF vars, IInv, TypeOK, ListsExact, PairFrequencyExact, SizesFit, Sized, ScanFirst
<1>2. ASSUME NEW k \in F, Descend(k) PROVE IInv'
  BY <1>2, DescendInvariant
<1>3. ASSUME NEW y \in Vectors, Frequency(y) PROVE IInv'
  BY <1>3, FrequencyInvariant
<1> QED
  BY <1>1, <1>2, <1>3, ScanInvariant, StartInvariant, BacktrackInvariant DEF Next

-----------------------------------------------------------------------------
(* The theorems.                                                           *)

\* The invariant of the database and its clients: Vertical_DB.cxx and
\* Trie::Walk_Tidlist on any strings of frequent items.
THEOREM Invariance == Spec => []IInv
<1>1. Init => IInv
  BY InitInvariant
<1>2. IInv /\ [Next]_vars => IInv'
  BY NextInvariant
<1> QED
  BY <1>1, <1>2, PTL DEF Spec

\* Every list stays a sound representation: tid vectors increase and bit
\* vectors have the words of their size, also in the unused lines of the cache.
THEOREM TypeCorrect == Spec => []TypeOK
<1>1. IInv => TypeOK
  BY DEF IInv
<1> QED
  BY <1>1, Invariance, PTL

\* The scan and the walks leave in each list the transactions it stands for:
\* Tid_List::add_transaction and the intersect with a result, in both
\* representations.
THEOREM TidlistsExact == Spec => []ListsExact
<1>1. IInv => ListsExact
  BY DEF IInv
<1> QED
  BY <1>1, Invariance, PTL

\* frequency() of one item or two is the support.
THEOREM PairFrequencies == Spec => []PairFrequencyExact
<1>1. IInv => PairFrequencyExact
  BY DEF IInv
<1> QED
  BY <1>1, Invariance, PTL

\* Tid_List::count_intersection gives discover() the support of each candidate.
THEOREM IntersectionCounts == Spec => []CountsExact
<1>1. ASSUME IInv PROVE CountsExact
  <2> SUFFICES ASSUME string # <<>>, NEW k \in F
               PROVE  CountIntersection(cache[Len(string)], tidlists[k])
                        = Support(db, ToSet(string) \cup {k})
    BY DEF CountsExact
  <2> DEFINE l == Len(string)
             a == cache[l]
             b == tidlists[k]
  <2>1. string \in Seq(F)
    BY <1>1 DEF IInv, TypeOK
  <2>2. l \in DOMAIN string /\ SubSeq(string, 1, l) = string
    BY <2>1, SubSeqFull
  <2>3. pc # "scan"
    BY <1>1 DEF IInv, ScanFirst
  <2>4. /\ num_txn \in Nat /\ Fits(a, num_txn) /\ Fits(b, num_txn)
        /\ Denotes(a) = Tidset(db, ToSet(string)) /\ Denotes(b) = Tidset(db, {k})
    BY <1>1, <2>2, <2>3, ListsFit DEF IInv, ListsExact
  <2> HIDE DEF a, b
  <2>5. CountIntersection(a, b) = Cardinality(Denotes(a) \cap Denotes(b))
    BY <2>4, IntersectMeets, ZenonT(40)
  <2>6. Denotes(a) \cap Denotes(b) = Tidset(db, ToSet(string) \cup {k})
    BY <2>4, TidsetUnion
  <2> QED
    BY <2>5, <2>6 DEF Support, a, b
<1> QED
  BY <1>1, Invariance, PTL

-----------------------------------------------------------------------------
(***************************************************************************)
(* reorder sorts every vector of every length under every count vector,    *)
(* and its scans stay in the ranges they partition.                        *)
(*                                                                         *)
(* The invariant looks at two positions whose elements stand in the wrong  *)
(* order for the running pass.  Either some range still to sort holds both *)
(* of them, or they belong to a later block.  Ranges do not overlap, so an *)
(* exchange within one cannot put a pair that reaches out of it in the     *)
(* wrong order, and when a range is split no pair reaches from one part    *)
(* into the other.                                                         *)
(***************************************************************************)

Partitioning == phase \in {"down", "up", "swap"}

Positions == 0 .. len - 1

\* Stays with the pivot in the left part, in the right part.
Low(t) == ~ Before(x, A[t])
High(t) == ~ Before(A[t], x)

Holds(R, m, n) == R.from <= m /\ n <= R.to

\* A range to be sorted holds both positions.
Covered(m, n) ==
  \/ \E s \in 1 .. Len(stack) : Holds(stack[s], m, n)
  \/ Partitioning /\ p <= m /\ n <= r

\* An element a that stands before b should come after it in this pass.
Misplaced(a, b) ==
  IF by = "count" THEN count[b] > count[a]
                  ELSE count[a] = count[b] /\ b < a

\* The element at m is for a later turn of the second pass to sort.
Postponed(m) ==
  /\ by = "index"
  /\ \/ phase \in {"block", "done"} /\ block <= m
     \/ /\ phase \notin {"block", "done"}
        /\ block < m
        /\ count[A[m]] # count[A[block]]

PassInv ==
  /\ phase \in {"block", "done"} => by = "index" /\ stack = << >>
  /\ by = "index" /\ phase \notin {"block", "done"} => block < len - 1
  /\ phase = "done" => block >= len - 1
  /\ by = "count" => block = 0

StackInv ==
  /\ \A s, t \in 1 .. Len(stack) : s < t => stack[s].to < stack[t].from
  /\ Partitioning => \A s \in 1 .. Len(stack) : r < stack[s].from

MisplacedInv ==
  \A m, n \in Positions :
    m < n /\ Misplaced(A[m], A[n]) => Covered(m, n) \/ Postponed(m)

BlockInv ==
  by = "index" =>
    /\ \A m \in Positions :
         Covered(m, m) => block <= m /\ count[A[m]] = count[A[block]]
    /\ \A m, n \in Positions : m < n => count[A[m]] >= count[A[n]]

ScanInv ==
  /\ Partitioning =>
       /\ 0 <= p /\ p < r /\ r < len
       /\ x \in Item
       /\ p - 1 <= i /\ j <= r + 1
  /\ phase = "down" =>
       /\ \A t \in p .. i : Low(t)
       /\ \A t \in j .. r : High(t)
       /\ \E t \in p .. j - 1 : Low(t)
       /\ i < j
       /\ (i = p - 1 /\ A[p] = x) \/ j <= r
  /\ phase = "up" =>
       /\ p <= j /\ j <= r
       /\ \A t \in p .. i : Low(t)
       /\ \A t \in j + 1 .. r : High(t)
       /\ Low(j)
       /\ \E t \in i + 1 .. r : High(t)
       /\ (i = p - 1 /\ A[p] = x) \/ j < r
  /\ phase = "swap" =>
       /\ p <= j /\ j <= r
       /\ p <= i /\ i <= r
       /\ \A t \in p .. i - 1 : Low(t)
       /\ \A t \in j + 1 .. r : High(t)
       /\ Low(j)
       /\ High(i)
       /\ i = p \/ j < r

SortInv ==
  /\ SortTypeOK
  /\ PassInv
  /\ StackInv
  /\ MisplacedInv
  /\ BlockInv
  /\ ScanInv
  /\ Rearranged(A, input)
-----------------------------------------------------------------------------

\* Items are numbers and so are their counts.
LEMMA Values ==
  ASSUME SortTypeOK
  PROVE  /\ \A t \in Positions : A[t] \in Item
         /\ \A a \in Item : a \in Nat /\ count[a] \in Nat
BY SizesAssumption DEF SortTypeOK, Vector, Positions, Item

\* What belongs before something does not belong after it.
LEMMA OneBefore ==
  ASSUME SortTypeOK, NEW a \in Item, NEW b \in Item, Before(a, b)
  PROVE  ~ Before(b, a)
BY Values DEF Before

\* An element of the left part is not misplaced before one of the right part.
LEMMA Divided ==
  ASSUME SortTypeOK, x \in Item, NEW m \in Positions, NEW n \in Positions,
         Low(m), High(n)
  PROVE  ~ Misplaced(A[m], A[n])
BY Values DEF Low, High, Before, Misplaced, SortTypeOK

LEMMA HeadAndTail ==
  ASSUME NEW T, NEW q \in Seq(T), q # << >>
  PROVE  /\ Head(q) = q[1] /\ Head(q) \in T
         /\ Tail(q) \in Seq(T)
         /\ Len(q) \in Nat /\ Len(q) > 0
         /\ Len(Tail(q)) = Len(q) - 1
         /\ \A s \in 1 .. Len(q) - 1 : Tail(q)[s] = q[s + 1]
<1>1. Len(q) \in Nat /\ Len(q) > 0
  OBVIOUS
<1>2. Head(q) = q[1] /\ Head(q) \in T
  BY <1>1
<1>3. Tail(q) \in Seq(T)
  OBVIOUS
<1>4. Len(Tail(q)) = Len(q) - 1
  BY <1>1
<1>5. \A s \in 1 .. Len(q) - 1 : Tail(q)[s] = q[s + 1]
  BY <1>1
<1> QED
  BY <1>1, <1>2, <1>3, <1>4, <1>5

\* The top of the stack and what is below it.
LEMMA TopOfStack ==
  ASSUME SortTypeOK, stack # << >>
  PROVE  /\ Head(stack) = stack[1]
         /\ Head(stack) \in [from : 0 .. len, to : -1 .. len - 1]
         /\ 1 \in 1 .. Len(stack)
         /\ Tail(stack) \in Seq([from : 0 .. len, to : -1 .. len - 1])
         /\ Len(Tail(stack)) = Len(stack) - 1
         /\ Len(stack) \in Nat
         /\ \A s \in 1 .. Len(stack) - 1 : Tail(stack)[s] = stack[s + 1]
<1>1. stack \in Seq([from : 0 .. len, to : -1 .. len - 1])
  BY DEF SortTypeOK
<1> HIDE DEF SortTypeOK
<1>2. Len(stack) \in Nat /\ Len(stack) > 0
  BY <1>1, HeadAndTail
<1>3. 1 \in 1 .. Len(stack)
  BY <1>2
<1> QED
  BY <1>1, <1>3, HeadAndTail

LEMMA Elements ==
  ASSUME NEW T, NEW q \in Seq(T), NEW s \in 1 .. Len(q)
  PROVE  q[s] \in T
OBVIOUS

LEMMA Ranges ==
  ASSUME SortTypeOK, NEW s \in 1 .. Len(stack)
  PROVE  /\ stack[s] \in [from : 0 .. len, to : -1 .. len - 1]
         /\ stack[s].from \in Int /\ stack[s].to \in Int
         /\ 0 <= stack[s].from /\ stack[s].to < len
<1>1. stack \in Seq([from : 0 .. len, to : -1 .. len - 1]) /\ len \in Nat
  BY DEF SortTypeOK
<1> HIDE DEF SortTypeOK
<1>2. stack[s] \in [from : 0 .. len, to : -1 .. len - 1]
  BY <1>1, Elements
<1> QED
  BY <1>1, <1>2

\* Popping a range that holds no two positions uncovers none.
LEMMA SortTrivialStep ==
  ASSUME SortInv, SortTrivial
  PROVE  SortInv'
<1> USE DEF SortTrivial, given, range
<1>1. SortTypeOK'
  BY TopOfStack DEF SortInv, SortTypeOK, Vector
<1>2. PassInv'
  BY DEF SortInv, PassInv
<1>3. StackInv'
  BY TopOfStack DEF SortInv, StackInv, Partitioning
<1>4. ASSUME NEW m \in Positions, NEW n \in Positions, m < n, Covered(m, n)
      PROVE  Covered(m, n)'
  <2>1. PICK s \in 1 .. Len(stack) : Holds(stack[s], m, n)
    BY <1>4 DEF Covered, Partitioning
  <2>2. s # 1
    BY <2>1, <1>4, TopOfStack DEF Holds, Positions, SortInv, SortTypeOK
  <2>3. s - 1 \in 1 .. Len(stack') /\ stack'[s - 1] = stack[s]
    BY <2>1, <2>2, TopOfStack DEF SortInv
  <2> QED
    BY <2>1, <2>3 DEF Covered, Holds
<1>5. MisplacedInv'
  <2> SUFFICES ASSUME NEW m \in Positions', NEW n \in Positions',
                      m < n, Misplaced(A[m], A[n])'
               PROVE  Covered(m, n)' \/ Postponed(m)'
    BY DEF MisplacedInv
  <2>1. Covered(m, n) \/ Postponed(m)
    BY DEF SortInv, MisplacedInv, Misplaced, Positions
  <2>2. Postponed(m) => Postponed(m)'
    BY DEF Postponed
  <2> QED
    BY <2>1, <2>2, <1>4 DEF Positions
<1>6. ASSUME NEW m \in Positions, Covered(m, m)'
      PROVE  Covered(m, m)
  <2>1. PICK s \in 1 .. Len(stack') : Holds(stack'[s], m, m)
    BY <1>6 DEF Covered, Partitioning
  <2>2. s + 1 \in 1 .. Len(stack) /\ stack[s + 1] = stack'[s]
    BY <2>1, TopOfStack DEF SortInv
  <2> QED
    BY <2>1, <2>2 DEF Covered, Holds
<1>7. BlockInv'
  BY <1>6 DEF SortInv, BlockInv, Positions
<1>8. ScanInv'
  BY DEF ScanInv, Partitioning
<1>9. Rearranged(A, input)'
  BY DEF SortInv, Rearranged, Shuffles
<1> QED
  BY <1>1, <1>2, <1>3, <1>5, <1>7, <1>8, <1>9 DEF SortInv

\* The range popped is the one partitioned: what it held it still holds.
LEMMA StartPartitionStep ==
  ASSUME SortInv, StartPartition
  PROVE  SortInv'
<1> USE DEF StartPartition, given
<1>0. /\ Head(stack) = stack[1]
      /\ stack[1] \in [from : 0 .. len, to : -1 .. len - 1]
      /\ 1 \in 1 .. Len(stack)
      /\ stack' = Tail(stack)
      /\ stack' \in Seq([from : 0 .. len, to : -1 .. len - 1])
      /\ Len(stack') = Len(stack) - 1
      /\ Len(stack) \in Nat
      /\ \A s \in 1 .. Len(stack) - 1 : stack'[s] = stack[s + 1]
  BY TopOfStack DEF SortInv
<1>1. /\ p' \in Int /\ r' \in Int /\ 0 <= p' /\ p' < r' /\ r' < len
      /\ x' = A[p'] /\ i' = p' - 1 /\ j' = r' + 1
      /\ p' = stack[1].from /\ r' = stack[1].to
      /\ p' \in Positions /\ len \in Nat
  BY <1>0 DEF SortInv, SortTypeOK, Positions
<1>2. SortTypeOK'
  <2>1. stack' \in Seq([from : 0 .. len', to : -1 .. len' - 1])
    BY <1>0
  <2>2. /\ p' \in 0 .. len' /\ r' \in -1 .. len' - 1
        /\ i' \in -1 .. len' /\ j' \in -1 .. len'
    <3>1. len' = len
      OBVIOUS
    <3>2. \A a, b, n \in Int :
            0 <= a /\ a < b /\ b < n =>
              /\ a \in 0 .. n /\ b \in -1 .. n - 1
              /\ a - 1 \in -1 .. n /\ b + 1 \in -1 .. n
      OBVIOUS
    <3>3. len \in Int
      BY <1>1
    <3> QED
      BY <1>1, <3>1, <3>2, <3>3
  <2> QED
    BY <2>1, <2>2 DEF SortInv, SortTypeOK, Vector
<1>3. PassInv'
  BY DEF SortInv, PassInv
<1>4. StackInv'
  <2>1. \A s, t \in 1 .. Len(stack) : s < t => stack[s].to < stack[t].from
    BY DEF SortInv, StackInv
  <2>2. \A s, t \in 1 .. Len(stack') : s < t => stack'[s].to < stack'[t].from
    BY <1>0, <2>1
  <2>3. \A s \in 1 .. Len(stack') : r' < stack'[s].from
    BY <1>0, <1>1, <2>1
  <2> QED
    BY <2>2, <2>3 DEF StackInv
<1>5. ASSUME NEW m \in Positions, NEW n \in Positions, Covered(m, n)
      PROVE  Covered(m, n)'
  <2>1. PICK s \in 1 .. Len(stack) : Holds(stack[s], m, n)
    BY <1>5 DEF Covered, Partitioning
  <2>2. CASE s = 1
    BY <2>1, <2>2, <1>1 DEF Covered, Partitioning, Holds
  <2>3. CASE s # 1
    <3>1. s - 1 \in 1 .. Len(stack') /\ stack'[s - 1] = stack[s]
      BY <2>1, <2>3, TopOfStack DEF SortInv
    <3> QED
      BY <2>1, <3>1 DEF Covered, Holds
  <2> QED
    BY <2>2, <2>3
<1>6. MisplacedInv'
  <2> SUFFICES ASSUME NEW m \in Positions', NEW n \in Positions',
                      m < n, Misplaced(A[m], A[n])'
               PROVE  Covered(m, n)' \/ Postponed(m)'
    BY DEF MisplacedInv
  <2>1. Covered(m, n) \/ Postponed(m)
    BY DEF SortInv, MisplacedInv, Misplaced, Positions
  <2>2. Postponed(m) => Postponed(m)'
    BY DEF Postponed
  <2> QED
    BY <2>1, <2>2, <1>5 DEF Positions
<1>7. ASSUME NEW m \in Positions, Covered(m, m)'
      PROVE  Covered(m, m)
  <2>1. CASE \E s \in 1 .. Len(stack') : Holds(stack'[s], m, m)
    <3>1. PICK s \in 1 .. Len(stack') : Holds(stack'[s], m, m)
      BY <2>1
    <3>2. s + 1 \in 1 .. Len(stack) /\ stack[s + 1] = stack'[s]
      BY <1>0, <3>1
    <3> QED
      BY <3>1, <3>2 DEF Covered, Holds
  <2>2. CASE p' <= m /\ m <= r'
    BY <2>2, <1>1, TopOfStack DEF Covered, Holds, SortInv
  <2> QED
    BY <1>7, <2>1, <2>2 DEF Covered
<1>8. BlockInv'
  BY <1>7 DEF SortInv, BlockInv, Positions
<1>9. ScanInv'
  <2>1. x' \in Item
    BY <1>1, Values DEF SortInv
  <2>2. ~ Before(x, A[p])'
    <3>1. x' \in Nat /\ count[x'] \in Nat
      BY <2>1, Values DEF SortInv
    <3> QED
      BY <1>1, <3>1 DEF Before
  <2>3. \E t \in p' .. j' - 1 : Low(t)'
    <3>1. p' \in p' .. j' - 1
      BY <1>1
    <3> QED
      BY <2>2, <3>1 DEF Low, Before
  <2>4. p' .. i' = {} /\ j' .. r' = {} /\ A'[p'] = x'
    BY <1>1
  <2>5. /\ 0 <= p' /\ p' < r' /\ r' < len' /\ p' - 1 <= i' /\ j' <= r' + 1
        /\ i' < j' /\ i' = p' - 1 /\ phase' = "down"
    BY <1>1
  <2>6. Partitioning' =>
          /\ 0 <= p' /\ p' < r' /\ r' < len'
          /\ x' \in Item
          /\ p' - 1 <= i' /\ j' <= r' + 1
    BY <2>1, <2>5
  <2> QED
    BY <2>3, <2>4, <2>5, <2>6 DEF ScanInv
<1>10. Rearranged(A, input)'
  BY DEF SortInv, Rearranged, Shuffles
<1> QED
  BY <1>2, <1>3, <1>4, <1>6, <1>8, <1>9, <1>10 DEF SortInv

\* What a scan leaves alone.
LEMMA ScanKeeps ==
  ASSUME SortInv, Partitioning, Partitioning',
         UNCHANGED <<given, A, by, block, stack, range>>
  PROVE  /\ PassInv'
         /\ StackInv'
         /\ MisplacedInv'
         /\ BlockInv'
         /\ Rearranged(A, input)'
<1> USE DEF given, range
<1>1. PassInv'
  BY DEF SortInv, PassInv, Partitioning
<1>2. StackInv'
  BY DEF SortInv, StackInv
<1>3. \A m, n : Covered(m, n)' <=> Covered(m, n)
  BY DEF Covered, Holds
<1>4. \A m : Postponed(m) => Postponed(m)'
  BY DEF Postponed, Partitioning
<1>5. MisplacedInv'
  BY <1>3, <1>4 DEF SortInv, MisplacedInv, Misplaced, Positions
<1>6. BlockInv'
  BY <1>3 DEF SortInv, BlockInv, Positions
<1>7. Rearranged(A, input)'
  BY DEF SortInv, Rearranged, Shuffles
<1> QED
  BY <1>1, <1>2, <1>5, <1>6, <1>7

\* An element of the left part, or the pivot, stops the scan from above.
LEMMA ScanDownStep ==
  ASSUME SortInv, ScanDown
  PROVE  SortInv'
<1> USE DEF ScanDown, given, range
<1>1. /\ p \in Nat /\ r \in Int /\ i \in Int /\ j \in Int /\ len \in Nat
      /\ 0 <= p /\ p < r /\ r < len /\ x \in Item
      /\ p - 1 <= i /\ j <= r + 1 /\ i < j
  BY DEF SortInv, SortTypeOK, ScanInv, Partitioning
<1>2. PICK s \in p .. j - 1 : Low(s)
  BY DEF SortInv, ScanInv
<1>3. j - 1 \in Positions /\ p <= j - 1 /\ j - 1 <= r
  BY <1>1, <1>2 DEF Positions
<1>4. SortTypeOK'
  BY <1>1, <1>3 DEF SortInv, SortTypeOK, Vector, Positions
<1>5. /\ \A t : Low(t)' <=> Low(t)
      /\ \A t : High(t)' <=> High(t)
  BY DEF Low, High, Before
<1>6. CASE Before(x, A[j - 1])
  <2>1. High(j - 1)
    BY <1>1, <1>3, <1>6, OneBefore, Values DEF High, SortInv
  <2>2. s # j - 1
    BY <1>2, <1>6 DEF Low
  <2>3. i # j - 1
    BY <1>1, <1>3, <1>6 DEF Low, SortInv, ScanInv
  <2>4. (i = p - 1 /\ A[p] = x) \/ j - 1 <= r
    BY <1>3
  <2> QED
    BY <1>1, <1>2, <1>3, <1>4, <1>5, <1>6, <2>1, <2>2, <2>3, ScanKeeps
       DEF SortInv, ScanInv, Partitioning
<1>7. CASE ~ Before(x, A[j - 1])
  <2>1. Low(j - 1)
    BY <1>7 DEF Low
  <2>2. \E t \in i + 1 .. r : High(t)
    <3>1. CASE i = p - 1 /\ A[p] = x
      BY <1>1, <3>1, Values DEF High, Before, SortInv
    <3>2. CASE j <= r
      BY <1>1, <3>2 DEF SortInv, ScanInv
    <3> QED
      BY <3>1, <3>2 DEF SortInv, ScanInv
  <2>3. (i = p - 1 /\ A[p] = x) \/ j - 1 < r
    BY <1>1 DEF SortInv, ScanInv
  <2> QED
    BY <1>1, <1>3, <1>4, <1>5, <1>7, <2>1, <2>2, <2>3, ScanKeeps
       DEF SortInv, ScanInv, Partitioning
<1> QED
  BY <1>6, <1>7

\* An element of the right part, or the pivot, stops the scan from below.
LEMMA ScanUpStep ==
  ASSUME SortInv, ScanUp
  PROVE  SortInv'
<1> USE DEF ScanUp, given, range
<1>1. /\ p \in Nat /\ r \in Int /\ i \in Int /\ j \in Int /\ len \in Nat
      /\ 0 <= p /\ p < r /\ r < len /\ x \in Item
      /\ p - 1 <= i /\ p <= j /\ j <= r /\ Low(j)
  BY DEF SortInv, SortTypeOK, ScanInv, Partitioning
<1>2. PICK s \in i + 1 .. r : High(s)
  BY DEF SortInv, ScanInv
<1>3. i + 1 \in Positions /\ p <= i + 1 /\ i + 1 <= r
  BY <1>1, <1>2 DEF Positions
<1>4. SortTypeOK'
  BY <1>1, <1>3 DEF SortInv, SortTypeOK, Vector, Positions
<1>5. /\ \A t : Low(t)' <=> Low(t)
      /\ \A t : High(t)' <=> High(t)
  BY DEF Low, High, Before
<1>6. CASE Before(A[i + 1], x)
  <2>1. Low(i + 1)
    BY <1>1, <1>3, <1>6, OneBefore, Values DEF Low, SortInv
  <2>2. s # i + 1
    BY <1>2, <1>6 DEF High
  <2>3. j < r
    <3>1. CASE i = p - 1 /\ A[p] = x
      <4>1. Before(x, x)
        BY <1>1, <1>6, <3>1
      <4> QED
        BY <1>1, <4>1, OneBefore DEF SortInv
    <3> QED
      BY <3>1 DEF SortInv, ScanInv
  <2> QED
    BY <1>1, <1>2, <1>3, <1>4, <1>5, <1>6, <2>1, <2>2, <2>3, ScanKeeps
       DEF SortInv, ScanInv, Partitioning
<1>7. CASE ~ Before(A[i + 1], x)
  <2>1. High(i + 1)
    BY <1>7 DEF High
  <2>2. i + 1 = p \/ j < r
    BY <1>1 DEF SortInv, ScanInv
  <2> QED
    BY <1>1, <1>3, <1>4, <1>5, <1>7, <2>1, <2>2, ScanKeeps
       DEF SortInv, ScanInv, Partitioning
<1> QED
  BY <1>6, <1>7

\* Exchanging two elements rearranges a vector.
LEMMA SwapRearranges ==
  ASSUME SortTypeOK, Rearranged(A, input),
         NEW m \in Positions, NEW n \in Positions
  PROVE  Rearranged(Swap(A, m, n), input)
<1>1. PICK f \in Shuffles : \A t \in Positions : A[t] = input[f[t]]
  BY DEF Rearranged, Positions
<1>2. f \in [Positions -> Positions]
      /\ \A s, t \in Positions : f[s] = f[t] => s = t
  BY DEF Shuffles, Positions
<1> DEFINE g == Swap(f, m, n)
<1>3. g \in [Positions -> Positions]
  BY <1>2 DEF Swap
<1>4. \A s, t \in Positions : g[s] = g[t] => s = t
  BY <1>2 DEF Swap
<1>5. \A t \in Positions : Swap(A, m, n)[t] = input[g[t]]
  BY <1>1, <1>2 DEF Swap, SortTypeOK, Vector, Positions
<1> HIDE DEF g
<1> QED
  BY <1>3, <1>4, <1>5 DEF Rearranged, Shuffles, Positions

(***************************************************************************)
(* A pair that reaches out of the range is in the right order whichever    *)
(* elements of the range an exchange puts there.                           *)
(***************************************************************************)
LEMMA ExchangeStep ==
  ASSUME SortInv, Exchange
  PROVE  SortInv'
<1> USE DEF Exchange, given, range
<1>1. /\ p \in Nat /\ r \in Int /\ i \in Int /\ j \in Int /\ len \in Nat
      /\ p <= i /\ i < j /\ j <= r /\ r < len /\ x \in Item
      /\ Low(j) /\ High(i)
      /\ i \in Positions /\ j \in Positions
  BY DEF SortInv, SortTypeOK, ScanInv, Partitioning, Positions
<1>2. \A t \in Positions :
        A'[t] = IF t = i THEN A[j] ELSE IF t = j THEN A[i] ELSE A[t]
  BY <1>1 DEF Swap, SortInv, SortTypeOK, Vector, Positions
<1>3. /\ \A t \in p .. r : \E u \in p .. r : A'[t] = A[u]
      /\ \A t \in Positions \ (p .. r) : A'[t] = A[t]
      /\ p .. r \subseteq Positions
  BY <1>1, <1>2 DEF Positions
<1>4. SortTypeOK'
  BY <1>1, Values DEF SortInv, SortTypeOK, Vector, Swap, Positions
<1>5. PassInv' /\ StackInv'
  BY DEF SortInv, PassInv, StackInv, Partitioning
<1>6. \A m, n : Covered(m, n)' <=> Covered(m, n)
  BY DEF Covered, Holds, Partitioning
<1>7. \A t \in p .. r : Covered(t, t)
  BY <1>1 DEF Covered, Partitioning
<1>8. ASSUME by = "index"
      PROVE  /\ \A t \in Positions : count[A'[t]] = count[A[t]]
             /\ block \in Positions
             /\ \A t \in p .. r : block <= t /\ count[A[t]] = count[A[block]]
  <2>1. block \in Positions
    BY <1>8, <1>1 DEF SortInv, SortTypeOK, PassInv, Positions
  <2>2. \A t \in p .. r : block <= t /\ count[A[t]] = count[A[block]]
    BY <1>8, <1>7, <1>3 DEF SortInv, BlockInv
  <2>3. \A t \in Positions : count[A'[t]] = count[A[t]]
    BY <2>2, <1>1, <1>2
  <2> QED
    BY <2>1, <2>2, <2>3
<1>9. \A m \in Positions : Postponed(m) => Postponed(m)'
  BY <1>8 DEF Postponed, Partitioning
<1>10. ASSUME NEW m \in Positions, NEW n \in Positions, m < n,
              m < p, n \in p .. r, Covered(m, n)
       PROVE  FALSE
  <2>1. PICK s \in 1 .. Len(stack) : stack[s].from <= m /\ n <= stack[s].to
    BY <1>1, <1>10 DEF Covered, Holds, Positions
  <2>2. r < stack[s].from /\ stack[s].from \in Int
    BY <2>1, Ranges DEF SortInv, StackInv, Partitioning
  <2> QED
    BY <1>1, <1>10, <2>1, <2>2 DEF Positions
<1>11. ASSUME NEW m \in Positions, NEW n \in Positions, m < n,
              m \in p .. r, n > r, Covered(m, n)
       PROVE  FALSE
  <2>1. PICK s \in 1 .. Len(stack) : stack[s].from <= m /\ n <= stack[s].to
    BY <1>1, <1>11 DEF Covered, Holds, Positions
  <2>2. r < stack[s].from /\ stack[s].from \in Int
    BY <2>1, Ranges DEF SortInv, StackInv, Partitioning
  <2> QED
    BY <1>1, <1>11, <2>1, <2>2 DEF Positions
<1>12. MisplacedInv'
  <2> SUFFICES ASSUME NEW m \in Positions, NEW n \in Positions, m < n,
                      Misplaced(A[m], A[n])'
               PROVE  Covered(m, n) \/ Postponed(m)
    BY <1>6, <1>9 DEF MisplacedInv, Positions
  <2>0. m \in Int /\ n \in Int
    BY DEF Positions
  <2>1. CASE m \in p .. r /\ n \in p .. r
    BY <2>1, <1>1 DEF Covered, Partitioning
  <2>2. CASE m \notin p .. r /\ n \notin p .. r
    BY <2>2, <1>3 DEF SortInv, MisplacedInv, Misplaced
  <2>3. CASE m \notin p .. r /\ n \in p .. r
    <3>1. PICK u \in p .. r : A'[n] = A[u]
      BY <2>3, <1>3
    <3>2. m < p /\ m < u /\ u \in Positions
      BY <2>0, <2>3, <3>1, <1>1, <1>3
    <3>3. Misplaced(A[m], A[u])
      BY <2>3, <3>1, <1>3 DEF Misplaced
    <3>4. ~ Covered(m, u)
      BY <3>1, <3>2, <1>10
    <3> QED
      BY <3>2, <3>3, <3>4 DEF SortInv, MisplacedInv
  <2>4. CASE m \in p .. r /\ n \notin p .. r
    <3>1. PICK u \in p .. r : A'[m] = A[u]
      BY <2>4, <1>3
    <3>2. n > r /\ u < n /\ u \in Positions
      BY <2>0, <2>4, <3>1, <1>1, <1>3
    <3>3. Misplaced(A[u], A[n])
      BY <2>4, <3>1, <1>3 DEF Misplaced
    <3>4. ~ Covered(u, n)
      BY <3>1, <3>2, <1>11
    <3>5. Postponed(u)
      BY <3>2, <3>3, <3>4 DEF SortInv, MisplacedInv
    <3> QED
      BY <3>1, <3>5, <1>8 DEF Postponed
  <2> QED
    BY <2>1, <2>2, <2>3, <2>4
<1>13. BlockInv'
  BY <1>6, <1>8 DEF SortInv, BlockInv, Positions
<1>14. ScanInv'
  <2>1. /\ \A t \in p .. i - 1 : Low(t)
        /\ \A t \in j + 1 .. r : High(t)
    BY DEF SortInv, ScanInv
  <2>2. \A t \in p .. i : Low(t)'
    BY <1>1, <1>2, <2>1 DEF Low, Before, Positions
  <2>3. \A t \in j .. r : High(t)'
    BY <1>1, <1>2, <2>1 DEF High, Before, Positions
  <2>4. \E t \in p .. j - 1 : Low(t)'
    BY <1>1, <2>2
  <2> QED
    BY <1>1, <2>2, <2>3, <2>4 DEF ScanInv, Partitioning
<1>15. Rearranged(A, input)'
  <2>1. Rearranged(Swap(A, i, j), input)
    BY <1>1, SwapRearranges DEF SortInv
  <2> QED
    BY <2>1 DEF Rearranged, Shuffles
<1> QED
  BY <1>4, <1>5, <1>12, <1>13, <1>14, <1>15 DEF SortInv

LEMMA Pushed ==
  ASSUME NEW T, NEW q \in Seq(T), NEW a \in T, NEW b \in T,
         NEW s, s = <<a, b>> \o q
  PROVE  /\ s \in Seq(T)
         /\ Len(q) \in Nat
         /\ Len(s) = Len(q) + 2
         /\ s[1] = a /\ s[2] = b
         /\ \A n \in 1 .. Len(q) : s[n + 2] = q[n]
         /\ \A n \in 3 .. Len(s) : n - 2 \in 1 .. Len(q) /\ s[n] = q[n - 2]
<1>1. Len(q) \in Nat /\ <<a, b>> \in Seq(T) /\ Len(<<a, b>>) = 2
  OBVIOUS
<1>2. s \in Seq(T)
  BY <1>1
<1>3. Len(s) = Len(q) + 2
  BY <1>1
<1>4. s[1] = a /\ s[2] = b
  BY <1>1
<1>5. \A n \in 1 .. Len(q) : s[n + 2] = q[n]
  BY <1>1
<1>6. ASSUME NEW n \in 3 .. Len(s)
      PROVE  n - 2 \in 1 .. Len(q) /\ s[n] = q[n - 2]
  <2>1. n - 2 \in 1 .. Len(q)
    BY <1>1, <1>3
  <2>2. s[(n - 2) + 2] = q[n - 2]
    BY <1>5, <2>1
  <2> QED
    BY <2>1, <2>2
<1> QED
  BY <1>1, <1>2, <1>3, <1>4, <1>5, <1>6

\* No pair reaches from one part of the range into the other.
LEMMA SplitStep ==
  ASSUME SortInv, Split
  PROVE  SortInv'
<1> USE DEF Split, given, range
<1>1. /\ p \in Nat /\ r \in Int /\ i \in Int /\ j \in Int /\ len \in Nat
      /\ 0 <= p /\ p <= j /\ j < r /\ r < len /\ x \in Item
      /\ i >= j
      /\ Low(j)
      /\ \A t \in p .. i - 1 : Low(t)
      /\ \A t \in j + 1 .. r : High(t)
  BY DEF SortInv, SortTypeOK, ScanInv, Partitioning
<1>2. \A t \in p .. j : Low(t)
  BY <1>1
<1>3. /\ stack' \in Seq([from : 0 .. len, to : -1 .. len - 1])
      /\ Len(stack) \in Nat
      /\ Len(stack') = Len(stack) + 2
      /\ stack'[1] = Span(p, j) /\ stack'[2] = Span(j + 1, r)
      /\ \A n \in 1 .. Len(stack) : stack'[n + 2] = stack[n]
      /\ \A n \in 3 .. Len(stack') :
           n - 2 \in 1 .. Len(stack) /\ stack'[n] = stack[n - 2]
  <2>1. stack \in Seq([from : 0 .. len, to : -1 .. len - 1])
    BY DEF SortInv, SortTypeOK
  <2>2. /\ Span(p, j) \in [from : 0 .. len, to : -1 .. len - 1]
        /\ Span(j + 1, r) \in [from : 0 .. len, to : -1 .. len - 1]
    BY <1>1 DEF Span
  <2>3. stack' = <<Span(p, j), Span(j + 1, r)>> \o stack
    OBVIOUS
  <2> QED
    BY <2>1, <2>2, <2>3, Pushed
<1>4. SortTypeOK'
  BY <1>3 DEF SortInv, SortTypeOK, Vector
<1>5. PassInv'
  BY DEF SortInv, PassInv
<1>6. StackInv'
  <2> SUFFICES ASSUME NEW s \in 1 .. Len(stack'), NEW t \in 1 .. Len(stack'),
                      s < t
               PROVE  stack'[s].to < stack'[t].from
    BY DEF StackInv, Partitioning
  <2>1. \A n \in 1 .. Len(stack) : r < stack[n].from /\ stack[n].from \in Int
    BY Ranges DEF SortInv, StackInv, Partitioning
  <2>2. CASE s = 1 /\ t = 2
    BY <2>2, <1>1, <1>3 DEF Span
  <2>3. CASE s \in {1, 2} /\ t > 2
    <3>1. t - 2 \in 1 .. Len(stack) /\ stack'[t] = stack[t - 2]
      BY <2>3, <1>3
    <3> QED
      <4>1. stack'[s].to \in {j, r}
        <5>1. Span(p, j).to = j /\ Span(j + 1, r).to = r
          BY DEF Span
        <5> QED
          BY <2>3, <1>3, <5>1
      <4>2. r < stack'[t].from /\ stack'[t].from \in Int
        BY <2>1, <3>1
      <4>3. \A a \in {j, r}, b \in Int : r < b => a < b
        BY <1>1
      <4> QED
        BY <4>1, <4>2, <4>3
  <2>4. CASE s > 2
    <3>1. /\ t - 2 \in 1 .. Len(stack) /\ stack'[t] = stack[t - 2]
          /\ s - 2 \in 1 .. Len(stack) /\ stack'[s] = stack[s - 2]
      BY <2>4, <1>3
    <3>2. \A a, b \in 1 .. Len(stack) : a < b => stack[a].to < stack[b].from
      BY DEF SortInv, StackInv
    <3>3. s - 2 < t - 2
      OBVIOUS
    <3> QED
      BY <3>1, <3>2, <3>3
  <2> QED
    BY <2>2, <2>3, <2>4
<1>7. ASSUME NEW m \in Positions, NEW n \in Positions, m < n, Covered(m, n),
             Misplaced(A[m], A[n])
      PROVE  Covered(m, n)'
  <2>1. CASE \E s \in 1 .. Len(stack) : Holds(stack[s], m, n)
    <3>1. PICK s \in 1 .. Len(stack) : Holds(stack[s], m, n)
      BY <2>1
    <3>2. s + 2 \in 1 .. Len(stack') /\ stack'[s + 2] = stack[s]
      BY <1>3
    <3> QED
      BY <3>1, <3>2 DEF Covered, Holds
  <2>2. CASE p <= m /\ n <= r
    <3>1. ~ (m <= j /\ j < n)
      <4> SUFFICES ASSUME m <= j, j < n
                   PROVE  FALSE
        OBVIOUS
      <4>1. Low(m) /\ High(n)
        BY <2>2, <1>1, <1>2 DEF Positions
      <4> QED
        BY <4>1, <1>1, <1>7, Divided DEF SortInv
    <3>2. CASE n <= j
      <4>1. Holds(stack'[1], m, n)
        BY <2>2, <3>2, <1>3 DEF Holds, Span
      <4>2. 1 \in 1 .. Len(stack')
        BY <1>3
      <4> QED
        BY <4>1, <4>2 DEF Covered, Holds
    <3>3. CASE j < m
      <4>1. Holds(stack'[2], m, n)
        BY <2>2, <3>3, <1>1, <1>3 DEF Holds, Span, Positions
      <4>2. 2 \in 1 .. Len(stack')
        BY <1>3
      <4> QED
        BY <4>1, <4>2 DEF Covered, Holds
    <3> QED
      BY <3>1, <3>2, <3>3, <1>1 DEF Positions
  <2> QED
    BY <1>7, <2>1, <2>2 DEF Covered
<1>8. MisplacedInv'
  <2> SUFFICES ASSUME NEW m \in Positions', NEW n \in Positions', m < n,
                      Misplaced(A[m], A[n])'
               PROVE  Covered(m, n)' \/ Postponed(m)'
    BY DEF MisplacedInv
  <2>1. m \in Positions /\ n \in Positions /\ Misplaced(A[m], A[n])
    BY DEF Misplaced, Positions
  <2>2. Covered(m, n) \/ Postponed(m)
    BY <2>1 DEF SortInv, MisplacedInv
  <2>3. Postponed(m) => Postponed(m)'
    BY DEF Postponed
  <2> QED
    BY <2>1, <2>2, <2>3, <1>7
<1>9. ASSUME NEW m \in Positions, Covered(m, m)'
      PROVE  Covered(m, m)
  <2>1. PICK s \in 1 .. Len(stack') : Holds(stack'[s], m, m)
    BY <1>9 DEF Covered, Partitioning, Holds
  <2>2. CASE s \in {1, 2}
    <3>1. p <= m /\ m <= r
      BY <2>1, <2>2, <1>1, <1>3 DEF Holds, Span, Positions
    <3> QED
      BY <3>1 DEF Covered, Partitioning
  <2>3. CASE s > 2
    <3>1. s - 2 \in 1 .. Len(stack) /\ stack'[s] = stack[s - 2]
      BY <2>3, <1>3
    <3> QED
      BY <2>1, <3>1 DEF Covered, Holds
  <2> QED
    BY <2>2, <2>3, <1>3
<1>10. BlockInv'
  BY <1>9 DEF SortInv, BlockInv, Positions
<1>11. ScanInv'
  BY DEF ScanInv, Partitioning
<1>12. Rearranged(A, input)'
  BY DEF SortInv, Rearranged, Shuffles
<1> QED
  BY <1>4, <1>5, <1>6, <1>8, <1>10, <1>11, <1>12 DEF SortInv

\* With nothing left to sort no pair is out of order.
LEMMA NoneCovered ==
  ASSUME SortInv, ~ Partitioning, stack = << >>
  PROVE  \A m, n : ~ Covered(m, n)
BY DEF Covered

LEMMA StartBlocksStep ==
  ASSUME SortInv, StartBlocks
  PROVE  SortInv'
<1> USE DEF StartBlocks, given, range
<1>1. SortTypeOK'
  BY DEF SortInv, SortTypeOK, Vector
<1>2. PassInv' /\ StackInv' /\ ScanInv'
  BY DEF SortInv, PassInv, StackInv, ScanInv, Partitioning
<1>3. \A m, n \in Positions : m < n => ~ (count[A[n]] > count[A[m]])
  BY NoneCovered DEF SortInv, MisplacedInv, Misplaced, Postponed, Partitioning
<1>4. \A m, n \in Positions : m < n => count[A[m]] >= count[A[n]]
  BY <1>3, Values DEF SortInv
<1>5. BlockInv'
  BY <1>4 DEF BlockInv, Positions, Covered, Partitioning
<1>6. MisplacedInv'
  <2>1. block = 0
    BY DEF SortInv, PassInv
  <2> QED
    BY <2>1 DEF MisplacedInv, Postponed, Positions
<1>7. Rearranged(A, input)'
  BY DEF SortInv, Rearranged, Shuffles
<1> QED
  BY <1>1, <1>2, <1>5, <1>6, <1>7 DEF SortInv

LEMMA NoneOrOne ==
  ASSUME NEW T, NEW a \in T
  PROVE  <<a>> \in Seq(T) /\ << >> \in Seq(T)
OBVIOUS

(***************************************************************************)
(* The block found holds every element with its count from there on: the   *)
(* pairs of such elements are in its range, and other pairs are postponed. *)
(***************************************************************************)
LEMMA SortBlockStep ==
  ASSUME SortInv, SortBlock
  PROVE  SortInv'
<1> USE DEF SortBlock, given, range
<1>1. PICK e \in block .. len - 1 :
        /\ EndOfBlock(e)
        /\ stack' = IF e > block THEN <<Span(block, e)>> ELSE << >>
  OBVIOUS
<1>2. /\ block \in Nat /\ len \in Nat /\ e \in Int
      /\ block <= e /\ e <= len - 1 /\ block < len - 1
      /\ block \in Positions /\ e \in Positions
      /\ by = "index" /\ stack = << >>
  BY <1>1 DEF SortInv, SortTypeOK, PassInv, Positions
<1>3. SortTypeOK'
  <2>1. Span(block, e) \in [from : 0 .. len, to : -1 .. len - 1]
    BY <1>2 DEF Span
  <2>2. stack' \in Seq([from : 0 .. len, to : -1 .. len - 1])
    BY <1>1, <2>1, NoneOrOne
  <2> QED
    BY <2>2 DEF SortInv, SortTypeOK, Vector
<1>4. PassInv'
  BY <1>2 DEF PassInv
<1>5. \A s \in 1 .. Len(stack') : s = 1 /\ e > block /\ stack'[s] = Span(block, e)
  <2>1. CASE e > block
    <3>1. stack' = <<Span(block, e)>>
      BY <1>1, <2>1
    <3> QED
      BY <3>1, <2>1
  <2>2. CASE ~ (e > block)
    <3>1. stack' = << >>
      BY <1>1, <2>2
    <3> QED
      BY <3>1
  <2> QED
    BY <2>1, <2>2
<1>6. StackInv'
  BY <1>5 DEF StackInv, Partitioning
<1>7. \A m, n \in Positions :
        block <= m /\ m < n /\ n <= e => Covered(m, n)'
  <2> SUFFICES ASSUME NEW m \in Positions, NEW n \in Positions,
                      block <= m, m < n, n <= e
               PROVE  Covered(m, n)'
    OBVIOUS
  <2>1. stack' = <<Span(block, e)>>
    BY <1>1, <1>2 DEF Positions
  <2>2. 1 \in 1 .. Len(stack') /\ stack'[1] = Span(block, e)
    BY <2>1
  <2>3. Holds(stack'[1], m, n)
    BY <2>2 DEF Holds, Span
  <2> QED
    BY <2>2, <2>3 DEF Covered, Holds
<1>8. \A m \in block .. e : m \in Positions /\ count[A[m]] = count[A[block]]
  BY <1>1, <1>2 DEF EndOfBlock, Positions
<1>9. \A m, n \in Positions : m < n => count[A[m]] >= count[A[n]]
  BY <1>2 DEF SortInv, BlockInv
<1>10. ASSUME NEW m \in Positions, block <= m, count[A[m]] = count[A[block]]
       PROVE  m <= e
  <2> SUFFICES ASSUME e < m
               PROVE  FALSE
    BY <1>2 DEF Positions
  <2>1. /\ e + 1 \in Positions /\ e + 1 <= m /\ block < e + 1
        /\ count[A[e + 1]] # count[A[block]]
    BY <1>1, <1>2 DEF EndOfBlock, Positions
  <2>2. /\ count[A[block]] \in Nat /\ count[A[e + 1]] \in Nat
        /\ count[A[m]] \in Nat
    BY <1>2, <2>1, Values DEF SortInv
  <2>3. count[A[block]] >= count[A[e + 1]]
    BY <1>2, <1>9, <2>1
  <2>4. count[A[e + 1]] >= count[A[m]]
    <3>1. e + 1 = m \/ e + 1 < m
      BY <1>2, <2>1 DEF Positions
    <3> QED
      BY <1>9, <2>1, <2>2, <3>1
  <2> QED
    BY <1>10, <2>1, <2>2, <2>3, <2>4
<1>11. MisplacedInv'
  <2> SUFFICES ASSUME NEW m \in Positions, NEW n \in Positions, m < n,
                      Misplaced(A[m], A[n])
               PROVE  Covered(m, n)' \/ Postponed(m)'
    BY DEF MisplacedInv, Misplaced, Positions
  <2>1. block <= m
    BY <1>2, NoneCovered DEF SortInv, MisplacedInv, Postponed, Partitioning
  <2>2. count[A[n]] = count[A[m]]
    BY <1>2 DEF Misplaced
  <2>3. CASE count[A[m]] = count[A[block]]
    <3>1. n <= e
      BY <1>2, <1>10, <2>1, <2>2, <2>3 DEF Positions
    <3> QED
      BY <1>7, <2>1, <3>1
  <2>4. CASE count[A[m]] # count[A[block]]
    <3>1. block < m
      BY <1>2, <2>1, <2>4 DEF Positions
    <3> QED
      BY <1>2, <2>4, <3>1 DEF Postponed
  <2> QED
    BY <2>3, <2>4
<1>12. BlockInv'
  <2>1. ASSUME NEW m \in Positions, Covered(m, m)'
        PROVE  block <= m /\ count[A[m]] = count[A[block]]
    <3>1. PICK s \in 1 .. Len(stack') : Holds(stack'[s], m, m)
      BY <2>1 DEF Covered, Partitioning, Holds
    <3>2. m \in block .. e
      BY <1>2, <1>5, <3>1 DEF Holds, Span, Positions
    <3> QED
      BY <1>2, <1>8, <3>2
  <2> QED
    BY <1>9, <2>1 DEF BlockInv, Positions
<1>13. ScanInv'
  BY DEF ScanInv, Partitioning
<1>14. Rearranged(A, input)'
  BY DEF SortInv, Rearranged, Shuffles
<1> QED
  BY <1>3, <1>4, <1>6, <1>11, <1>12, <1>13, <1>14 DEF SortInv

\* Once its block is sorted, the element that starts it is in its place.
LEMMA NextBlockStep ==
  ASSUME SortInv, NextBlock
  PROVE  SortInv'
<1> USE DEF NextBlock, given, range
<1>1. block \in Nat /\ block < len - 1 /\ len \in Nat
  BY DEF SortInv, SortTypeOK, PassInv
<1>2. SortTypeOK'
  BY DEF SortInv, SortTypeOK, Vector
<1>3. PassInv' /\ StackInv' /\ ScanInv'
  BY DEF SortInv, PassInv, StackInv, ScanInv, Partitioning
<1>4. MisplacedInv'
  <2> SUFFICES ASSUME NEW m \in Positions, NEW n \in Positions, m < n,
                      Misplaced(A[m], A[n])
               PROVE  Postponed(m)'
    BY DEF MisplacedInv, Misplaced, Positions
  <2>1. block < m
    BY NoneCovered DEF SortInv, MisplacedInv, Postponed, Partitioning
  <2> QED
    BY <1>1, <2>1 DEF Postponed, Positions
<1>5. BlockInv'
  BY DEF SortInv, BlockInv, Positions, Covered, Partitioning
<1>6. Rearranged(A, input)'
  BY DEF SortInv, Rearranged, Shuffles
<1> QED
  BY <1>2, <1>3, <1>4, <1>5, <1>6 DEF SortInv

LEMMA ReturnStep ==
  ASSUME SortInv, Return
  PROVE  SortInv'
<1> USE DEF Return, given, range
<1>1. SortTypeOK'
  BY DEF SortInv, SortTypeOK, Vector
<1>2. PassInv' /\ StackInv' /\ ScanInv'
  BY DEF SortInv, PassInv, StackInv, ScanInv, Partitioning
<1>3. MisplacedInv'
  BY NoneCovered
     DEF SortInv, PassInv, MisplacedInv, Misplaced, Postponed, Positions,
         Partitioning
<1>4. BlockInv'
  BY DEF SortInv, PassInv, BlockInv, Positions, Covered, Partitioning
<1>5. Rearranged(A, input)'
  BY DEF SortInv, Rearranged, Shuffles
<1> QED
  BY <1>1, <1>2, <1>3, <1>4, <1>5 DEF SortInv

LEMMA SortInitInvariant ==
  ASSUME SortInit
  PROVE  SortInv
<1> USE DEF SortInit
<1>1. /\ len \in Nat /\ count \in [Item -> Nat]
      /\ stack = <<Span(0, len - 1)>>
  BY ReorderAssumption DEF WholeVector
<1>2. /\ stack[1] = Span(0, len - 1) /\ Len(stack) = 1
      /\ stack \in Seq([from : 0 .. len, to : -1 .. len - 1])
  BY <1>1 DEF Span
<1>3. SortTypeOK
  BY <1>1, <1>2 DEF SortTypeOK
<1>4. PassInv
  BY DEF PassInv
<1>5. StackInv
  BY <1>2 DEF StackInv, Partitioning
<1>6. MisplacedInv
  <2> SUFFICES ASSUME NEW m \in Positions, NEW n \in Positions
               PROVE  Covered(m, n)
    BY DEF MisplacedInv
  <2>1. 1 \in 1 .. Len(stack) /\ Holds(stack[1], m, n)
    BY <1>1, <1>2 DEF Holds, Span, Positions
  <2> QED
    BY <2>1 DEF Covered
<1>7. BlockInv /\ ScanInv
  BY DEF BlockInv, ScanInv, Partitioning
<1>8. Rearranged(A, input)
  <2> DEFINE f == [n \in 0 .. len - 1 |-> n]
  <2>1. f \in Shuffles
    BY DEF Shuffles
  <2>2. \A n \in 0 .. len - 1 : A[n] = input[f[n]]
    OBVIOUS
  <2> HIDE DEF f
  <2> QED
    BY <2>1, <2>2 DEF Rearranged
<1> QED
  BY <1>3, <1>4, <1>5, <1>6, <1>7, <1>8 DEF SortInv

LEMMA StutterStep ==
  ASSUME SortInv, UNCHANGED sortVars
  PROVE  SortInv'
<1> USE DEF sortVars, given, range
<1>1. SortTypeOK'
  BY DEF SortInv, SortTypeOK, Vector
<1>2. PassInv' /\ StackInv'
  BY DEF SortInv, PassInv, StackInv, Partitioning
<1>3. \A m, n : Covered(m, n)' <=> Covered(m, n)
  BY DEF Covered, Holds, Partitioning
<1>4. MisplacedInv' /\ BlockInv'
  BY <1>3 DEF SortInv, MisplacedInv, BlockInv, Misplaced, Postponed, Positions
<1>5. ScanInv'
  BY DEF SortInv, ScanInv, Partitioning, Low, High, Before
<1>6. Rearranged(A, input)'
  BY DEF SortInv, Rearranged, Shuffles
<1> QED
  BY <1>1, <1>2, <1>4, <1>5, <1>6 DEF SortInv

(***************************************************************************)
(* The inductive invariant: two elements in the wrong order are in one of  *)
(* the ranges to be sorted, or the first belongs to a later block.         *)
(***************************************************************************)
THEOREM SortInvariance == SortSpec => []SortInv
<1>1. SortInit => SortInv
  BY SortInitInvariant
<1>2. SortInv /\ [SortNext]_sortVars => SortInv'
  BY SortTrivialStep, StartPartitionStep, ScanDownStep, ScanUpStep,
     ExchangeStep, SplitStep, StartBlocksStep, SortBlockStep, NextBlockStep,
     ReturnStep, StutterStep
     DEF SortNext
<1> QED
  BY <1>1, <1>2, PTL DEF SortSpec

\* The type invariant, for vectors of every length.
THEOREM SortTypeCorrect == SortSpec => []SortTypeOK
BY SortInvariance, PTL DEF SortInv

(***************************************************************************)
(* The scans of partition and count_partition read the range they are      *)
(* given and nothing else.                                                 *)
(***************************************************************************)
THEOREM StaysInRange == SortSpec => []ReadsInRange
<1>1. SortInv => ReadsInRange
  <2> SUFFICES ASSUME SortInv
               PROVE  ReadsInRange
    OBVIOUS
  <2>1. CASE phase = "down"
    BY <2>1 DEF SortInv, SortTypeOK, ScanInv, Partitioning, ReadsInRange
  <2>2. CASE phase = "up"
    BY <2>2 DEF SortInv, SortTypeOK, ScanInv, Partitioning, ReadsInRange
  <2> QED
    BY <2>1, <2>2 DEF ReadsInRange
<1> QED
  BY <1>1, SortInvariance, PTL

(***************************************************************************)
(* What reorder leaves is what it was given, by decreasing count and,      *)
(* among equal counts, by item.                                            *)
(***************************************************************************)
THEOREM SortsEveryInput == SortSpec => []SortsInput
<1>1. SortInv => SortsInput
  <2> SUFFICES ASSUME SortInv, phase = "done"
               PROVE  Ordered(A) /\ Rearranged(A, input)
    BY DEF SortsInput
  <2>1. by = "index" /\ stack = << >> /\ block >= len - 1 /\ ~ Partitioning
    BY DEF SortInv, PassInv, Partitioning
  <2>2. DOMAIN A = Positions /\ block \in Nat /\ len \in Nat
    BY DEF SortInv, SortTypeOK, Vector, Positions
  <2>3. ASSUME NEW m \in Positions, NEW n \in Positions, m < n
        PROVE  \/ count[A[m]] > count[A[n]]
               \/ count[A[m]] = count[A[n]] /\ A[m] <= A[n]
    <3>1. ~ Misplaced(A[m], A[n])
      BY <2>1, <2>2, <2>3, NoneCovered
         DEF SortInv, MisplacedInv, Postponed, Positions
    <3>2. count[A[m]] >= count[A[n]]
      BY <2>1, <2>3 DEF SortInv, BlockInv
    <3>3. /\ count[A[m]] \in Nat /\ count[A[n]] \in Nat
          /\ A[m] \in Nat /\ A[n] \in Nat
      BY Values DEF SortInv
    <3> QED
      BY <2>1, <3>1, <3>2, <3>3 DEF Misplaced
  <2>4. Ordered(A)
    BY <2>2, <2>3 DEF Ordered
  <2> QED
    BY <2>4 DEF SortInv
<1> QED
  BY <1>1, SortInvariance, PTL

-----------------------------------------------------------------------------
(* What the sort leaves is the vector the miners' specifications take the  *)
(* items in: Sorted by GreaterFreq.                                        *)

ByGreaterFreq(d, S) == Sorted(S, LAMBDA a, b : GreaterFreq(d, a, b))

\* The first k elements of a vector, whether its n elements are different and
\* in the order of d, and the sequence of them.
First(V, k) == {V[m] : m \in 0 .. k - 1}
Distinct(V, n) == \A m, l \in 0 .. n - 1 : V[m] = V[l] => m = l
Descends(d, V, n) == \A m, l \in 0 .. n - 1 : m < l => GreaterFreq(d, V[m], V[l])
Listed(V, n) == [l \in 1 .. n |-> V[l - 1]]

\* The elements up to a place are as many as the places.
LEMMA FirstElements ==
  ASSUME NEW n \in Nat, NEW V, Distinct(V, n), NEW k \in 0 .. n
  PROVE  IsFiniteSet(First(V, k)) /\ Cardinality(First(V, k)) = k
<1> DEFINE D == 0 .. k - 1
           T == First(V, k)
           f == [m \in D |-> V[m]]
<1>1. IsFiniteSet(D) /\ Cardinality(D) = k
  <2>1. 0 \in Int /\ k - 1 \in Int
    OBVIOUS
  <2>2. IsFiniteSet(D) /\ Cardinality(D) = IF 0 > k - 1 THEN 0 ELSE k - 1 - 0 + 1
    BY <2>1, FS_Interval
  <2>3. (IF 0 > k - 1 THEN 0 ELSE k - 1 - 0 + 1) = k
    OBVIOUS
  <2> QED
    BY <2>2, <2>3
<1>2. D \in SUBSET (0 .. n - 1)
  OBVIOUS
<1>3. \A m \in D : f[m] = V[m]
  OBVIOUS
<1>4. f \in [D -> T]
  BY DEF First
<1>5. T = {V[m] : m \in D}
  BY DEF First
<1> HIDE DEF D, f, T
<1>6. f \in Bijection(D, T)
  <2>1. \A m, l \in D : f[m] = f[l] => m = l
    BY <1>2, <1>3 DEF Distinct
  <2>2. \A t \in T : \E m \in D : f[m] = t
    BY <1>3, <1>5
  <2> QED
    BY <1>4, <2>1, <2>2 DEF Bijection, Injection, Surjection, IsInjective
<1>7. ExistsBijection(D, T)
  BY <1>6 DEF ExistsBijection
<1>8. IsFiniteSet(T) /\ Cardinality(T) = k
  BY <1>1, <1>7, FS_Bijection
<1> QED
  BY <1>8 DEF T

\* A vector in that order is the one Sorted gives for its items.
LEMMA OrderedIsSorted ==
  ASSUME NEW d, NEW n \in Nat, NEW V \in [0 .. n - 1 -> Item],
         Descends(d, V, n)
  PROVE  Listed(V, n) = ByGreaterFreq(d, First(V, n))
<1> DEFINE S == First(V, n)
           Under(a) == {b \in S : GreaterFreq(d, b, a)}
           D == 0 .. n - 1
<1>1. \A m \in D : V[m] \in Item /\ V[m] \in S
  BY DEF First
<1>2. \A s \in S : \E m \in D : s = V[m]
  BY DEF First
<1>3. \A m, l \in D : m < l => GreaterFreq(d, V[m], V[l])
  BY DEF Descends
<1>4. \A m, l \in D : m # l => m < l \/ l < m
  OBVIOUS
<1>5. \A m, l \in D : GreaterFreq(d, V[m], V[l]) <=> m < l
  <2>1. \A a, b \in Item : ~ (GreaterFreq(d, a, b) /\ GreaterFreq(d, b, a))
    BY GreaterFreqOrder
  <2>2. \A a \in Item : ~ GreaterFreq(d, a, a)
    BY GreaterFreqOrder
  <2> HIDE DEF D
  <2> QED
    BY <1>1, <1>3, <1>4, <2>1, <2>2
<1>6. \A m, l \in D : V[m] = V[l] => m = l
  <2>1. \A a \in Item : ~ GreaterFreq(d, a, a)
    BY GreaterFreqOrder
  <2> HIDE DEF D
  <2> QED
    BY <1>1, <1>3, <1>4, <2>1
<1>7. Distinct(V, n)
  BY <1>6 DEF Distinct
<1>8. Cardinality(S) = n
  <2>1. n \in 0 .. n
    OBVIOUS
  <2> QED
    BY ONLY n \in Nat, <1>7, <2>1, FirstElements
<1> HIDE DEF S
<1>9. ASSUME NEW m \in D PROVE Cardinality(Under(V[m])) = m
  <2>1. Under(V[m]) = {V[k] : k \in 0 .. m - 1}
    <3>1. 0 .. m - 1 \in SUBSET D /\ \A k \in D : k < m <=> k \in 0 .. m - 1
      OBVIOUS
    <3> HIDE DEF D
    <3> QED
      BY <1>1, <1>2, <1>5, <3>1
  <2>2. m \in 0 .. n
    OBVIOUS
  <2>3. Under(V[m]) = First(V, m)
    BY <2>1 DEF First
  <2>4. Cardinality(First(V, m)) = m
    BY ONLY n \in Nat, <1>7, <2>2, FirstElements
  <2> HIDE DEF Under
  <2> QED
    BY <2>3, <2>4
<1> DEFINE Place(l) == CHOOSE a \in S : Cardinality(Under(a)) = l - 1
<1>10. ByGreaterFreq(d, S) = [l \in 1 .. Cardinality(S) |-> Place(l)]
  BY DEF ByGreaterFreq, Sorted
<1> HIDE DEF Under
<1>11. ASSUME NEW l \in 1 .. n
       PROVE  Place(l) = V[l - 1]
  <2>1. l - 1 \in D
    OBVIOUS
  <2> HIDE DEF D
  <2>2. V[l - 1] \in S /\ Cardinality(Under(V[l - 1])) = l - 1
    BY <1>1, <1>9, <2>1
  <2>3. \A a \in S : Cardinality(Under(a)) = l - 1 => a = V[l - 1]
    BY <1>2, <1>9
  <2> QED
    BY <2>2, <2>3
<1> HIDE DEF Place
<1>12. ByGreaterFreq(d, S) = [l \in 1 .. n |-> V[l - 1]]
  BY <1>8, <1>10, <1>11
<1> QED
  BY <1>12 DEF Listed, S

\* The items are each once in the vector, with their counts in the database d.
SortsAsGreaterFreq(d) ==
  /\ phase = "done"
  /\ \A m, n \in Positions : input[m] = input[n] => m = n
  /\ \A a \in Item : count[a] = Count(d, a)
  => Listed(A, len) = ByGreaterFreq(d, First(input, len))

(***************************************************************************)
(* With the counts of a database the hand-written quicksorts give the      *)
(* order of greater_freq, in which the specifications of the miners take   *)
(* the items of a transaction or a level.                                  *)
(***************************************************************************)
THEOREM SortIsGreaterFreq ==
  ASSUME NEW d
  PROVE  SortSpec => []SortsAsGreaterFreq(d)
<1>1. SortInv /\ SortsInput => SortsAsGreaterFreq(d)
  <2> SUFFICES ASSUME SortInv, SortsInput, phase = "done",
                      \A m, n \in Positions : input[m] = input[n] => m = n,
                      \A a \in Item : count[a] = Count(d, a)
               PROVE  Listed(A, len) = ByGreaterFreq(d, First(input, len))
    BY DEF SortsAsGreaterFreq
  <2>1. /\ len \in Nat /\ A \in [Positions -> Item] /\ Ordered(A)
        /\ Positions = 0 .. len - 1
    BY DEF SortInv, SortTypeOK, SortsInput, Vector, Positions
  <2>2. PICK f \in Shuffles : \A n \in 0 .. len - 1 : A[n] = input[f[n]]
    BY DEF SortsInput, Rearranged
  <2>3. /\ f \in [Positions -> Positions] /\ \A m, n \in Positions : f[m] = f[n] => m = n
        /\ \A n \in Positions : A[n] = input[f[n]]
    BY <2>2 DEF Shuffles, Positions
  <2>4. \A m \in Positions : \E n \in Positions : f[n] = m
    <3>1. f \in Injection(Positions, Positions)
      BY <2>3 DEF Injection, IsInjective
    <3>2. IsFiniteSet(Positions)
      <4>1. 0 \in Int /\ len - 1 \in Int
        BY <2>1
      <4> QED
        BY <2>1, <4>1, FS_Interval
    <3>3. f \in Surjection(Positions, Positions)
      BY <3>1, <3>2, FS_Injection
    <3> QED
      BY <3>3 DEF Surjection
  <2>5. {input[n] : n \in Positions} = {A[n] : n \in Positions}
    BY <2>3, <2>4
  <2>6. \A m, n \in Positions : A[m] = A[n] => m = n
    BY <2>3
  <2>7. ASSUME NEW m \in Positions, NEW n \in Positions, m < n
        PROVE  GreaterFreq(d, A[m], A[n])
    <3>1. \/ count[A[m]] > count[A[n]]
          \/ count[A[m]] = count[A[n]] /\ A[m] <= A[n]
      BY <2>1, <2>7 DEF Ordered
    <3>2. A[m] \in Item /\ A[n] \in Item /\ A[m] # A[n]
      BY <2>1, <2>6, <2>7
    <3>3. A[m] \in Int /\ A[n] \in Int
      BY <3>2, SizesAssumption DEF Item
    <3>4. count[A[m]] \in Nat /\ count[A[n]] \in Nat
      BY <3>2 DEF SortInv, SortTypeOK
    <3>5. count[A[m]] = Count(d, A[m]) /\ count[A[n]] = Count(d, A[n])
      BY <3>2
    <3> QED
      BY <3>1, <3>2, <3>3, <3>4, <3>5 DEF GreaterFreq
  <2>8. Descends(d, A, len)
    BY <2>1, <2>7 DEF Descends
  <2>9. First(input, len) = First(A, len)
    BY <2>1, <2>5 DEF First
  <2>10. len \in Nat /\ A \in [0 .. len - 1 -> Item]
    BY <2>1
  <2>11. Listed(A, len) = ByGreaterFreq(d, First(A, len))
    BY ONLY <2>8, <2>10, OrderedIsSorted
  <2> QED
    BY <2>9, <2>11
<1> QED
  BY <1>1, SortInvariance, SortsEveryInput, PTL
-----------------------------------------------------------------------------
(***************************************************************************)
(* The two quicksorts come to an end: neighbours once apart stay apart,    *)
(* and every range that is partitioned is divided between two of them.     *)
(***************************************************************************)

BlockBound == block <= len

LEMMA BlockBounded == SortSpec => []BlockBound
<1>1. SortInit => BlockBound
  BY DEF SortInit, BlockBound
<1>2. ASSUME SortInv, BlockBound, [SortNext]_sortVars PROVE BlockBound'
  <2>1. CASE NextBlock
    BY <1>2, <2>1 DEF NextBlock, given, SortInv, SortTypeOK, PassInv, BlockBound
  <2>2. ASSUME len' = len, block' = block PROVE BlockBound'
    BY <1>2, <2>2 DEF BlockBound
  <2> QED
    BY <1>2, <2>1, <2>2
       DEF SortNext, SortTrivial, StartPartition, ScanDown, ScanUp, Exchange, Split,
           StartBlocks, SortBlock, Return, sortVars, given
<1> QED
  BY <1>1, <1>2, SortInvariance, PTL DEF SortSpec

\* What is left to do: the passes and their blocks, the neighbours still in one
\* range, the ranges, the way of the scans to each other and an exchange.
PassesLeft ==
  IF phase = "done" THEN 0
  ELSE IF by = "count" THEN 2 * len + 3
  ELSE 2 * (len - block) + IF phase = "block" THEN 2 ELSE 1

Together == {m \in Positions : Covered(m, m + 1)}

Apart == IF Partitioning THEN len + 1 + j - i ELSE 0

AtExchange == IF phase = "swap" THEN 1 ELSE 0

ToDo == <<PassesLeft, Cardinality(Together), Len(stack), Apart, AtExchange>>

LEMMA TogetherSize ==
  ASSUME len \in Nat
  PROVE  /\ Cardinality(Together) \in Nat
         /\ \A S \in SUBSET Together :
              /\ Cardinality(S) \in Nat /\ Cardinality(S) <= Cardinality(Together)
              /\ S # Together => Cardinality(S) < Cardinality(Together)
<1>1. IsFiniteSet(0 .. len - 1)
  BY FS_Interval
<1>2. Together \in SUBSET (0 .. len - 1)
  BY DEF Together, Positions
<1> HIDE DEF Together
<1>3. IsFiniteSet(Together) /\ Cardinality(Together) \in Nat
  BY <1>1, <1>2, FS_Subset, FS_CardinalityType
<1>4. ASSUME NEW S \in SUBSET Together
      PROVE  /\ Cardinality(S) \in Nat /\ Cardinality(S) <= Cardinality(Together)
             /\ S # Together => Cardinality(S) < Cardinality(Together)
  <2>1. /\ IsFiniteSet(S) /\ Cardinality(S) <= Cardinality(Together)
        /\ Cardinality(Together) = Cardinality(S) => S = Together
    BY <1>3, FS_Subset
  <2>2. Cardinality(S) \in Nat
    BY <2>1, FS_CardinalityType
  <2> QED
    BY <1>3, <2>1, <2>2
<1> QED
  BY <1>3, <1>4

\* The numbers are natural numbers.
LEMMA ToDoType ==
  ASSUME SortInv, BlockBound
  PROVE  /\ PassesLeft \in Nat /\ Cardinality(Together) \in Nat /\ Len(stack) \in Nat
         /\ Apart \in Nat /\ AtExchange \in Nat
<1>1. /\ len \in Nat /\ block \in Nat /\ i \in -1 .. len /\ j \in -1 .. len
      /\ stack \in Seq([from : 0 .. len, to : -1 .. len - 1])
  BY DEF SortInv, SortTypeOK
<1>2. PassesLeft \in Nat
  BY <1>1 DEF PassesLeft, BlockBound
<1>3. Apart \in Nat
  BY <1>1 DEF Apart
<1>4. Cardinality(Together) \in Nat
  BY <1>1, TogetherSize
<1> QED
  BY <1>1, <1>2, <1>3, <1>4 DEF AtExchange

LEMMA ToDoFalls ==
  ASSUME SortInv, BlockBound, SortInv', BlockBound', len' = len,
         \/ PassesLeft' < PassesLeft
         \/ /\ PassesLeft' = PassesLeft
            /\ Together' \in SUBSET Together
            /\ \/ Together' # Together
               \/ Len(stack)' < Len(stack)
               \/ Len(stack)' = Len(stack) /\ Apart' < Apart
               \/ Len(stack)' = Len(stack) /\ Apart' = Apart /\ AtExchange' < AtExchange
  PROVE  Falls(5, ToDo, ToDo')
<1> DEFINE a == PassesLeft
           b == Cardinality(Together)
           c == Len(stack)
           d == Apart
           e == AtExchange
           a2 == PassesLeft'
           b2 == Cardinality(Together)'
           c2 == Len(stack)'
           d2 == Apart'
           e2 == AtExchange'
           T == Together
           T2 == Together'
<1>1. a \in Nat /\ b \in Nat /\ c \in Nat /\ d \in Nat /\ e \in Nat
  BY ToDoType
<1>2. a2 \in Nat
  <2> DEFINE l == len'
             k == block'
  <2>1. l \in Nat /\ k \in Nat /\ k <= l
    BY DEF SortInv, SortTypeOK, BlockBound
  <2>2. a2 = IF phase' = "done" THEN 0
             ELSE IF by' = "count" THEN 2 * l + 3
             ELSE 2 * (l - k) + IF phase' = "block" THEN 2 ELSE 1
    BY DEF PassesLeft
  <2> HIDE DEF l, k, a2
  <2> QED
    BY ONLY <2>1, <2>2
<1>3. d2 \in Nat
  <2> DEFINE l == len'
             u == i'
             w == j'
  <2>1. l \in Nat /\ u \in -1 .. l /\ w \in -1 .. l
    BY DEF SortInv, SortTypeOK
  <2>2. d2 = IF Partitioning' THEN l + 1 + w - u ELSE 0
    BY DEF Apart
  <2> HIDE DEF l, u, w, d2
  <2> QED
    BY ONLY <2>1, <2>2
<1>4. c2 \in Nat /\ e2 \in Nat
  <2>1. stack' \in Seq([from : 0 .. len', to : -1 .. len' - 1])
    BY DEF SortInv, SortTypeOK
  <2> QED
    BY <2>1 DEF AtExchange
<1>5. b2 \in Nat
  <2>1. IsFiniteSet(0 .. len - 1) /\ len \in Nat
    BY FS_Interval DEF SortInv, SortTypeOK
  <2>2. Together' \in SUBSET (0 .. len - 1)
    BY DEF Together, Positions
  <2> HIDE DEF T2
  <2>3. T2 \in SUBSET (0 .. len - 1)
    BY <2>2 DEF T2
  <2>4. Cardinality(T2) \in Nat
    BY <2>1, <2>3, FS_Subset, FS_CardinalityType
  <2> QED
    BY <2>4 DEF T2
<1>6. \/ a2 < a
      \/ /\ a2 = a
         /\ T2 \in SUBSET T
         /\ \/ T2 # T
            \/ c2 < c
            \/ c2 = c /\ d2 < d
            \/ c2 = c /\ d2 = d /\ e2 < e
  OBVIOUS
<1>7. T2 \in SUBSET T => b2 <= b /\ (T2 # T => b2 < b)
  <2>1. len \in Nat
    BY DEF SortInv, SortTypeOK
  <2> QED
    BY ONLY <2>1, TogetherSize
<1>8. ToDo = <<a, b, c, d, e>> /\ ToDo' = <<a2, b2, c2, d2, e2>>
  BY DEF ToDo
<1> HIDE DEF a, b, c, d, e, a2, b2, c2, d2, e2, T, T2
<1>9. \/ a2 < a
      \/ a2 = a /\ b2 < b
      \/ a2 = a /\ b2 = b /\ c2 < c
      \/ a2 = a /\ b2 = b /\ c2 = c /\ d2 < d
      \/ a2 = a /\ b2 = b /\ c2 = c /\ d2 = d /\ e2 < e
  BY ONLY <1>1, <1>5, <1>6, <1>7
<1> QED
  BY <1>1, <1>2, <1>3, <1>4, <1>5, <1>8, <1>9, FallsFive

\* Popping a range puts no neighbours together again.
LEMMA PopTogether ==
  ASSUME SortInv, stack # << >>, phase = "sort", stack' = Tail(stack), len' = len,
         Partitioning' => p' = Head(stack).from /\ r' = Head(stack).to
  PROVE  Together' \in SUBSET Together
<1>1. /\ Head(stack) = stack[1] /\ 1 \in 1 .. Len(stack) /\ Len(stack) \in Nat
      /\ Len(stack') = Len(stack) - 1
      /\ \A s \in 1 .. Len(stack) - 1 : stack'[s] = stack[s + 1]
  BY TopOfStack DEF SortInv
<1>2. ASSUME NEW m, Covered(m, m + 1)' PROVE Covered(m, m + 1)
  <2>1. CASE \E s \in 1 .. Len(stack') : Holds(stack'[s], m, m + 1)
    <3>1. PICK s \in 1 .. Len(stack') : Holds(stack'[s], m, m + 1)
      BY <2>1
    <3>2. s + 1 \in 1 .. Len(stack) /\ stack[s + 1] = stack'[s]
      BY <1>1
    <3> QED
      BY <3>1, <3>2 DEF Covered
  <2>2. CASE Partitioning' /\ p' <= m /\ m + 1 <= r'
    <3>1. Holds(stack[1], m, m + 1)
      BY <1>1, <2>2 DEF Holds
    <3> QED
      BY <1>1, <3>1 DEF Covered
  <2> QED
    BY <1>2, <2>1, <2>2 DEF Covered, Holds
<1> QED
  BY <1>2 DEF Together, Positions

\* Splitting a range takes the neighbours apart where the scans met.
LEMMA SplitTogether ==
  ASSUME SortInv, Split
  PROVE  Together' \in SUBSET Together /\ Together' # Together
<1>1. /\ p \in Nat /\ r \in Int /\ j \in Int /\ len \in Nat
      /\ 0 <= p /\ p <= j /\ j < r /\ r < len /\ Partitioning
  BY DEF Split, SortInv, SortTypeOK, ScanInv, Partitioning
<1>2. /\ Len(stack) \in Nat
      /\ Len(stack') = Len(stack) + 2
      /\ stack'[1] = Span(p, j) /\ stack'[2] = Span(j + 1, r)
      /\ \A n \in 3 .. Len(stack') :
           n - 2 \in 1 .. Len(stack) /\ stack'[n] = stack[n - 2]
  <2>1. stack \in Seq([from : 0 .. len, to : -1 .. len - 1])
    BY DEF SortInv, SortTypeOK
  <2>2. /\ Span(p, j) \in [from : 0 .. len, to : -1 .. len - 1]
        /\ Span(j + 1, r) \in [from : 0 .. len, to : -1 .. len - 1]
    BY <1>1 DEF Span
  <2>3. stack' = <<Span(p, j), Span(j + 1, r)>> \o stack
    BY DEF Split
  <2> QED
    BY <2>1, <2>2, <2>3, Pushed
<1>3. ~ Partitioning' /\ len' = len
  BY DEF Split, Partitioning, given
<1>4. \A n \in 1 .. Len(stack) : r < stack[n].from /\ stack[n].from \in Int
  BY <1>1, Ranges DEF SortInv, StackInv
<1>5. ASSUME NEW m \in Positions, Covered(m, m + 1)' PROVE Covered(m, m + 1) /\ m # j
  <2>1. PICK s \in 1 .. Len(stack') : Holds(stack'[s], m, m + 1)
    BY <1>3, <1>5 DEF Covered, Holds
  <2>2. m \in Nat
    BY DEF Positions
  <2>3. CASE s = 1
    BY <1>1, <1>2, <2>1, <2>2, <2>3 DEF Holds, Span, Covered
  <2>4. CASE s = 2
    BY <1>1, <1>2, <2>1, <2>2, <2>4 DEF Holds, Span, Covered
  <2>5. CASE s > 2
    <3>1. s - 2 \in 1 .. Len(stack) /\ stack'[s] = stack[s - 2]
      BY <1>2, <2>5
    <3>2. Covered(m, m + 1)
      BY <2>1, <3>1 DEF Covered
    <3>3. r < stack[s - 2].from /\ stack[s - 2].from <= m
      BY <1>4, <2>1, <3>1 DEF Holds
    <3> QED
      BY <1>1, <1>4, <2>2, <3>1, <3>2, <3>3
  <2> QED
    BY <1>2, <2>3, <2>4, <2>5
<1>6. j \in Positions /\ Covered(j, j + 1)
  BY <1>1 DEF Positions, Covered
<1>7. Together' \in SUBSET Together
  BY <1>3, <1>5 DEF Together, Positions
<1>8. j \in Together /\ j \notin Together'
  <2>1. j \notin Together'
    <3>1. j' = j /\ Positions' = Positions
      BY <1>3 DEF Split, Positions
    <3>2. \A m \in Together' : m \in Positions /\ Covered(m, m + 1)'
      BY <1>3 DEF Together, Positions
    <3> QED
      BY <1>5, <3>2
  <2> QED
    BY <1>6, <2>1 DEF Together
<1> QED
  BY <1>7, <1>8

\* Each step leaves less to do, in the order of these numbers: the sort does
\* not go on for ever (FallsEnd), for no vector and no counts.
THEOREM SortStepsRunOut == SortSpec => [][Falls(5, ToDo, ToDo')]_sortVars
<1>1. /\ SortInv /\ BlockBound /\ SortInv' /\ BlockBound' /\ [SortNext]_sortVars
      => [Falls(5, ToDo, ToDo')]_sortVars
  <2> SUFFICES ASSUME SortInv, BlockBound, SortInv', BlockBound', SortNext
               PROVE  Falls(5, ToDo, ToDo')
    OBVIOUS
  <2>1. len \in Nat /\ block \in Nat /\ i \in Int /\ j \in Int /\ BlockBound
    BY DEF SortInv, SortTypeOK
  <2>2. len' = len
    BY DEF SortNext, SortTrivial, StartPartition, ScanDown, ScanUp, Exchange, Split,
           StartBlocks, SortBlock, NextBlock, Return, given
  <2>3. CASE StartBlocks
    <3>1. PassesLeft' < PassesLeft
      <4>1. PassesLeft = 2 * len + 3
        BY <2>3 DEF StartBlocks, PassesLeft
      <4>2. PassesLeft' = 2 * (len - block) + 2
        BY <2>3 DEF StartBlocks, PassesLeft, given
      <4> QED
        BY <2>1, <4>1, <4>2
    <3> QED
      BY <2>2, <3>1, ToDoFalls
  <2>4. CASE SortBlock
    <3>1. PassesLeft' < PassesLeft
      <4>1. by = "index" /\ by' = "index" /\ phase = "block" /\ phase' = "sort" /\ block' = block
        BY <2>4 DEF SortBlock, SortInv, PassInv
      <4>2. PassesLeft = 2 * (len - block) + 2 /\ PassesLeft' = 2 * (len - block) + 1
        BY <2>2, <4>1 DEF PassesLeft
      <4> QED
        BY <2>1, <4>2
    <3> QED
      BY <2>2, <3>1, ToDoFalls
  <2>5. CASE NextBlock
    <3>1. PassesLeft' < PassesLeft
      <4>1. by = "index" /\ by' = "index" /\ phase = "sort" /\ phase' = "block" /\ block' = block + 1
        BY <2>5 DEF NextBlock
      <4>2. PassesLeft = 2 * (len - block) + 1 /\ PassesLeft' = 2 * (len - (block + 1)) + 2
        BY <2>2, <4>1 DEF PassesLeft
      <4> QED
        BY <2>1, <4>2
    <3> QED
      BY <2>2, <3>1, ToDoFalls
  <2>6. CASE Return
    <3>1. PassesLeft' < PassesLeft
      <4>1. by = "index" /\ phase = "block" /\ phase' = "done"
        BY <2>6 DEF Return, SortInv, PassInv
      <4>2. PassesLeft = 2 * (len - block) + 2 /\ PassesLeft' = 0
        BY <4>1 DEF PassesLeft
      <4> QED
        BY <2>1, <4>2 DEF BlockBound
    <3> QED
      BY <2>2, <3>1, ToDoFalls
  <2>7. ASSUME phase \notin {"block", "done"}, phase' \notin {"block", "done"},
               by' = by, block' = block
        PROVE  PassesLeft' = PassesLeft
    BY <2>2, <2>7 DEF PassesLeft
  <2>8. CASE SortTrivial
    <3>1. Together' \in SUBSET Together
      BY <2>2, <2>8, PopTogether DEF SortTrivial, Partitioning
    <3>2. Len(stack)' < Len(stack)
      BY <2>8, TopOfStack DEF SortTrivial, SortInv
    <3>3. PassesLeft' = PassesLeft
      BY <2>7, <2>8 DEF SortTrivial
    <3> QED
      BY <2>2, <3>1, <3>2, <3>3, ToDoFalls
  <2>9. CASE StartPartition
    <3>1. Together' \in SUBSET Together
      BY <2>2, <2>9, PopTogether DEF StartPartition
    <3>2. Len(stack)' < Len(stack)
      BY <2>9, TopOfStack DEF StartPartition, SortInv
    <3>3. PassesLeft' = PassesLeft
      BY <2>7, <2>9 DEF StartPartition
    <3> QED
      BY <2>2, <3>1, <3>2, <3>3, ToDoFalls
  <2>10. ASSUME Partitioning, Partitioning', UNCHANGED <<by, block, stack, range>>
         PROVE  /\ PassesLeft' = PassesLeft /\ Together' \in SUBSET Together
                /\ Len(stack)' = Len(stack)
    <3>1. Together' = Together
      BY <2>2, <2>10 DEF Together, Covered, Holds, Positions, range
    <3> QED
      BY <2>7, <2>10, <3>1 DEF Partitioning
  <2>11. CASE ScanDown
    <3>1. Partitioning /\ Partitioning' /\ UNCHANGED <<by, block, stack, range>>
      BY <2>11 DEF ScanDown, Partitioning
    <3>2. Apart' < Apart
      <4>1. Apart = len + 1 + j - i /\ Apart' = len + 1 + (j - 1) - i
        BY <2>2, <2>11, <3>1 DEF ScanDown, Apart
      <4> QED
        BY <2>1, <4>1
    <3> QED
      BY <2>2, <2>10, <3>1, <3>2, ToDoFalls
  <2>12. CASE ScanUp
    <3>1. Partitioning /\ Partitioning' /\ UNCHANGED <<by, block, stack, range>>
      BY <2>12 DEF ScanUp, Partitioning
    <3>2. Apart' < Apart
      <4>1. Apart = len + 1 + j - i /\ Apart' = len + 1 + j - (i + 1)
        BY <2>2, <2>12, <3>1 DEF ScanUp, Apart
      <4> QED
        BY <2>1, <4>1
    <3> QED
      BY <2>2, <2>10, <3>1, <3>2, ToDoFalls
  <2>13. CASE Exchange
    <3>1. Partitioning /\ Partitioning' /\ UNCHANGED <<by, block, stack, range>>
      BY <2>13 DEF Exchange, Partitioning
    <3>2. Apart' = Apart /\ AtExchange' < AtExchange
      BY <2>2, <2>13, <3>1 DEF Exchange, Apart, AtExchange
    <3> QED
      BY <2>2, <2>10, <3>1, <3>2, ToDoFalls
  <2>14. CASE Split
    <3>1. PassesLeft' = PassesLeft
      BY <2>7, <2>14 DEF Split
    <3> QED
      BY <2>2, <2>14, <3>1, SplitTogether, ToDoFalls
  <2> QED
    BY <2>3, <2>4, <2>5, <2>6, <2>8, <2>9, <2>11, <2>12, <2>13, <2>14 DEF SortNext
<1> QED
  BY <1>1, SortInvariance, BlockBounded, PTL DEF SortSpec
=============================================================================
