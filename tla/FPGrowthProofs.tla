---------------------------- MODULE FPGrowthProofs ----------------------------
(***************************************************************************)
(* FP-Growth finds every frequent itemset once, with its support, for      *)
(* every number of items and transactions and every support; it comes to   *)
(* an end; and the numbers it prints are those of the itemsets of each     *)
(* length as long as none has more than 12 items.                          *)
(***************************************************************************)
EXTENDS FPGrowth, ItemsetsProofs

-----------------------------------------------------------------------------
(* Folds over finite sets: the elements are taken in the order of CHOOSE.  *)

FoldsOn(f, S, V, v, G) ==
  /\ f[{}] = v
  /\ \A s \in (SUBSET S) \ {{}} :
       f[s \ {CHOOSE x \in s : TRUE}] \in V
         => f[s] = G[<<CHOOSE x \in s : TRUE, f[s \ {CHOOSE x \in s : TRUE}]>>]

Folds(f, S, v, G) ==
  /\ f[{}] = v
  /\ \A s \in (SUBSET S) \ {{}} :
       f[s] = G[<<CHOOSE x \in s : TRUE, f[s \ {CHOOSE x \in s : TRUE}]>>]

Keeps(S, V, G, Q) ==
  \A s \in SUBSET S, x \in S, w \in V :
    x \notin s /\ << s, w >> \in Q => << s \cup {x}, G[<<x, w>>] >> \in Q

\* What a fold defines exists.
LEMMA FoldExists ==
  ASSUME NEW S, IsFiniteSet(S), NEW V, NEW v \in V, NEW G \in [S \X V -> V]
  PROVE  \E f \in [SUBSET S -> V] : Folds(f, S, v, G)
<1> DEFINE N == Cardinality(S)
           C(s) == CHOOSE x \in s : TRUE
           W == [SUBSET S -> V]
           next(g) == [s \in SUBSET S |->
                         IF s = {} THEN v ELSE G[<<C(s), g[s \ {C(s)}]>>]]
           H == [p \in (0 .. N) \X W |-> next(p[2])]
           first == [s \in SUBSET S |-> v]
<1>1. N \in Nat
  BY FS_CardinalityType
<1>2. \A s \in (SUBSET S) \ {{}} : C(s) \in S /\ C(s) \in s /\ s \ {C(s)} \in SUBSET S
  OBVIOUS
<1> HIDE DEF C
<1>3. \A s \in SUBSET S : IsFiniteSet(s) /\ Cardinality(s) \in 0 .. N
  BY FS_Subset, FS_CardinalityType, <1>1
<1>4. \A s \in (SUBSET S) \ {{}} :
        /\ Cardinality(s) \in 1 .. N
        /\ Cardinality(s \ {C(s)}) = Cardinality(s) - 1
  <2> TAKE s \in (SUBSET S) \ {{}}
  <2>1. IsFiniteSet(s) /\ Cardinality(s) \in 0 .. N /\ C(s) \in s
    BY <1>2, <1>3
  <2>2. Cardinality(s) # 0
    BY <2>1, FS_EmptySet
  <2> DEFINE c == C(s)
  <2>0. IsFiniteSet(s) /\ c \in s
    BY <2>1
  <2> HIDE DEF c
  <2>3. Cardinality(s \ {c}) = Cardinality(s) - 1
    BY <2>0, FS_RemoveElement
  <2> QED
    BY <1>1, <2>1, <2>2, <2>3 DEF c
<1>5. ASSUME NEW g \in W PROVE next(g) \in W
  <2>1. \A s \in (SUBSET S) \ {{}} : <<C(s), g[s \ {C(s)}]>> \in S \X V
    BY <1>2
  <2> QED
    BY <2>1
<1>6. H \in [(0 .. N) \X W -> W] /\ \A i \in 0 .. N, g \in W : H[<<i, g>>] = next(g)
  BY <1>5
<1>7. first \in W /\ first[{}] = v
  OBVIOUS
<1> HIDE DEF N, W, H, next, first
<1>8. PICK h \in [0 .. N -> W] : Follows(h, N, first, H)
  BY <1>1, <1>6, <1>7, RecursionExists
<1>9. h[0] = first /\ \A i \in 1 .. N : h[i] = next(h[i - 1])
  <2>1. h[0] = first /\ \A i \in 1 .. N : h[i] = H[<<i, h[i - 1]>>]
    BY <1>8 DEF Follows
  <2>2. \A i \in 1 .. N : i \in 0 .. N /\ h[i - 1] \in W
    BY <1>1, <1>8
  <2> QED
    BY <1>6, <2>1, <2>2
<1> DEFINE f == [s \in SUBSET S |-> h[Cardinality(s)][s]]
<1>10. f \in [SUBSET S -> V]
  BY <1>3, <1>8 DEF W
<1>11. f[{}] = v
  <2>1. Cardinality({}) = 0
    BY FS_EmptySet
  <2> QED
    BY <1>7, <1>9, <2>1
<1>12. ASSUME NEW s \in (SUBSET S) \ {{}}
       PROVE  f[s] = G[<<C(s), f[s \ {C(s)}]>>]
  <2> DEFINE k == Cardinality(s)
             u == s \ {C(s)}
  <2>1. k \in 1 .. N /\ Cardinality(u) = k - 1 /\ u \in SUBSET S
    BY <1>2, <1>4
  <2>2. f[s] = h[k][s] /\ f[u] = h[k - 1][u]
    BY <2>1
  <2>3. h[k] = next(h[k - 1])
    BY <1>9, <2>1
  <2>4. next(h[k - 1])[s] = G[<<C(s), h[k - 1][u]>>]
    BY DEF next
  <2> QED
    BY <2>2, <2>3, <2>4
<1> HIDE DEF f
<1> QED
  BY <1>10, <1>11, <1>12 DEF C, Folds

\* What holds of the empty set and with each element more holds of the fold.
LEMMA FoldInduction ==
  ASSUME NEW S, IsFiniteSet(S), NEW V, NEW v \in V, NEW G \in [S \X V -> V],
         NEW f, FoldsOn(f, S, V, v, G),
         NEW Q, <<{}, v>> \in Q, Keeps(S, V, G, Q)
  PROVE  f[S] \in V /\ <<S, f[S]>> \in Q
<1> DEFINE N == Cardinality(S)
           C(s) == CHOOSE x \in s : TRUE
           T == {k \in 0 .. N : \A s \in SUBSET S :
                   Cardinality(s) = k => f[s] \in V /\ <<s, f[s]>> \in Q}
<1>1. N \in Nat
  BY FS_CardinalityType
<1>2. \A s \in (SUBSET S) \ {{}} : C(s) \in S /\ C(s) \in s /\ s \ {C(s)} \in SUBSET S
  OBVIOUS
<1>3. \A s \in SUBSET S : IsFiniteSet(s) /\ Cardinality(s) \in Nat
  BY FS_Subset, FS_CardinalityType
<1>4. \A s \in (SUBSET S) \ {{}} : f[s \ {C(s)}] \in V => f[s] = G[<<C(s), f[s \ {C(s)}]>>]
  BY DEF FoldsOn
<1>5. f[{}] = v
  BY DEF FoldsOn
<1> HIDE DEF C
<1>6. 0 \in T
  <2>1. \A s \in SUBSET S : Cardinality(s) = 0 => s = {}
    BY <1>3, FS_EmptySet
  <2>2. f[{}] \in V /\ <<{}, f[{}]>> \in Q
    BY <1>5
  <2>3. \A s \in SUBSET S : Cardinality(s) = 0 => f[s] \in V /\ <<s, f[s]>> \in Q
    BY <2>1, <2>2
  <2> QED
    BY <1>1, <2>3
<1>7. ASSUME NEW k \in 0 .. N - 1, k \in T PROVE k + 1 \in T
  <2> SUFFICES ASSUME NEW s \in SUBSET S, Cardinality(s) = k + 1
               PROVE  f[s] \in V /\ <<s, f[s]>> \in Q
    BY <1>1
  <2>1. s # {}
    <3>1. s = {} => Cardinality(s) = 0
      BY FS_EmptySet
    <3> QED
      BY <3>1
  <2> DEFINE u == s \ {C(s)}
  <2>2. C(s) \in S /\ C(s) \in s /\ u \in SUBSET S /\ C(s) \notin u /\ s = u \cup {C(s)}
    BY <1>2, <2>1
  <2>3. Cardinality(u) = k
    <3>1. Cardinality(u) = Cardinality(s) - 1
      BY <1>3, <2>2, FS_RemoveElement
    <3> QED
      BY <3>1
  <2>4. f[u] \in V /\ <<u, f[u]>> \in Q
    BY <1>7, <2>2, <2>3
  <2>5. f[s] = G[<<C(s), f[u]>>]
    BY <1>4, <2>1, <2>4
  <2> HIDE DEF u
  <2>6. G[<<C(s), f[u]>>] \in V
    BY <2>2, <2>4
  <2>7. <<u \cup {C(s)}, G[<<C(s), f[u]>>]>> \in Q
    BY <2>2, <2>4 DEF Keeps
  <2> QED
    BY <2>2, <2>5, <2>6, <2>7
<1>8. \A k \in 0 .. N : k \in T
  <2> HIDE DEF T
  <2> QED
    BY <1>1, <1>6, <1>7, 0 \in Nat, IntervalInduction
<1>9. N \in T
  BY <1>1, <1>8
<1> QED
  BY <1>9

-----------------------------------------------------------------------------
(* Vectors and their nodes.                                                *)

\* The nodes on a path are its prefixes of one item and more.
LEMMA NodePrefix ==
  ASSUME NEW s \in Seq(Item)
  PROVE  \A p : p \in NodesOn(s) <=> \E l \in 1 .. Len(s) : p = SubSeq(s, 1, l)
<1>1. \A l \in 0 .. Len(s) : Len(SubSeq(s, 1, l)) = l
  BY PrefixType
<1>2. Len(<< >>) = 0
  OBVIOUS
<1>3. Prefixes(s) = {SubSeq(s, 1, l) : l \in 0 .. Len(s)}
  BY DEF Prefixes
<1>4. \A l \in 0 .. Len(s) : SubSeq(s, 1, l) # << >> <=> l \in 1 .. Len(s)
  <2> TAKE l \in 0 .. Len(s)
  <2>1. l = 0 \/ l \in 1 .. Len(s)
    OBVIOUS
  <2>2. l = 0 => SubSeq(s, 1, l) = << >>
    BY <1>1, PrefixType, EmptySeq
  <2>3. l \in 1 .. Len(s) => SubSeq(s, 1, l) # << >>
    BY <1>1, <1>2
  <2> QED
    BY <2>1, <2>2, <2>3
<1> QED
  BY <1>3, <1>4 DEF NodesOn

LEMMA NodeType ==
  ASSUME NEW s \in Seq(Item), NEW l \in 1 .. Len(s)
  PROVE  /\ SubSeq(s, 1, l) \in NodesOn(s)
         /\ SubSeq(s, 1, l) \in Seq(Item) /\ Len(SubSeq(s, 1, l)) = l
         /\ \A i \in 1 .. l : SubSeq(s, 1, l)[i] = s[i]
         /\ SubSeq(s, 1, l) # << >>
         /\ s[l] \in Item
         /\ Last(SubSeq(s, 1, l)) = s[l]
         /\ ToSet(SubSeq(s, 1, l)) = {s[i] : i \in 1 .. l}
         /\ PrefixItems(SubSeq(s, 1, l)) = {s[i] : i \in 1 .. l - 1}
<1> DEFINE p == SubSeq(s, 1, l)
<1>1. l \in 0 .. Len(s) /\ l \in Nat \ {0} /\ s[l] \in Item
  OBVIOUS
<1>2. /\ p \in Seq(Item) /\ Len(p) = l
      /\ \A i \in 1 .. l : p[i] = s[i]
  BY <1>1, PrefixType
<1>3. p \in NodesOn(s)
  BY NodePrefix
<1> HIDE DEF p
<1>4. p # << >>
  BY <1>1, <1>2
<1>5. Last(p) = s[l]
  BY <1>1, <1>2 DEF Last
<1>6. DOMAIN p = 1 .. l
  BY <1>2
<1>7. ToSet(p) = {s[i] : i \in 1 .. l}
  BY <1>2, <1>6 DEF ToSet
<1>8. PrefixItems(p) = {s[i] : i \in 1 .. l - 1}
  <2> DEFINE q == Front(p)
  <2>1. q \in Seq(Item) /\ Len(q) = l - 1 /\ \A i \in 1 .. l - 1 : q[i] = p[i]
    BY <1>2, <1>4, FrontType
  <2> HIDE DEF q
  <2>2. DOMAIN q = 1 .. l - 1 /\ \A i \in 1 .. l - 1 : q[i] = s[i]
    BY <1>1, <1>2, <2>1
  <2>3. ToSet(q) = {s[i] : i \in 1 .. l - 1}
    BY <2>2 DEF ToSet
  <2> QED
    BY <2>3 DEF PrefixItems, q
<1> QED
  BY <1>1, <1>2, <1>3, <1>4, <1>5, <1>7, <1>8 DEF p

\* A path that does not repeat an item has one node for each.
LEMMA OneNode ==
  ASSUME NEW s \in Seq(Item), IsInjective(s)
  PROVE  /\ \A p \in NodesOn(s), q \in NodesOn(s) : Last(p) = Last(q) => p = q
         /\ \A a \in ToSet(s) : \E p \in NodesOn(s) : Last(p) = a
         /\ \A p \in NodesOn(s) : Last(p) \in ToSet(s) /\ Last(p) \in Item
         /\ \A p \in NodesOn(s) : p \in Seq(Item) /\ IsInjective(p)
<1>1. \A i, j \in 1 .. Len(s) : s[i] = s[j] => i = j
  BY DEF IsInjective
<1>2. \A p : p \in NodesOn(s) <=> \E l \in 1 .. Len(s) : p = SubSeq(s, 1, l)
  BY NodePrefix
<1>3. \A l \in 1 .. Len(s) : /\ Last(SubSeq(s, 1, l)) = s[l] /\ s[l] \in Item
                             /\ SubSeq(s, 1, l) \in Seq(Item)
                             /\ SubSeq(s, 1, l) \in NodesOn(s)
                             /\ Len(SubSeq(s, 1, l)) = l
                             /\ \A i \in 1 .. l : SubSeq(s, 1, l)[i] = s[i]
  BY NodeType
<1>4. \A a : a \in ToSet(s) <=> \E l \in 1 .. Len(s) : a = s[l]
  BY DEF ToSet
<1>5. ASSUME NEW l \in 1 .. Len(s) PROVE IsInjective(SubSeq(s, 1, l))
  <2> DEFINE p == SubSeq(s, 1, l)
  <2>1. DOMAIN p = 1 .. l /\ \A i \in 1 .. l : p[i] = s[i] /\ i \in 1 .. Len(s)
    BY <1>3
  <2> HIDE DEF p
  <2>2. IsInjective(p)
    BY <1>1, <2>1 DEF IsInjective
  <2> QED
    BY <2>2 DEF p
<1>6. ASSUME NEW p \in NodesOn(s)
      PROVE  /\ p \in Seq(Item) /\ IsInjective(p)
             /\ Last(p) \in ToSet(s) /\ Last(p) \in Item
  <2>1. PICK l \in 1 .. Len(s) : p = SubSeq(s, 1, l)
    BY <1>2
  <2> QED
    BY <1>3, <1>4, <1>5, <2>1
<1>7. ASSUME NEW p \in NodesOn(s), NEW q \in NodesOn(s), Last(p) = Last(q)
      PROVE  p = q
  <2>1. PICK l \in 1 .. Len(s) : p = SubSeq(s, 1, l)
    BY <1>2
  <2>2. PICK m \in 1 .. Len(s) : q = SubSeq(s, 1, m)
    BY <1>2
  <2>3. s[l] = s[m]
    BY <1>3, <1>7, <2>1, <2>2
  <2> QED
    BY <1>1, <2>1, <2>2, <2>3
<1>8. ASSUME NEW a \in ToSet(s) PROVE \E p \in NodesOn(s) : Last(p) = a
  <2>1. PICK l \in 1 .. Len(s) : a = s[l]
    BY <1>4
  <2> QED
    BY <1>3, <2>1
<1> QED
  BY <1>6, <1>7, <1>8

\* Of the nodes on a path one is the first that has all items of a set on the
\* way to it.
LEMMA OneEnd ==
  ASSUME NEW s \in Seq(Item), IsInjective(s), NEW X, X # {}
  PROVE  /\ \A p \in NodesOn(s), q \in NodesOn(s) :
              /\ Last(p) \in X /\ X \subseteq ToSet(p)
              /\ Last(q) \in X /\ X \subseteq ToSet(q)
              => p = q
         /\ X \subseteq ToSet(s)
              => \E p \in NodesOn(s) : Last(p) \in X /\ X \subseteq ToSet(p)
         /\ \A p \in NodesOn(s) : ToSet(p) \subseteq ToSet(s)
<1>1. \A i, j \in 1 .. Len(s) : s[i] = s[j] => i = j
  BY DEF IsInjective
<1>2. \A p : p \in NodesOn(s) <=> \E l \in 1 .. Len(s) : p = SubSeq(s, 1, l)
  BY NodePrefix
<1>3. \A l \in 1 .. Len(s) : /\ Last(SubSeq(s, 1, l)) = s[l]
                             /\ ToSet(SubSeq(s, 1, l)) = {s[i] : i \in 1 .. l}
  BY NodeType
<1>4. \A a : a \in ToSet(s) <=> \E l \in 1 .. Len(s) : a = s[l]
  BY DEF ToSet
<1>5. ASSUME NEW l \in 1 .. Len(s), NEW m \in 1 .. Len(s),
             s[l] \in X, X \subseteq {s[i] : i \in 1 .. l},
             s[m] \in X, X \subseteq {s[i] : i \in 1 .. m}
      PROVE  l = m
  <2>1. PICK i \in 1 .. l : s[m] = s[i]
    BY <1>5
  <2>2. PICK j \in 1 .. m : s[l] = s[j]
    BY <1>5
  <2>3. i \in 1 .. Len(s) /\ j \in 1 .. Len(s)
    OBVIOUS
  <2>4. m = i /\ l = j
    BY <1>1, <2>1, <2>2, <2>3
  <2> QED
    BY <2>4
<1>6. ASSUME X \subseteq ToSet(s)
      PROVE  \E l \in 1 .. Len(s) : s[l] \in X /\ X \subseteq {s[i] : i \in 1 .. l}
  <2> DEFINE L == {l \in 1 .. Len(s) : X \subseteq {s[i] : i \in 1 .. l}}
  <2>1. Len(s) \in Nat
    OBVIOUS
  <2>2. Len(s) \in 1 .. Len(s)
    <3>1. PICK a \in X : TRUE
      OBVIOUS
    <3>2. \E l \in 1 .. Len(s) : a = s[l]
      BY <1>4, <1>6
    <3> QED
      BY <2>1, <3>2
  <2>3. X \subseteq {s[i] : i \in 1 .. Len(s)}
    BY <1>4, <1>6
  <2>4. L \in SUBSET Nat /\ L # {}
    BY <2>2, <2>3
  <2> HIDE DEF L
  <2>5. PICK l \in L : \A m \in L : l <= m
    BY <2>4, LeastNatural
  <2>6. l \in 1 .. Len(s) /\ X \subseteq {s[i] : i \in 1 .. l}
    BY <2>5 DEF L
  <2>7. ASSUME s[l] \notin X PROVE FALSE
    <3>1. X \subseteq {s[i] : i \in 1 .. l - 1}
      <4>1. \A i \in 1 .. l : i = l \/ i \in 1 .. l - 1
        BY <2>6
      <4> QED
        BY <2>6, <2>7, <4>1
    <3>2. CASE l = 1
      <4>1. 1 .. l - 1 = {}
        BY <3>2
      <4> QED
        BY <3>1, <4>1
    <3>3. CASE l # 1
      <4>1. l - 1 \in 1 .. Len(s) /\ ~ l <= l - 1
        BY <2>6, <3>3
      <4>2. l - 1 \in L
        BY <3>1, <4>1 DEF L
      <4> QED
        BY <2>5, <4>1, <4>2
    <3> QED
      BY <3>2, <3>3
  <2> QED
    BY <2>6, <2>7
<1>7. ASSUME NEW p \in NodesOn(s), NEW q \in NodesOn(s),
             Last(p) \in X, X \subseteq ToSet(p), Last(q) \in X, X \subseteq ToSet(q)
      PROVE  p = q
  <2>1. PICK l \in 1 .. Len(s) : p = SubSeq(s, 1, l)
    BY <1>2
  <2>2. PICK m \in 1 .. Len(s) : q = SubSeq(s, 1, m)
    BY <1>2
  <2>3. l = m
    BY <1>3, <1>5, <1>7, <2>1, <2>2
  <2> QED
    BY <2>1, <2>2, <2>3
<1>8. ASSUME X \subseteq ToSet(s)
      PROVE  \E p \in NodesOn(s) : Last(p) \in X /\ X \subseteq ToSet(p)
  <2>1. PICK l \in 1 .. Len(s) : s[l] \in X /\ X \subseteq {s[i] : i \in 1 .. l}
    BY <1>6, <1>8
  <2> QED
    BY <1>2, <1>3, <2>1
<1>9. ASSUME NEW p \in NodesOn(s) PROVE ToSet(p) \subseteq ToSet(s)
  <2>1. PICK l \in 1 .. Len(s) : p = SubSeq(s, 1, l)
    BY <1>2
  <2>2. \A i \in 1 .. l : i \in 1 .. Len(s)
    OBVIOUS
  <2> QED
    BY <1>3, <1>4, <2>1, <2>2
<1> QED
  BY <1>7, <1>8, <1>9

\* Vectors by decreasing count list a set of items once.
LEMMA PrecedesOrder ==
  ASSUME NEW counts \in [Item -> Nat], NEW i \in Item, NEW j \in Item, NEW k \in Item
  PROVE  /\ ~ Precedes(counts, i, i)
         /\ i # j => Precedes(counts, i, j) \/ Precedes(counts, j, i)
         /\ ~ (Precedes(counts, i, j) /\ Precedes(counts, j, i))
         /\ Precedes(counts, i, j) /\ Precedes(counts, j, k) => Precedes(counts, i, k)
<1>1. /\ counts[i] \in Nat /\ counts[j] \in Nat /\ counts[k] \in Nat
      /\ i \in Int /\ j \in Int /\ k \in Int
  BY DEF Item
<1> QED
  BY <1>1 DEF Precedes

LEMMA InOrderType ==
  ASSUME NEW counts \in [Item -> Nat], NEW X \in SUBSET Item
  PROVE  /\ InOrder(X, counts) \in Seq(Item)
         /\ Len(InOrder(X, counts)) = Cardinality(X)
         /\ \A m, n \in DOMAIN InOrder(X, counts) : m < n =>
              Precedes(counts, InOrder(X, counts)[m], InOrder(X, counts)[n])
         /\ IsInjective(InOrder(X, counts))
         /\ ToSet(InOrder(X, counts)) = X
<1> DEFINE R == {p \in X \X X : Precedes(counts, p[1], p[2])}
<1>1. IsFiniteSet(X) /\ X \subseteq Item
  BY FiniteSets
<1>2. \A x, y \in X : <<x, y>> \in R <=> Precedes(counts, x, y)
  OBVIOUS
<1> HIDE DEF R
<1>3. /\ \A x \in X : <<x, x>> \notin R
      /\ \A x, y \in X : x # y => <<x, y>> \in R \/ <<y, x>> \in R
      /\ \A x, y, z \in X : <<x, y>> \in R /\ <<y, z>> \in R => <<x, z>> \in R
  BY <1>1, <1>2, PrecedesOrder
<1>4. /\ Cardinality(X) \in Nat
      /\ \A u \in 0 .. Cardinality(X) - 1 : \E x \in X, U \in SUBSET X :
           /\ Cardinality(U) = u
           /\ \A y \in X : y \in U <=> <<y, x>> \in R
  BY <1>1, <1>3, RankTaken
<1> DEFINE At(n) == CHOOSE x \in X : Cardinality({y \in X : Precedes(counts, y, x)}) = n - 1
           q == InOrder(X, counts)
<1>5. ASSUME NEW n \in 1 .. Cardinality(X)
      PROVE  At(n) \in X /\ Cardinality({y \in X : Precedes(counts, y, At(n))}) = n - 1
  <2>1. n - 1 \in 0 .. Cardinality(X) - 1
    BY <1>4
  <2>2. PICK x \in X, U \in SUBSET X :
          Cardinality(U) = n - 1 /\ \A y \in X : y \in U <=> <<y, x>> \in R
    BY <1>4, <2>1
  <2>3. U = {y \in X : Precedes(counts, y, x)}
    BY <1>2, <2>2
  <2>4. \E z \in X : Cardinality({y \in X : Precedes(counts, y, z)}) = n - 1
    BY <2>2, <2>3
  <2> QED
    BY <2>4
<1>6. q = [n \in 1 .. Cardinality(X) |-> At(n)]
  BY DEF InOrder, Sorted
<1>7. q \in [1 .. Cardinality(X) -> X]
  BY <1>5, <1>6
<1>8. ASSUME NEW n \in 1 .. Cardinality(X)
      PROVE  \E U \in SUBSET X :
               Cardinality(U) = n - 1 /\ \A y \in X : y \in U <=> <<y, q[n]>> \in R
  <2>1. q[n] = At(n) /\ q[n] \in X
    BY <1>6, <1>7
  <2> DEFINE U == {y \in X : Precedes(counts, y, At(n))}
  <2>2. U \in SUBSET X /\ Cardinality(U) = n - 1
    BY <1>5
  <2> HIDE DEF At
  <2>3. \A y \in X : y \in U <=> <<y, q[n]>> \in R
    BY <1>2, <2>1
  <2> QED
    BY <2>2, <2>3
<1> HIDE DEF q, At
<1>9. /\ \A m, n \in DOMAIN q : m < n => <<q[m], q[n]>> \in R
      /\ \A m, n \in DOMAIN q : q[m] = q[n] => m = n
      /\ \A x \in X : \E n \in DOMAIN q : q[n] = x
  BY <1>1, <1>3, <1>7, <1>8, RanksListed
<1> DEFINE c == Cardinality(X)
<1>10. c \in Nat /\ q \in [1 .. c -> X]
  BY <1>4, <1>7
<1> HIDE DEF c
<1>11. q \in Seq(X) /\ Len(q) = c /\ q \in Seq(Item)
  BY <1>1, <1>10
<1>12. \A n \in DOMAIN q : q[n] \in X
  BY <1>10
<1>13. \A m, n \in DOMAIN q : m < n => Precedes(counts, q[m], q[n])
  BY <1>2, <1>9, <1>12
<1>14. IsInjective(q)
  BY <1>9 DEF IsInjective
<1>15. ToSet(q) = X
  BY <1>9, <1>12 DEF ToSet
<1> QED
  BY <1>11, <1>13, <1>14, <1>15 DEF q, c

\* The items before an item in a vector are those of the vector that precede it.
LEMMA ItemsBefore ==
  ASSUME NEW counts \in [Item -> Nat], NEW X \in SUBSET Item,
         NEW p \in NodesOn(InOrder(X, counts))
  PROVE  PrefixItems(p) = {i \in X : Precedes(counts, i, Last(p))}
<1> DEFINE s == InOrder(X, counts)
<1>1. /\ s \in Seq(Item)
      /\ \A m, n \in 1 .. Len(s) : m < n => Precedes(counts, s[m], s[n])
      /\ \A i : i \in X <=> \E m \in 1 .. Len(s) : i = s[m]
  BY InOrderType DEF ToSet
<1> HIDE DEF s
<1>2. PICK l \in 1 .. Len(s) : p = SubSeq(s, 1, l)
  BY <1>1, NodePrefix DEF s
<1>3. Last(p) = s[l] /\ PrefixItems(p) = {s[i] : i \in 1 .. l - 1}
  BY <1>1, <1>2, NodeType
<1>4. \A m \in 1 .. Len(s) : s[m] \in Item
  BY <1>1
<1>5. ASSUME NEW m \in 1 .. Len(s) PROVE Precedes(counts, s[m], s[l]) <=> m \in 1 .. l - 1
  <2>1. s[m] \in Item /\ s[l] \in Item /\ Len(s) \in Nat
    BY <1>1, <1>4
  <2>2. m < l \/ m = l \/ l < m
    OBVIOUS
  <2>3. m < l => Precedes(counts, s[m], s[l])
    BY <1>1
  <2>4. l < m => Precedes(counts, s[l], s[m])
    BY <1>1
  <2>5. ~ Precedes(counts, s[l], s[l])
    BY <2>1, PrecedesOrder
  <2>6. ~ (Precedes(counts, s[l], s[m]) /\ Precedes(counts, s[m], s[l]))
    BY <2>1, PrecedesOrder
  <2>7. m < l <=> m \in 1 .. l - 1
    OBVIOUS
  <2> QED
    BY <2>2, <2>3, <2>4, <2>5, <2>6, <2>7
<1>6. \A m \in 1 .. l - 1 : m \in 1 .. Len(s)
  OBVIOUS
<1> QED
  BY <1>1, <1>3, <1>5, <1>6

-----------------------------------------------------------------------------
(* Grown trees.  A node counts the transactions whose vectors it is on.    *)

Paths(v) == v \in [Tid -> Seq(Item)] /\ \A x \in Tid : IsInjective(v[x])

At(T, v, p) == {x \in T : p \in NodesOn(v[x])}

LEMMA GrownNodes ==
  ASSUME NEW T \in SUBSET Tid, NEW v
  PROVE  /\ \A p : p \in DOMAIN Grown(T, v) <=> \E x \in T : p \in NodesOn(v[x])
         /\ \A p \in DOMAIN Grown(T, v) : Grown(T, v)[p] = Cardinality(At(T, v, p))
         /\ Grown(T, v) = [p \in DOMAIN Grown(T, v) |-> Cardinality(At(T, v, p))]
<1> DEFINE D == UNION {NodesOn(v[x]) : x \in T}
<1>1. Grown(T, v) = [p \in D |-> Cardinality(At(T, v, p))]
  BY DEF Grown, At
<1>2. \A p : p \in D <=> \E x \in T : p \in NodesOn(v[x])
  OBVIOUS
<1> HIDE DEF D
<1> QED
  BY <1>1, <1>2

LEMMA FiniteNodes ==
  ASSUME NEW s \in Seq(Item)
  PROVE  IsFiniteSet(NodesOn(s))
<1> DEFINE n == Len(s)
           f == [l \in 1 .. n |-> SubSeq(s, 1, l)]
<1>1. IsFiniteSet(1 .. n)
  <2>1. n \in Nat
    OBVIOUS
  <2> HIDE DEF n
  <2> QED
    BY <2>1, FS_Interval
<1>2. NodesOn(s) = {f[l] : l \in 1 .. n}
  BY NodePrefix
<1>3. f \in Surjection(1 .. n, {f[l] : l \in 1 .. n})
  BY DEF Surjection
<1> HIDE DEF f
<1> QED
  BY <1>1, <1>2, <1>3, FS_Surjection

LEMMA GrownType ==
  ASSUME NEW T \in SUBSET Tid, NEW v, Paths(v)
  PROVE  /\ IsFiniteSet(DOMAIN Grown(T, v))
         /\ \A p \in DOMAIN Grown(T, v) :
              /\ p \in Seq(Item) /\ IsInjective(p)
              /\ Last(p) \in Item
              /\ Grown(T, v)[p] \in 1 .. NumTxn
              /\ Grown(T, v)[p] = Cardinality(At(T, v, p))
<1>1. \A x \in T : v[x] \in Seq(Item) /\ IsInjective(v[x])
  BY DEF Paths
<1> DEFINE D == {NodesOn(v[x]) : x \in T}
           f == [x \in T |-> NodesOn(v[x])]
<1>2. IsFiniteSet(D)
  <2>1. f \in Surjection(T, D)
    BY DEF Surjection
  <2>2. IsFiniteSet(T)
    BY FiniteSets
  <2> HIDE DEF f, D
  <2> QED
    BY <2>1, <2>2, FS_Surjection
<1>3. \A N \in D : IsFiniteSet(N)
  BY <1>1, FiniteNodes
<1>4. DOMAIN Grown(T, v) = UNION D
  BY DEF Grown
<1> HIDE DEF D
<1>5. IsFiniteSet(DOMAIN Grown(T, v))
  BY <1>2, <1>3, <1>4, FS_UNION
<1>6. ASSUME NEW p \in DOMAIN Grown(T, v)
      PROVE  /\ p \in Seq(Item) /\ IsInjective(p)
             /\ Last(p) \in Item
             /\ Grown(T, v)[p] \in 1 .. NumTxn
             /\ Grown(T, v)[p] = Cardinality(At(T, v, p))
  <2>1. Grown(T, v)[p] = Cardinality(At(T, v, p))
    BY GrownNodes
  <2>2. PICK x \in T : p \in NodesOn(v[x])
    BY GrownNodes
  <2>3. p \in Seq(Item) /\ IsInjective(p) /\ Last(p) \in Item
    BY <1>1, <2>2, OneNode
  <2> DEFINE A == At(T, v, p)
  <2>4. A \in SUBSET Tid /\ x \in A
    BY <2>2 DEF At
  <2> HIDE DEF A
  <2>5. IsFiniteSet(A) /\ Cardinality(A) \in Nat /\ IsFiniteSet(Tid)
    BY <2>4, FiniteSets
  <2>6. Cardinality(A) # 0
    BY <2>4, <2>5, FS_EmptySet
  <2>7. Cardinality(A) <= Cardinality(Tid)
    BY <2>4, <2>5, FS_Subset
  <2>8. Cardinality(Tid) = NumTxn
    BY SizesAssumption, FS_Interval DEF Tid
  <2>9. Cardinality(A) \in 1 .. NumTxn
    BY <2>5, <2>6, <2>7, <2>8, SizesAssumption
  <2> QED
    BY <2>1, <2>3, <2>9 DEF A
<1> QED
  BY <1>5, <1>6

\* The counts of nodes that no path passes two of add up to the number of
\* transactions whose paths pass one.
LEMMA SumNodes ==
  ASSUME NEW T \in SUBSET Tid, NEW v, Paths(v),
         NEW P \in SUBSET DOMAIN Grown(T, v),
         \A x \in T, p \in P, q \in P :
           p \in NodesOn(v[x]) /\ q \in NodesOn(v[x]) => p = q
  PROVE  SumOver(P, Grown(T, v)) = Cardinality({x \in T : \E p \in P : p \in NodesOn(v[x])})
<1> DEFINE t == Grown(T, v)
           Passing(s) == {x \in T : \E p \in s : p \in NodesOn(v[x])}
           G == [a \in P \X Nat |-> a[2] + t[a[1]]]
           Q == {a \in (SUBSET P) \X Nat : a[2] = Cardinality(Passing(a[1]))}
           f == CHOOSE g : g = [s \in SUBSET P |->
                                  IF s = {} THEN 0
                                  ELSE g[s \ {CHOOSE p \in s : TRUE}]
                                         + t[CHOOSE p \in s : TRUE]]
<1>1. /\ IsFiniteSet(P)
      /\ \A p \in P : t[p] \in Nat /\ t[p] = Cardinality(At(T, v, p))
  BY GrownType, FS_Subset
<1>2. SumOver(P, t) = f[P]
  BY DEF SumOver, FoldSet, MapThenFoldSet
<1>3. G \in [P \X Nat -> Nat] /\ \A p \in P, n \in Nat : G[<<p, n>>] = n + t[p]
  BY <1>1
<1> HIDE DEF G
<1>4. f = [s \in SUBSET P |-> IF s = {} THEN 0
                              ELSE f[s \ {CHOOSE p \in s : TRUE}]
                                     + t[CHOOSE p \in s : TRUE]]
  <2>0. PICK g \in [SUBSET P -> Nat] : Folds(g, P, 0, G)
    BY <1>1, <1>3, 0 \in Nat, FoldExists
  <2>1. /\ g[{}] = 0
        /\ \A s \in (SUBSET P) \ {{}} :
             g[s] = G[<<CHOOSE p \in s : TRUE, g[s \ {CHOOSE p \in s : TRUE}]>>]
    BY <2>0 DEF Folds
  <2>2. ASSUME NEW s \in (SUBSET P) \ {{}}
        PROVE  g[s] = g[s \ {CHOOSE p \in s : TRUE}] + t[CHOOSE p \in s : TRUE]
    <3>1. (CHOOSE p \in s : TRUE) \in P /\ s \ {CHOOSE p \in s : TRUE} \in SUBSET P
      OBVIOUS
    <3>2. g[s \ {CHOOSE p \in s : TRUE}] \in Nat
      BY <3>1
    <3> QED
      BY <1>3, <2>1, <3>1, <3>2
  <2> HIDE DEF t
  <2>3. g = [s \in SUBSET P |-> IF s = {} THEN 0
                                ELSE g[s \ {CHOOSE p \in s : TRUE}]
                                       + t[CHOOSE p \in s : TRUE]]
    BY <2>1, <2>2
  <2> QED
    BY <2>3
<1> HIDE DEF f, t
<1>5. FoldsOn(f, P, Nat, 0, G)
  <2>1. f[{}] = 0
    BY <1>4
  <2>2. ASSUME NEW s \in (SUBSET P) \ {{}}, f[s \ {CHOOSE p \in s : TRUE}] \in Nat
        PROVE  f[s] = G[<<CHOOSE p \in s : TRUE, f[s \ {CHOOSE p \in s : TRUE}]>>]
    <3>1. (CHOOSE p \in s : TRUE) \in P
      OBVIOUS
    <3>2. f[s] = f[s \ {CHOOSE p \in s : TRUE}] + t[CHOOSE p \in s : TRUE]
      BY <1>4
    <3> QED
      BY <1>3, <2>2, <3>1, <3>2
  <2> QED
    BY <2>1, <2>2 DEF FoldsOn
<1>6. << {}, 0 >> \in Q
  <2>1. Passing({}) = {} /\ Cardinality({}) = 0
    BY FS_EmptySet
  <2> QED
    BY <2>1
<1>7. ASSUME NEW s \in SUBSET P, NEW p \in P, NEW n \in Nat, p \notin s,
             << s, n >> \in Q
      PROVE  << s \cup {p}, G[<<p, n>>] >> \in Q
  <2>1. n = Cardinality(Passing(s))
    BY <1>7
  <2> DEFINE A == Passing(s)
             B == At(T, v, p)
  <2>2. Passing(s \cup {p}) = A \cup B /\ A \cap B = {}
    BY <1>7 DEF At
  <2>3. IsFiniteSet(A) /\ IsFiniteSet(B)
    BY FiniteSets DEF At
  <2> HIDE DEF A, B
  <2>4. Cardinality(A \cap B) = 0 /\ Cardinality(A) \in Nat /\ Cardinality(B) \in Nat
    BY <2>2, <2>3, FS_EmptySet, FS_CardinalityType
  <2>5. Cardinality(A \cup B) = Cardinality(A) + Cardinality(B)
    <3>1. Cardinality(A \cup B) = Cardinality(A) + Cardinality(B) - Cardinality(A \cap B)
      BY <2>3, FS_Union
    <3> QED
      BY <2>4, <3>1
  <2>6. G[<<p, n>>] = Cardinality(Passing(s \cup {p})) /\ G[<<p, n>>] \in Nat
    BY <1>1, <1>3, <2>1, <2>2, <2>4, <2>5 DEF A, B
  <2> QED
    BY <2>6
<1> HIDE DEF Q
<1>8. << P, f[P] >> \in Q
  <2>1. Keeps(P, Nat, G, Q)
    BY <1>7 DEF Keeps
  <2> QED
    BY <1>1, <1>3, <1>5, <1>6, <2>1, 0 \in Nat, FoldInduction
<1> QED
  BY <1>2, <1>8 DEF Q, t

\* A path inserted with the number of transactions that have it: the tree of
\* them too.
LEMMA InsertMany ==
  ASSUME NEW T \in SUBSET Tid, NEW U \in SUBSET Tid, U # {}, T \cap U = {},
         NEW v, Paths(v), NEW s, \A x \in U : v[x] = s
  PROVE  Insert(Grown(T, v), s, Cardinality(U)) = Grown(T \cup U, v)
<1> DEFINE g == Grown(T, v)
           h == Grown(T \cup U, v)
           c == Cardinality(U)
           D == DOMAIN g \cup NodesOn(s)
<1>1. /\ \A p : p \in DOMAIN g <=> \E x \in T : p \in NodesOn(v[x])
      /\ \A p \in DOMAIN g : g[p] = Cardinality(At(T, v, p))
  BY GrownNodes
<1>2. /\ \A p : p \in DOMAIN h <=> \E x \in T \cup U : p \in NodesOn(v[x])
      /\ \A p \in DOMAIN h : h[p] = Cardinality(At(T \cup U, v, p))
      /\ h = [p \in DOMAIN h |-> Cardinality(At(T \cup U, v, p))]
  <2> DEFINE W == T \cup U
  <2>1. W \in SUBSET Tid
    OBVIOUS
  <2> HIDE DEF W
  <2>2. /\ \A p : p \in DOMAIN Grown(W, v) <=> \E x \in W : p \in NodesOn(v[x])
        /\ \A p \in DOMAIN Grown(W, v) : Grown(W, v)[p] = Cardinality(At(W, v, p))
        /\ Grown(W, v) = [p \in DOMAIN Grown(W, v) |-> Cardinality(At(W, v, p))]
    BY <2>1, GrownNodes
  <2> QED
    BY <2>2 DEF W
<1> HIDE DEF g, h
<1>3. DOMAIN h = D
  <2>1. \A p : p \in DOMAIN h <=> p \in D
    BY <1>1, <1>2
  <2> QED
    BY <2>1
<1>4. ASSUME NEW p \in D
      PROVE  Cardinality(At(T \cup U, v, p)) =
               (IF p \in DOMAIN g THEN g[p] ELSE 0) + (IF p \in NodesOn(s) THEN c ELSE 0)
  <2> DEFINE A == At(T, v, p)
             B == At(U, v, p)
  <2>1. At(T \cup U, v, p) = A \cup B /\ A \cap B = {}
    BY DEF At
  <2>2. B = IF p \in NodesOn(s) THEN U ELSE {}
    BY DEF At
  <2>3. IsFiniteSet(A) /\ IsFiniteSet(B)
    BY FiniteSets DEF At
  <2>4. (p \in DOMAIN g => g[p] = Cardinality(A)) /\ (p \notin DOMAIN g => A = {})
    BY <1>1 DEF At
  <2> HIDE DEF A, B
  <2>5. Cardinality({}) = 0 /\ Cardinality(A) \in Nat /\ Cardinality(B) \in Nat
    BY <2>3, FS_EmptySet, FS_CardinalityType
  <2>6. Cardinality(A \cup B) = Cardinality(A) + Cardinality(B) - Cardinality(A \cap B)
    BY <2>3, FS_Union
  <2>7. Cardinality(A \cup B) = Cardinality(A) + Cardinality(B)
    <3>1. A \cap B = {}
      BY <2>1
    <3>2. Cardinality(A \cap B) = 0
      BY <2>5, <3>1
    <3> QED
      BY <2>5, <2>6, <3>2
  <2>8. Cardinality(A) = IF p \in DOMAIN g THEN g[p] ELSE 0
    BY <2>4, <2>5
  <2>9. Cardinality(B) = IF p \in NodesOn(s) THEN c ELSE 0
    BY <2>2, <2>5
  <2> QED
    BY <2>1, <2>7, <2>8, <2>9
<1>5. Insert(g, s, c) =
        [p \in D |-> (IF p \in DOMAIN g THEN g[p] ELSE 0)
                       + (IF p \in NodesOn(s) THEN c ELSE 0)]
  BY DEF Insert
<1>7. h = [p \in D |-> Cardinality(At(T \cup U, v, p))]
  BY <1>2, <1>3
<1> HIDE DEF D, c
<1>6. h = Insert(g, s, c)
  BY <1>4, <1>5, <1>7
<1> QED
  BY <1>6 DEF g, h, c

\* A tree depends on the vectors of its transactions only.
LEMMA GrownSame ==
  ASSUME NEW T \in SUBSET Tid, NEW v, NEW w, \A x \in T : v[x] = w[x]
  PROVE  Grown(T, v) = Grown(T, w)
<1>1. UNION {NodesOn(v[x]) : x \in T} = UNION {NodesOn(w[x]) : x \in T}
  OBVIOUS
<1>2. \A p : {x \in T : p \in NodesOn(v[x])} = {x \in T : p \in NodesOn(w[x])}
  OBVIOUS
<1> QED
  BY <1>1, <1>2 DEF Grown

\* The tree of no transactions, and of vectors that are all empty.
LEMMA GrownEmpty ==
  ASSUME NEW T \in SUBSET Tid, NEW v, Paths(v)
  PROVE  Grown(T, v) = EmptyTree <=> \A x \in T : ToSet(v[x]) = {}
<1>1. \A x \in T : v[x] \in Seq(Item) /\ IsInjective(v[x])
  BY DEF Paths
<1>2. ASSUME NEW x \in T PROVE NodesOn(v[x]) = {} <=> ToSet(v[x]) = {}
  BY <1>1, OneNode
<1>3. DOMAIN Grown(T, v) = {} <=> \A x \in T : NodesOn(v[x]) = {}
  <2>1. \A p : p \in DOMAIN Grown(T, v) <=> \E x \in T : p \in NodesOn(v[x])
    BY GrownNodes
  <2> QED
    BY <2>1
<1>4. Grown(T, v) = [p \in DOMAIN Grown(T, v) |-> Cardinality(At(T, v, p))]
  BY GrownNodes
<1>5. Grown(T, v) = EmptyTree <=> DOMAIN Grown(T, v) = {}
  BY <1>4 DEF EmptyTree
<1> QED
  BY <1>2, <1>3, <1>5

-----------------------------------------------------------------------------
(* Trees of the transactions with alpha, ordered by counts.                *)

LEMMA InputType ==
  ASSUME InputInv
  PROVE  /\ db \in Database /\ db \in [Tid -> SUBSET Item] /\ epsilon \in Nat \ {0}
         /\ count \in [Item -> 0 .. NumTxn] /\ count \in [Item -> Nat]
         /\ F = Large(count) /\ F \subseteq Item
         /\ \A i \in Item : count[i] = Support(db, {i})
         /\ \A X : Support(db, X) \in 0 .. NumTxn
<1>1. db \in Database /\ db \in [Tid -> SUBSET Item] /\ epsilon \in Nat \ {0}
  BY FPGrowthAssumption DEF InputInv, Database
<1>2. ASSUME NEW X PROVE Support(db, X) \in 0 .. NumTxn
  <2> DEFINE T == Tidset(db, X)
  <2>1. T \in SUBSET Tid
    BY DEF Tidset
  <2> HIDE DEF T
  <2>2. IsFiniteSet(Tid) /\ Cardinality(T) \in Nat
    BY <2>1, FiniteSets
  <2>3. Cardinality(T) <= Cardinality(Tid)
    BY <2>1, <2>2, FS_Subset
  <2>4. Cardinality(Tid) = NumTxn
    BY SizesAssumption, FS_Interval DEF Tid
  <2>5. Cardinality(T) \in 0 .. NumTxn
    BY <2>2, <2>3, <2>4, SizesAssumption
  <2> QED
    BY <2>5 DEF Support, T
<1>3. \A i \in Item : count[i] = Support(db, {i})
  BY DEF InputInv, Count
<1>4. count \in [Item -> 0 .. NumTxn]
  BY <1>2 DEF InputInv, Count
<1>5. F = Large(count)
  BY <1>3 DEF InputInv, Large, Frequent
<1>6. F \subseteq Item /\ count \in [Item -> Nat]
  BY <1>4 DEF InputInv
<1> QED
  BY <1>1, <1>2, <1>3, <1>4, <1>5, <1>6

LEMMA VectorsType ==
  ASSUME InputInv, NEW c \in [Item -> Nat]
  PROVE  /\ Large(c) \in SUBSET Item
         /\ Paths(VectorsBy(c))
         /\ \A x \in Tid :
              /\ db[x] \cap Large(c) \in SUBSET Item
              /\ VectorsBy(c)[x] = InOrder(db[x] \cap Large(c), c)
              /\ VectorsBy(c)[x] \in Seq(Item) /\ IsInjective(VectorsBy(c)[x])
              /\ ToSet(VectorsBy(c)[x]) = db[x] \cap Large(c)
<1> DEFINE v == VectorsBy(c)
<1>1. Large(c) \in SUBSET Item
  BY DEF Large
<1>2. v = [x \in Tid |-> InOrder(db[x] \cap Large(c), c)]
  BY DEF VectorsBy
<1> HIDE DEF v
<1>3. ASSUME NEW x \in Tid
      PROVE  /\ db[x] \cap Large(c) \in SUBSET Item
             /\ v[x] = InOrder(db[x] \cap Large(c), c)
             /\ v[x] \in Seq(Item) /\ IsInjective(v[x])
             /\ ToSet(v[x]) = db[x] \cap Large(c)
  <2> DEFINE X == db[x] \cap Large(c)
  <2>1. X \in SUBSET Item
    BY <1>1
  <2> HIDE DEF X
  <2>2. /\ InOrder(X, c) \in Seq(Item) /\ IsInjective(InOrder(X, c))
        /\ ToSet(InOrder(X, c)) = X
    BY <2>1, InOrderType
  <2>3. v[x] = InOrder(X, c)
    BY <1>2 DEF X
  <2> QED
    BY <2>1, <2>2, <2>3 DEF X
<1>4. Paths(v)
  BY <1>2, <1>3 DEF Paths
<1> QED
  BY <1>1, <1>3, <1>4 DEF v

\* The counts are those of the items with alpha, where they are large.
LargeExact(c, alpha) ==
  \A i \in Large(c) : i \notin alpha /\ c[i] = Support(db, alpha \cup {i})

\* Each large item has a node, and no other item has.
LEMMA GrownSymbols ==
  ASSUME InputInv, NEW c \in [Item -> Nat], NEW alpha \in SUBSET Item, LargeExact(c, alpha)
  PROVE  /\ Symbols(Grown(Tidset(db, alpha), VectorsBy(c))) = Large(c)
         /\ \A i \in Large(c) : \E x \in Tidset(db, alpha) : i \in db[x]
<1> DEFINE T == Tidset(db, alpha)
           v == VectorsBy(c)
           t == Grown(T, v)
<1>1. T \in SUBSET Tid
  BY DEF Tidset
<1>2. /\ Large(c) \in SUBSET Item
      /\ Paths(v)
      /\ \A x \in Tid : /\ v[x] \in Seq(Item) /\ IsInjective(v[x])
                        /\ ToSet(v[x]) = db[x] \cap Large(c)
  BY VectorsType
<1>3. ASSUME NEW i \in Large(c) PROVE \E x \in T : i \in db[x]
  <2>1. c[i] = Support(db, alpha \cup {i}) /\ c[i] >= epsilon /\ epsilon \in Nat \ {0}
        /\ c[i] \in Nat
    BY InputType DEF Large, LargeExact
  <2>2. Cardinality(Tidset(db, alpha \cup {i})) # 0
    BY <2>1 DEF Support
  <2>3. Tidset(db, alpha \cup {i}) # {}
    BY <2>2, FS_EmptySet
  <2>4. PICK x \in Tidset(db, alpha \cup {i}) : TRUE
    BY <2>3
  <2> QED
    BY <2>4 DEF Tidset
<1>4. \A p : p \in DOMAIN t <=> \E x \in T : p \in NodesOn(v[x])
  BY <1>1, GrownNodes
<1> HIDE DEF T, v, t
<1>5. ASSUME NEW p \in DOMAIN t PROVE Last(p) \in Large(c)
  <2>1. PICK x \in T : p \in NodesOn(v[x])
    BY <1>4
  <2>2. Last(p) \in ToSet(v[x])
    BY <1>1, <1>2, <2>1, OneNode
  <2> QED
    BY <1>1, <1>2, <2>2
<1>6. ASSUME NEW i \in Large(c) PROVE \E p \in DOMAIN t : Last(p) = i
  <2>1. PICK x \in T : i \in db[x]
    BY <1>3
  <2>2. i \in ToSet(v[x])
    BY <1>1, <1>2, <2>1
  <2>3. PICK p \in NodesOn(v[x]) : Last(p) = i
    BY <1>1, <1>2, <2>2, OneNode
  <2> QED
    BY <1>4, <2>3
<1>7. Symbols(t) = Large(c)
  BY <1>5, <1>6 DEF Symbols
<1> QED
  BY <1>3, <1>7 DEF T, v, t

\* What the tree counts for a set of large items is its support with alpha.
LEMMA GrownSupport ==
  ASSUME InputInv, NEW c \in [Item -> Nat], NEW alpha \in SUBSET Item,
         NEW X \in SUBSET Large(c), X # {}
  PROVE  SupportIn(Grown(Tidset(db, alpha), VectorsBy(c)), X) = Support(db, alpha \cup X)
<1> DEFINE T == Tidset(db, alpha)
           v == VectorsBy(c)
           t == Grown(T, v)
           P == {p \in DOMAIN t : Last(p) \in X /\ X \subseteq ToSet(p)}
<1>1. T \in SUBSET Tid
  BY DEF Tidset
<1>2. /\ Large(c) \in SUBSET Item
      /\ Paths(v)
      /\ \A x \in Tid : /\ v[x] \in Seq(Item) /\ IsInjective(v[x])
                        /\ ToSet(v[x]) = db[x] \cap Large(c)
  BY VectorsType
<1>3. \A p : p \in DOMAIN t <=> \E x \in T : p \in NodesOn(v[x])
  BY <1>1, GrownNodes
<1>4. Tidset(db, alpha \cup X) = {x \in T : X \subseteq db[x]}
  BY DEF Tidset
<1> HIDE DEF T, v
<1>5. ASSUME NEW x \in T
      PROVE  /\ \A p \in P, q \in P : p \in NodesOn(v[x]) /\ q \in NodesOn(v[x]) => p = q
             /\ (\E p \in P : p \in NodesOn(v[x])) <=> X \subseteq db[x]
  <2> DEFINE s == v[x]
  <2>1. s \in Seq(Item) /\ IsInjective(s) /\ ToSet(s) = db[x] \cap Large(c)
    BY <1>1, <1>2
  <2>2. \A p \in NodesOn(s) : p \in DOMAIN t
    BY <1>3
  <2> HIDE DEF s, t
  <2>3. /\ \A p \in NodesOn(s), q \in NodesOn(s) :
             /\ Last(p) \in X /\ X \subseteq ToSet(p)
             /\ Last(q) \in X /\ X \subseteq ToSet(q)
             => p = q
        /\ X \subseteq ToSet(s)
             => \E p \in NodesOn(s) : Last(p) \in X /\ X \subseteq ToSet(p)
        /\ \A p \in NodesOn(s) : ToSet(p) \subseteq ToSet(s)
    BY ONLY <2>1, X # {}, OneEnd
  <2>4. \A p \in P, q \in P : p \in NodesOn(s) /\ q \in NodesOn(s) => p = q
    BY <2>3
  <2>5. X \subseteq db[x] <=> X \subseteq ToSet(s)
    BY <2>1
  <2>6. (\E p \in P : p \in NodesOn(s)) <=> X \subseteq ToSet(s)
    BY <2>2, <2>3
  <2> QED
    BY <2>4, <2>5, <2>6 DEF s
<1>6. P \in SUBSET DOMAIN Grown(T, v)
  OBVIOUS
<1> HIDE DEF P
<1>7. SumOver(P, t) = Cardinality({x \in T : \E p \in P : p \in NodesOn(v[x])})
  BY <1>1, <1>2, <1>5, <1>6, SumNodes
<1>8. {x \in T : \E p \in P : p \in NodesOn(v[x])} = {x \in T : X \subseteq db[x]}
  BY <1>5
<1>9. SupportIn(t, X) = SumOver(P, t)
  BY DEF SupportIn, P
<1> QED
  BY <1>4, <1>7, <1>8, <1>9 DEF Support, T, v, t

\* The nodes of a symbol part the transactions with it, and the items before
\* each are those that precede the symbol in its transactions.
LEMMA SymbolNodes ==
  ASSUME InputInv, NEW c \in [Item -> Nat], NEW alpha \in SUBSET Item, NEW s \in Large(c),
         NEW T, T = Tidset(db, alpha), NEW v, v = VectorsBy(c), NEW t, t = Grown(T, v)
  PROVE  /\ NodesOf(t, s) \in SUBSET DOMAIN t /\ IsFiniteSet(NodesOf(t, s))
         /\ \A p \in NodesOf(t, s) :
              /\ t[p] = Cardinality(At(T, v, p)) /\ t[p] \in Nat
              /\ At(T, v, p) \in SUBSET T /\ At(T, v, p) # {}
         /\ \A x \in T : (\E p \in NodesOf(t, s) : p \in NodesOn(v[x])) <=> s \in db[x]
         /\ \A x \in T, p \in NodesOf(t, s), q \in NodesOf(t, s) :
              p \in NodesOn(v[x]) /\ q \in NodesOn(v[x]) => p = q
         /\ \A x \in T, p \in NodesOf(t, s) : p \in NodesOn(v[x]) =>
              PrefixItems(p) = {i \in db[x] \cap Large(c) : Precedes(c, i, s)}
         /\ \A p \in NodesOf(t, s) : PrefixItems(p) \in SUBSET Item
<1> DEFINE N == NodesOf(t, s)
<1>1. T \in SUBSET Tid
  BY DEF Tidset
<1>2. /\ Large(c) \in SUBSET Item
      /\ Paths(v)
      /\ \A x \in Tid : /\ v[x] \in Seq(Item) /\ IsInjective(v[x])
                        /\ ToSet(v[x]) = db[x] \cap Large(c)
                        /\ db[x] \cap Large(c) \in SUBSET Item
                        /\ v[x] = InOrder(db[x] \cap Large(c), c)
  BY VectorsType
<1>3. /\ \A p : p \in DOMAIN t <=> \E x \in T : p \in NodesOn(v[x])
      /\ \A p \in DOMAIN t : t[p] = Cardinality(At(T, v, p))
  BY <1>1, GrownNodes
<1>4. IsFiniteSet(DOMAIN t) /\ \A p \in DOMAIN t : t[p] \in 1 .. NumTxn
  BY <1>1, <1>2, GrownType
<1>5. \A p : p \in N <=> p \in DOMAIN t /\ Last(p) = s
  BY DEF NodesOf
<1>6. N \in SUBSET DOMAIN t /\ IsFiniteSet(N)
  <2>1. N \in SUBSET DOMAIN t
    BY <1>5
  <2> HIDE DEF N
  <2> QED
    BY <1>4, <2>1, FS_Subset
<1> HIDE DEF N
<1>7. ASSUME NEW p \in N
      PROVE  /\ t[p] = Cardinality(At(T, v, p)) /\ t[p] \in Nat
             /\ At(T, v, p) \in SUBSET T /\ At(T, v, p) # {}
             /\ PrefixItems(p) \in SUBSET Item
  <2>1. PICK x \in T : p \in NodesOn(v[x])
    BY <1>3, <1>6
  <2>2. At(T, v, p) \in SUBSET T /\ At(T, v, p) # {}
    BY <2>1 DEF At
  <2>3. t[p] \in Nat
    BY <1>4, <1>6
  <2> DEFINE X == db[x] \cap Large(c)
  <2>4. X \in SUBSET Item /\ p \in NodesOn(InOrder(X, c))
    BY <1>1, <1>2, <2>1
  <2> HIDE DEF X
  <2>5. PrefixItems(p) = {i \in X : Precedes(c, i, Last(p))}
    BY <2>4, ItemsBefore
  <2> QED
    BY <1>3, <1>6, <2>2, <2>3, <2>4, <2>5
<1>8. ASSUME NEW x \in T, NEW p \in N, p \in NodesOn(v[x])
      PROVE  PrefixItems(p) = {i \in db[x] \cap Large(c) : Precedes(c, i, s)}
  <2> DEFINE X == db[x] \cap Large(c)
  <2>4. X \in SUBSET Item /\ p \in NodesOn(InOrder(X, c))
    BY <1>1, <1>2, <1>8
  <2> HIDE DEF X
  <2>5. PrefixItems(p) = {i \in X : Precedes(c, i, Last(p))}
    BY <2>4, ItemsBefore
  <2> QED
    BY <1>5, <2>5 DEF X
<1>9. ASSUME NEW x \in T
      PROVE  /\ \A p \in N, q \in N : p \in NodesOn(v[x]) /\ q \in NodesOn(v[x]) => p = q
             /\ (\E p \in N : p \in NodesOn(v[x])) <=> s \in db[x]
  <2> DEFINE r == v[x]
  <2>1. r \in Seq(Item) /\ IsInjective(r) /\ ToSet(r) = db[x] \cap Large(c)
    BY <1>1, <1>2
  <2>2. \A p \in NodesOn(r) : p \in DOMAIN t
    BY <1>3
  <2> HIDE DEF r
  <2>3. /\ \A p \in NodesOn(r), q \in NodesOn(r) : Last(p) = Last(q) => p = q
        /\ \A a \in ToSet(r) : \E p \in NodesOn(r) : Last(p) = a
        /\ \A p \in NodesOn(r) : Last(p) \in ToSet(r)
    BY <2>1, OneNode
  <2>4. \A p \in N, q \in N : p \in NodesOn(r) /\ q \in NodesOn(r) => p = q
    BY <1>5, <2>3
  <2>5. s \in db[x] <=> s \in ToSet(r)
    BY <2>1
  <2>6. (\E p \in N : p \in NodesOn(r)) <=> s \in ToSet(r)
    BY <1>5, <2>2, <2>3
  <2> QED
    BY <2>4, <2>5, <2>6 DEF r
<1> QED
  BY <1>6, <1>7, <1>8, <1>9 DEF N

\* What count_symbols finds for s in the tree of alpha.
Counted(d, c, alpha, s) ==
  \A i \in Item : d[i] = IF i \in Large(c) /\ Precedes(c, i, s)
                         THEN Support(db, alpha \cup {s, i}) ELSE 0

\* count_symbols: the supports, with alpha and s, of the large items before s.
LEMMA CountSymbols ==
  ASSUME InputInv, NEW c \in [Item -> Nat], NEW alpha \in SUBSET Item, NEW s \in Large(c),
         NEW T, T = Tidset(db, alpha), NEW v, v = VectorsBy(c), NEW t, t = Grown(T, v)
  PROVE  /\ PrefixCounts(t, s) \in [Item -> 0 .. NumTxn]
         /\ Counted(PrefixCounts(t, s), c, alpha, s)
<1> DEFINE N == NodesOf(t, s)
           With(i) == {p \in N : i \in PrefixItems(p)}
<1>1. T \in SUBSET Tid /\ Paths(v)
  BY VectorsType DEF Tidset
<1>2. /\ N \in SUBSET DOMAIN t
      /\ \A x \in T : (\E p \in N : p \in NodesOn(v[x])) <=> s \in db[x]
      /\ \A x \in T, p \in N, q \in N : p \in NodesOn(v[x]) /\ q \in NodesOn(v[x]) => p = q
      /\ \A x \in T, p \in N : p \in NodesOn(v[x]) =>
           PrefixItems(p) = {i \in db[x] \cap Large(c) : Precedes(c, i, s)}
  BY SymbolNodes
<1> HIDE DEF N
<1>3. ASSUME NEW i \in Item
      PROVE  SumOver(With(i), t) = IF i \in Large(c) /\ Precedes(c, i, s)
                                   THEN Support(db, alpha \cup {s, i}) ELSE 0
  <2> DEFINE P == With(i)
             A == {x \in T : \E p \in P : p \in NodesOn(v[x])}
  <2>1. P \in SUBSET N
    OBVIOUS
  <2>2. P \in SUBSET DOMAIN Grown(T, v)
    BY <1>2, <2>1
  <2>3. \A x \in T, p \in P, q \in P : p \in NodesOn(v[x]) /\ q \in NodesOn(v[x]) => p = q
    BY <1>2, <2>1
  <2>4. A = {x \in T : s \in db[x] /\ i \in db[x] \cap Large(c) /\ Precedes(c, i, s)}
    <3> SUFFICES ASSUME NEW x \in T
                 PROVE  (\E p \in P : p \in NodesOn(v[x]))
                          <=> s \in db[x] /\ i \in db[x] \cap Large(c) /\ Precedes(c, i, s)
      OBVIOUS
    <3>1. (\E p \in P : p \in NodesOn(v[x]))
            <=> \E p \in N : p \in NodesOn(v[x]) /\ i \in PrefixItems(p)
      OBVIOUS
    <3>2. (\E p \in N : p \in NodesOn(v[x]) /\ i \in PrefixItems(p))
            <=> (\E p \in N : p \in NodesOn(v[x])) /\ i \in db[x] \cap Large(c) /\ Precedes(c, i, s)
      BY <1>2
    <3> QED
      BY <1>2, <3>1, <3>2
  <2> HIDE DEF P
  <2>5. SumOver(P, Grown(T, v)) = Cardinality(A)
    BY <1>1, <2>2, <2>3, SumNodes
  <2>6. CASE i \in Large(c) /\ Precedes(c, i, s)
    <3>1. A = Tidset(db, alpha \cup {s, i})
      BY <2>4, <2>6 DEF Tidset
    <3> QED
      BY <2>5, <2>6, <3>1 DEF Support, P
  <2>7. CASE ~ (i \in Large(c) /\ Precedes(c, i, s))
    <3>1. A = {}
      BY <2>4, <2>7
    <3> HIDE DEF A
    <3>2. Cardinality(A) = 0
      BY <3>1, FS_EmptySet
    <3> QED
      BY <2>5, <2>7, <3>2 DEF P
  <2> QED
    BY <2>6, <2>7
<1>4. PrefixCounts(t, s) = [i \in Item |-> SumOver(With(i), t)]
  BY DEF PrefixCounts, N
<1> HIDE DEF With
<1>5. \A i \in Item :
        PrefixCounts(t, s)[i] = IF i \in Large(c) /\ Precedes(c, i, s)
                                THEN Support(db, alpha \cup {s, i}) ELSE 0
  BY <1>3, <1>4
<1>6. \A i \in Item : PrefixCounts(t, s)[i] \in 0 .. NumTxn
  <2>1. 0 \in 0 .. NumTxn
    BY SizesAssumption
  <2>2. \A X : Support(db, X) \in 0 .. NumTxn
    BY InputType
  <2> QED
    BY <1>5, <2>1, <2>2
<1>7. PrefixCounts(t, s) \in [Item -> 0 .. NumTxn]
  BY <1>4, <1>6
<1> QED
  BY <1>5, <1>7 DEF Counted

\* The items that are large with alpha and s.
LEMMA LargeWith ==
  ASSUME InputInv, NEW c \in [Item -> Nat], NEW alpha \in SUBSET Item, NEW s \in Large(c),
         NEW d \in [Item -> Nat], Counted(d, c, alpha, s)
  PROVE  \A i : i \in Large(d) <=> /\ i \in Large(c) /\ Precedes(c, i, s)
                                   /\ Support(db, alpha \cup {s, i}) >= epsilon
<1>1. epsilon \in Nat \ {0} /\ \A X : Support(db, X) \in 0 .. NumTxn
  BY InputType
<1>2. \A i \in Item : d[i] >= epsilon <=>
        i \in Large(c) /\ Precedes(c, i, s) /\ Support(db, alpha \cup {s, i}) >= epsilon
  BY <1>1 DEF Counted
<1>3. Large(c) \subseteq Item
  BY DEF Large
<1> QED
  BY <1>2, <1>3 DEF Large

Tree == UNION {[D -> Nat] : D \in SUBSET Seq(Item)}

LEMMA TreeType ==
  ASSUME NEW u \in Tree, NEW s \in Seq(Item), NEW n \in Nat
  PROVE  Insert(u, s, n) \in Tree
<1>1. PICK D \in SUBSET Seq(Item) : u \in [D -> Nat]
  BY DEF Tree
<1>2. NodesOn(s) \in SUBSET Seq(Item)
  BY NodePrefix, NodeType
<1> DEFINE W == D \cup NodesOn(s)
<1>3. Insert(u, s, n) =
        [p \in W |-> (IF p \in D THEN u[p] ELSE 0) + (IF p \in NodesOn(s) THEN n ELSE 0)]
  BY <1>1 DEF Insert
<1>4. \A p \in W : (IF p \in D THEN u[p] ELSE 0) + (IF p \in NodesOn(s) THEN n ELSE 0) \in Nat
  BY <1>1
<1>5. W \in SUBSET Seq(Item)
  BY <1>2
<1> HIDE DEF W
<1>6. Insert(u, s, n) \in [W -> Nat]
  BY <1>3, <1>4
<1> QED
  BY <1>5, <1>6 DEF Tree

LEMMA GrownTree ==
  ASSUME NEW T \in SUBSET Tid, NEW v, Paths(v)
  PROVE  Grown(T, v) \in Tree
<1> DEFINE t == Grown(T, v)
           D == DOMAIN t
<1>1. /\ t = [p \in D |-> Cardinality(At(T, v, p))]
      /\ \A p \in D : p \in Seq(Item) /\ t[p] \in Nat
  <2>1. t = [p \in D |-> Cardinality(At(T, v, p))]
    BY GrownNodes
  <2>2. \A p \in D : p \in Seq(Item) /\ t[p] \in 1 .. NumTxn
    BY GrownType
  <2> QED
    BY <2>1, <2>2
<1> HIDE DEF t
<1>2. t \in [D -> Nat] /\ D \in SUBSET Seq(Item)
  BY <1>1
<1> QED
  BY <1>2 DEF Tree, t

\* insert_cond_patterns: the tree of the transactions with alpha and s, with
\* vectors by the new counts.
LEMMA ConditionalTrees ==
  ASSUME InputInv, NEW c \in [Item -> Nat], NEW alpha \in SUBSET Item, NEW s \in Large(c),
         NEW T, T = Tidset(db, alpha), NEW v, v = VectorsBy(c), NEW t, t = Grown(T, v),
         NEW d, d = PrefixCounts(t, s)
  PROVE  ConditionalTree(t, s, d) = Grown(Tidset(db, alpha \cup {s}), VectorsBy(d))
<1> DEFINE N == NodesOf(t, s)
           w == VectorsBy(d)
           vec(p) == InOrder(PrefixItems(p) \cap Large(d), d)
           Passing(S) == {x \in T : \E p \in S : p \in NodesOn(v[x])}
           G == [a \in N \X Tree |-> Insert(a[2], vec(a[1]), t[a[1]])]
           Q == {a \in (SUBSET N) \X Tree : a[2] = Grown(Passing(a[1]), w)}
           f == CHOOSE g : g = [S \in SUBSET N |->
                                  IF S = {} THEN EmptyTree
                                  ELSE Insert(g[S \ {CHOOSE p \in S : TRUE}],
                                              vec(CHOOSE p \in S : TRUE),
                                              t[CHOOSE p \in S : TRUE])]
<1>1. T \in SUBSET Tid /\ Paths(v)
  BY VectorsType DEF Tidset
<1>2. /\ IsFiniteSet(N)
      /\ \A p \in N : /\ t[p] = Cardinality(At(T, v, p)) /\ t[p] \in Nat
                      /\ At(T, v, p) \in SUBSET T /\ At(T, v, p) # {}
                      /\ PrefixItems(p) \in SUBSET Item
      /\ \A x \in T : (\E p \in N : p \in NodesOn(v[x])) <=> s \in db[x]
      /\ \A x \in T, p \in N, q \in N : p \in NodesOn(v[x]) /\ q \in NodesOn(v[x]) => p = q
      /\ \A x \in T, p \in N : p \in NodesOn(v[x]) =>
           PrefixItems(p) = {i \in db[x] \cap Large(c) : Precedes(c, i, s)}
  BY SymbolNodes
<1>3. d \in [Item -> Nat]
  <2>1. d \in [Item -> 0 .. NumTxn]
    BY CountSymbols
  <2> QED
    BY <2>1
<1>4. Large(d) \subseteq {i \in Large(c) : Precedes(c, i, s)} /\ Large(d) \in SUBSET Item
  <2>1. Counted(d, c, alpha, s)
    BY CountSymbols
  <2>2. \A i : i \in Large(d) <=> /\ i \in Large(c) /\ Precedes(c, i, s)
                                  /\ Support(db, alpha \cup {s, i}) >= epsilon
    BY <1>3, <2>1, LargeWith
  <2> QED
    BY <2>2 DEF Large
<1>5. Paths(w) /\ \A x \in Tid : w[x] = InOrder(db[x] \cap Large(d), d)
  BY <1>3, VectorsType
<1>6. ConditionalTree(t, s, d) = f[N]
  BY DEF ConditionalTree, FoldSet, MapThenFoldSet
<1> HIDE DEF N, w
<1>7. ASSUME NEW p \in N PROVE vec(p) \in Seq(Item)
  <2> DEFINE X == PrefixItems(p) \cap Large(d)
  <2>1. X \in SUBSET Item
    BY <1>4
  <2> HIDE DEF X
  <2>2. InOrder(X, d) \in Seq(Item)
    BY <1>3, <2>1, InOrderType
  <2> QED
    BY <2>2 DEF X
<1>8. ASSUME NEW p \in N, NEW x \in At(T, v, p) PROVE w[x] = vec(p)
  <2>1. x \in T /\ p \in NodesOn(v[x])
    BY DEF At
  <2>2. PrefixItems(p) = {i \in db[x] \cap Large(c) : Precedes(c, i, s)}
    BY <1>2, <2>1
  <2>3. PrefixItems(p) \cap Large(d) = db[x] \cap Large(d)
    BY <1>4, <2>2
  <2>4. x \in Tid
    BY <1>1, <2>1
  <2> QED
    BY <1>5, <2>3, <2>4
<1> HIDE DEF vec
<1>9. G \in [N \X Tree -> Tree] /\ \A p \in N, u \in Tree : G[<<p, u>>] = Insert(u, vec(p), t[p])
  <2>1. \A p \in N, u \in Tree : Insert(u, vec(p), t[p]) \in Tree
    BY <1>2, <1>7, TreeType
  <2> QED
    BY <2>1
<1>10. EmptyTree \in Tree /\ EmptyTree = Grown({}, w)
  <2>1. {} \in SUBSET Tid /\ \A x \in {} : ToSet(w[x]) = {}
    OBVIOUS
  <2>2. EmptyTree = Grown({}, w)
    BY <1>5, <2>1, GrownEmpty
  <2>3. Grown({}, w) \in Tree
    BY <1>5, <2>1, GrownTree
  <2> QED
    BY <2>2, <2>3
<1> HIDE DEF G
<1>11. f = [S \in SUBSET N |-> IF S = {} THEN EmptyTree
                               ELSE Insert(f[S \ {CHOOSE p \in S : TRUE}],
                                           vec(CHOOSE p \in S : TRUE),
                                           t[CHOOSE p \in S : TRUE])]
  <2>0. PICK g \in [SUBSET N -> Tree] : Folds(g, N, EmptyTree, G)
    BY <1>2, <1>9, <1>10, FoldExists
  <2>1. /\ g[{}] = EmptyTree
        /\ \A S \in (SUBSET N) \ {{}} :
             g[S] = G[<<CHOOSE p \in S : TRUE, g[S \ {CHOOSE p \in S : TRUE}]>>]
    BY <2>0 DEF Folds
  <2>2. ASSUME NEW S \in (SUBSET N) \ {{}}
        PROVE  g[S] = Insert(g[S \ {CHOOSE p \in S : TRUE}],
                             vec(CHOOSE p \in S : TRUE), t[CHOOSE p \in S : TRUE])
    <3>1. (CHOOSE p \in S : TRUE) \in N /\ S \ {CHOOSE p \in S : TRUE} \in SUBSET N
      OBVIOUS
    <3>2. g[S \ {CHOOSE p \in S : TRUE}] \in Tree
      BY <3>1
    <3> QED
      BY <1>9, <2>1, <3>1, <3>2
  <2> DEFINE h(S) == IF S = {} THEN EmptyTree
                     ELSE Insert(g[S \ {CHOOSE p \in S : TRUE}],
                                 vec(CHOOSE p \in S : TRUE), t[CHOOSE p \in S : TRUE])
  <2>3. \A S \in SUBSET N : g[S] = h(S)
    BY <2>1, <2>2
  <2> HIDE DEF h
  <2>4. g = [S \in SUBSET N |-> h(S)]
    BY <2>0, <2>3
  <2> QED
    BY <2>4 DEF h
<1> HIDE DEF f
<1>12. FoldsOn(f, N, Tree, EmptyTree, G)
  <2>1. f[{}] = EmptyTree
    BY <1>11
  <2>2. ASSUME NEW S \in (SUBSET N) \ {{}}, f[S \ {CHOOSE p \in S : TRUE}] \in Tree
        PROVE  f[S] = G[<<CHOOSE p \in S : TRUE, f[S \ {CHOOSE p \in S : TRUE}]>>]
    <3>1. (CHOOSE p \in S : TRUE) \in N
      OBVIOUS
    <3>2. f[S] = Insert(f[S \ {CHOOSE p \in S : TRUE}],
                        vec(CHOOSE p \in S : TRUE), t[CHOOSE p \in S : TRUE])
      BY <1>11
    <3> QED
      BY <1>9, <2>2, <3>1, <3>2
  <2> QED
    BY <2>1, <2>2 DEF FoldsOn
<1>13. << {}, EmptyTree >> \in Q
  <2>1. Passing({}) = {}
    OBVIOUS
  <2> QED
    BY <1>10, <2>1
<1>14. ASSUME NEW S \in SUBSET N, NEW p \in N, NEW u \in Tree, p \notin S,
              << S, u >> \in Q
       PROVE  << S \cup {p}, G[<<p, u>>] >> \in Q
  <2> DEFINE A == Passing(S)
             B == At(T, v, p)
             W == Passing(S \cup {p})
  <2>1. u = Grown(A, w)
    BY <1>14
  <2>2. W = A \cup B /\ A \in SUBSET Tid /\ B \in SUBSET Tid
    BY <1>1 DEF At
  <2>3. A \cap B = {}
    BY <1>2, <1>14 DEF At
  <2>4. B # {} /\ t[p] = Cardinality(B)
    BY <1>2
  <2>5. \A x \in B : w[x] = vec(p)
    BY <1>8
  <2>6. G[<<p, u>>] = Insert(u, vec(p), t[p]) /\ G[<<p, u>>] \in Tree
    BY <1>9
  <2> HIDE DEF A, B
  <2>7. Insert(Grown(A, w), vec(p), Cardinality(B)) = Grown(A \cup B, w)
    BY <1>5, <2>2, <2>3, <2>4, <2>5, InsertMany
  <2>8. G[<<p, u>>] = Grown(W, w)
    BY <2>1, <2>2, <2>4, <2>6, <2>7
  <2> QED
    BY <2>6, <2>8
<1> HIDE DEF Q
<1>15. << N, f[N] >> \in Q
  <2>1. Keeps(N, Tree, G, Q)
    BY <1>14 DEF Keeps
  <2> QED
    BY <1>2, <1>9, <1>10, <1>12, <1>13, <2>1, FoldInduction
<1>16. f[N] = Grown(Passing(N), w)
  BY <1>15 DEF Q
<1>17. Passing(N) = Tidset(db, alpha \cup {s})
  <2>1. Passing(N) = {x \in T : s \in db[x]}
    BY <1>2
  <2> QED
    BY <2>1 DEF Tidset
<1> QED
  BY <1>6, <1>16, <1>17 DEF w

-----------------------------------------------------------------------------
(* Trees of a single path.                                                 *)

LEMMA MinIs ==
  ASSUME NEW S \in SUBSET Int, NEW x \in S, \A y \in S : x <= y
  PROVE  Min(S) = x
<1>1. \E m \in S : \A y \in S : m =< y
  OBVIOUS
<1>2. Min(S) \in S /\ \A y \in S : Min(S) =< y
  BY <1>1 DEF Min
<1>3. Min(S) =< x /\ x <= Min(S) /\ Min(S) \in Int /\ x \in Int
  BY <1>2
<1> QED
  BY <1>3

\* A finite set of naturals has a greatest element.
LEMMA GreatestExists ==
  ASSUME NEW S, IsFiniteSet(S), S # {}, NEW f \in [S -> Nat]
  PROVE  \E x \in S : \A y \in S : f[y] <= f[x]
<1> DEFINE Above(x) == {y \in S : f[y] > f[x]}
           A == {Above(x) : x \in S}
           R == StrictSubsetOrdering(S)
           W == FiniteSubsetsOf(S)
<1>1. A \subseteq W /\ A # {}
  <2>1. ASSUME NEW x \in S PROVE Above(x) \in W
    <3>1. Above(x) \in SUBSET S
      OBVIOUS
    <3> HIDE DEF Above
    <3>2. IsFiniteSet(Above(x))
      BY <3>1, FS_Subset
    <3> QED
      BY <3>1, <3>2 DEF FiniteSubsetsOf
  <2> HIDE DEF Above, W
  <2> QED
    BY <2>1
<1>2. PICK Y \in A : \A Z \in A : ~ (<<Z, Y>> \in R)
  <2>1. IsWellFoundedOn(R, W)
    BY FS_StrictSubsetOrderingWellFounded
  <2> HIDE DEF A, R, W
  <2> QED
    BY <1>1, <2>1, WFMin
<1>3. PICK x \in S : Y = Above(x)
  OBVIOUS
<1>4. ASSUME NEW y \in S, f[y] > f[x] PROVE FALSE
  <2>1. \A z \in S : f[z] \in Nat
    OBVIOUS
  <2>2. Above(y) \in A /\ y \in Above(x) /\ y \notin Above(y)
    BY <1>4, <2>1
  <2>3. Above(y) \subseteq Above(x)
    BY <1>4, <2>1
  <2>4. <<Above(y), Above(x)>> \in R
    BY <2>2, <2>3 DEF StrictSubsetOrdering
  <2> QED
    BY <1>2, <1>3, <2>2, <2>4
<1>5. \A y \in S : f[y] <= f[x]
  BY <1>4
<1> QED
  BY <1>5

\* A path has as many nodes as items.
LEMMA NodesCount ==
  ASSUME NEW s \in Seq(Item)
  PROVE  Cardinality(NodesOn(s)) = Len(s)
<1> DEFINE n == Len(s)
           N == NodesOn(s)
           f == [l \in 1 .. n |-> SubSeq(s, 1, l)]
<1>1. n \in Nat
  OBVIOUS
<1>2. \A l \in 1 .. n : f[l] \in N /\ Len(f[l]) = l
  BY NodeType
<1>3. \A p \in N : \E l \in 1 .. n : p = f[l]
  BY NodePrefix
<1>4. f = [l \in 1 .. n |-> f[l]]
  OBVIOUS
<1> HIDE DEF n, N, f
<1>5. f \in Bijection(1 .. n, N)
  <2>1. f \in [1 .. n -> N]
    BY <1>2, <1>4
  <2>2. \A l, m \in 1 .. n : f[l] = f[m] => l = m
    BY <1>2
  <2> QED
    BY <1>3, <2>1, <2>2 DEF Bijection, Injection, Surjection, IsInjective
<1>6. IsFiniteSet(1 .. n) /\ Cardinality(1 .. n) = n
  <2>1. IsFiniteSet(1 .. n) /\ Cardinality(1 .. n) = IF 1 > n THEN 0 ELSE n - 1 + 1
    BY <1>1, FS_Interval
  <2>2. (IF 1 > n THEN 0 ELSE n - 1 + 1) = n
    BY <1>1
  <2> QED
    BY <2>1, <2>2
<1>7. Cardinality(N) = Cardinality(1 .. n)
  BY <1>5, <1>6, FS_Bijection DEF ExistsBijection
<1> QED
  BY <1>6, <1>7 DEF n, N

\* The paths of the transactions are then the prefixes of the longest.
LEMMA LongestPath ==
  ASSUME NEW T \in SUBSET Tid, NEW v, Paths(v), NEW t, t = Grown(T, v), SinglePath(t)
  PROVE  \E q \in Seq(Item) : IsInjective(q) /\ DOMAIN t = NodesOn(q)
<1> DEFINE D == DOMAIN t
           len == [p \in D |-> Len(p)]
<1>1. IsFiniteSet(D) /\ \A p \in D : p \in Seq(Item) /\ IsInjective(p)
  BY GrownType
<1>2. \A p : p \in D <=> \E x \in T : p \in NodesOn(v[x])
  BY GrownNodes
<1>3. \A p, q \in D : Len(p) = Len(q) => p = q
  BY DEF SinglePath
<1>4. \A x \in T : v[x] \in Seq(Item)
  BY DEF Paths
<1> HIDE DEF D
<1>5. ASSUME NEW p \in D, NEW l \in 1 .. Len(p)
      PROVE  SubSeq(p, 1, l) \in D /\ Len(SubSeq(p, 1, l)) = l
  <2>1. PICK x \in T : p \in NodesOn(v[x])
    BY <1>2
  <2> DEFINE s == v[x]
  <2>2. s \in Seq(Item)
    BY <1>4
  <2>3. \A r \in NodesOn(s) : r \in D
    BY <1>2
  <2>4. p \in NodesOn(s)
    BY <2>1
  <2> HIDE DEF s
  <2>5. PICK m \in 1 .. Len(s) : p = SubSeq(s, 1, m)
    BY <2>2, <2>4, NodePrefix
  <2>6. m \in 0 .. Len(s) /\ Len(p) = m
    BY <2>2, <2>5, PrefixType
  <2>7. l \in 0 .. m /\ l \in 1 .. Len(s)
    BY <2>2, <2>6
  <2>8. SubSeq(p, 1, l) = SubSeq(s, 1, l)
    BY <2>2, <2>5, <2>6, <2>7, PrefixType
  <2>9. SubSeq(s, 1, l) \in NodesOn(s) /\ Len(SubSeq(s, 1, l)) = l
    BY <2>2, <2>7, NodeType
  <2> QED
    BY <2>3, <2>8, <2>9
<1>6. CASE D = {}
  <2> DEFINE q == << >>
  <2>1. q \in Seq(Item) /\ Len(q) = 0 /\ DOMAIN q = {}
    OBVIOUS
  <2> HIDE DEF q
  <2>2. \A p : p \notin NodesOn(q)
    <3>1. \A p : p \in NodesOn(q) <=> \E l \in 1 .. Len(q) : p = SubSeq(q, 1, l)
      BY <2>1, NodePrefix
    <3> QED
      BY <2>1, <3>1
  <2>3. IsInjective(q)
    BY <2>1 DEF IsInjective
  <2> QED
    BY <1>6, <2>1, <2>2, <2>3 DEF D
<1>7. CASE D # {}
  <2>1. len \in [D -> Nat] /\ \A p \in D : len[p] = Len(p)
    BY <1>1
  <2> HIDE DEF len
  <2>2. PICK q \in D : \A p \in D : len[p] <= len[q]
    BY <1>1, <1>7, <2>1, GreatestExists
  <2>3. q \in Seq(Item) /\ IsInjective(q)
    BY <1>1
  <2>4. ASSUME NEW p \in NodesOn(q) PROVE p \in D
    <3>1. PICK l \in 1 .. Len(q) : p = SubSeq(q, 1, l)
      BY <2>3, NodePrefix
    <3> QED
      BY <1>5, <3>1
  <2>5. ASSUME NEW p \in D PROVE p \in NodesOn(q)
    <3>1. Len(p) <= Len(q) /\ Len(p) \in Nat /\ Len(q) \in Nat
      BY <1>1, <2>1, <2>2
    <3>2. Len(p) # 0
      <4>1. PICK x \in T : p \in NodesOn(v[x])
        BY <1>2
      <4>2. PICK m \in 1 .. Len(v[x]) : p = SubSeq(v[x], 1, m)
        BY <1>4, <4>1, NodePrefix
      <4>3. Len(p) = m
        BY <1>4, <4>2, NodeType
      <4> QED
        BY <4>3
    <3>3. Len(p) \in 1 .. Len(q)
      BY <3>1, <3>2
    <3>4. SubSeq(q, 1, Len(p)) \in D /\ Len(SubSeq(q, 1, Len(p))) = Len(p)
      BY <1>5, <3>3
    <3>5. p = SubSeq(q, 1, Len(p))
      BY <1>3, <3>4 DEF D
    <3> QED
      BY <2>3, <3>3, <3>5, NodePrefix
  <2>6. D = NodesOn(q)
    BY <2>4, <2>5
  <2> QED
    BY <2>3, <2>6 DEF D
<1> QED
  BY <1>6, <1>7

\* On a single path a transaction with the item of a node has those of all
\* nodes above it, and the counts at the nodes are those of their items.
LEMMA PathNodes ==
  ASSUME InputInv, NEW c \in [Item -> Nat], NEW alpha \in SUBSET Item,
         LargeExact(c, alpha), NEW T, T = Tidset(db, alpha), NEW v, v = VectorsBy(c),
         NEW t, t = Grown(T, v), NEW q \in Seq(Item), IsInjective(q), DOMAIN t = NodesOn(q)
  PROVE  /\ ToSet(q) = Large(c)
         /\ \A m \in 1 .. Len(q) : q[m] \in Large(c) /\ t[SubSeq(q, 1, m)] = c[q[m]]
         /\ \A m \in 1 .. Len(q), x \in T : q[m] \in db[x] => \A i \in 1 .. m : q[i] \in db[x]
<1>1. T \in SUBSET Tid
  BY DEF Tidset
<1>2. /\ Large(c) \in SUBSET Item
      /\ Paths(v)
      /\ \A x \in Tid : /\ v[x] \in Seq(Item) /\ IsInjective(v[x])
                        /\ ToSet(v[x]) = db[x] \cap Large(c)
  BY VectorsType
<1>3. /\ \A p : p \in DOMAIN t <=> \E x \in T : p \in NodesOn(v[x])
      /\ \A p \in DOMAIN t : t[p] = Cardinality(At(T, v, p))
  BY <1>1, GrownNodes
<1>4. /\ \A p \in NodesOn(q) : Last(p) \in ToSet(q)
      /\ \A a \in ToSet(q) : \E p \in NodesOn(q) : Last(p) = a
      /\ \A p, r \in NodesOn(q) : Last(p) = Last(r) => p = r
  BY OneNode
<1>5. \A m \in 1 .. Len(q) :
        /\ SubSeq(q, 1, m) \in NodesOn(q)
        /\ Last(SubSeq(q, 1, m)) = q[m]
        /\ ToSet(SubSeq(q, 1, m)) = {q[i] : i \in 1 .. m}
        /\ q[m] \in Item /\ q[m] \in ToSet(q)
  <2>1. \A m \in 1 .. Len(q) : q[m] \in ToSet(q)
    BY DEF ToSet
  <2> QED
    BY <2>1, NodeType
<1>6. ToSet(q) = Large(c)
  <2>1. Symbols(t) = Large(c)
    BY GrownSymbols
  <2>2. Symbols(t) = ToSet(q)
    BY <1>4 DEF Symbols
  <2> QED
    BY <2>1, <2>2
<1>7. ASSUME NEW m \in 1 .. Len(q), NEW x \in T
      PROVE  /\ SubSeq(q, 1, m) \in NodesOn(v[x]) <=> q[m] \in db[x]
             /\ SubSeq(q, 1, m) \in NodesOn(v[x]) => \A i \in 1 .. m : q[i] \in db[x]
  <2> DEFINE s == v[x]
             r == SubSeq(q, 1, m)
  <2>1. s \in Seq(Item) /\ IsInjective(s) /\ ToSet(s) = db[x] \cap Large(c)
    BY <1>1, <1>2
  <2>2. \A p \in NodesOn(s) : p \in NodesOn(q)
    BY <1>3
  <2>3. r \in NodesOn(q) /\ Last(r) = q[m] /\ ToSet(r) = {q[i] : i \in 1 .. m}
        /\ q[m] \in Large(c)
    BY <1>5, <1>6
  <2> HIDE DEF s, r
  <2>4. /\ \A a \in ToSet(s) : \E p \in NodesOn(s) : Last(p) = a
        /\ \A p \in NodesOn(s) : Last(p) \in ToSet(s)
    BY <2>1, OneNode
  <2>5. ASSUME q[m] \in db[x] PROVE r \in NodesOn(s)
    <3>1. q[m] \in ToSet(s)
      BY <2>1, <2>3, <2>5
    <3>2. PICK p \in NodesOn(s) : Last(p) = q[m]
      BY <2>4, <3>1
    <3>3. p = r
      BY <1>4, <2>2, <2>3, <3>2
    <3> QED
      BY <3>2, <3>3
  <2>6. ASSUME r \in NodesOn(s) PROVE \A i \in 1 .. m : q[i] \in db[x]
    <3>1. s \in Seq(Item) /\ IsInjective(s) /\ {1} # {}
      BY <2>1
    <3>2. ToSet(r) \subseteq ToSet(s)
      BY <2>6, <3>1, OneEnd
    <3> QED
      BY <2>1, <2>3, <3>2
  <2>7. m \in 1 .. m
    OBVIOUS
  <2> QED
    BY <2>5, <2>6, <2>7 DEF s, r
<1>8. ASSUME NEW m \in 1 .. Len(q)
      PROVE  q[m] \in Large(c) /\ t[SubSeq(q, 1, m)] = c[q[m]]
  <2> DEFINE p == SubSeq(q, 1, m)
  <2>1. q[m] \in Large(c) /\ p \in DOMAIN t
    BY <1>5, <1>6
  <2>2. t[p] = Cardinality(At(T, v, p))
    BY <1>3, <2>1
  <2>3. At(T, v, p) = {x \in T : q[m] \in db[x]}
    BY <1>7 DEF At
  <2>4. Tidset(db, alpha \cup {q[m]}) = {x \in T : q[m] \in db[x]}
    BY DEF Tidset
  <2>5. c[q[m]] = Support(db, alpha \cup {q[m]})
    BY <2>1 DEF LargeExact
  <2> QED
    BY <2>1, <2>2, <2>3, <2>4, <2>5 DEF Support
<1> QED
  BY <1>6, <1>7, <1>8

\* path_symbols and path_counts: nothing is pruned, for the symbols are large.
LEMMA PathItems ==
  ASSUME InputInv, NEW c \in [Item -> Nat], NEW t, NEW q \in Seq(Item),
         DOMAIN t = NodesOn(q),
         \A m \in 1 .. Len(q) : q[m] \in Large(c) /\ t[SubSeq(q, 1, m)] = c[q[m]]
  PROVE  /\ Path(t) = [m \in 1 .. Len(q) |-> [symbol |-> q[m], count |-> c[q[m]]]]
         /\ Len(Path(t)) = Len(q)
<1> DEFINE N == Cardinality(DOMAIN t)
           r == [m \in 1 .. N |-> [symbol |-> q[m], count |-> c[q[m]]]]
           nodeAt(n) == CHOOSE p \in DOMAIN t : Len(p) = n
           info(n) == [symbol |-> Last(nodeAt(n)), count |-> t[nodeAt(n)]]
           f == CHOOSE g : g = [n \in 0 .. N |->
                  IF n = 0 THEN << >>
                  ELSE IF info(n).count >= epsilon THEN Append(g[n - 1], info(n))
                  ELSE g[n - 1]]
           S == {r[m] : m \in 1 .. N}
<1>1. N = Len(q) /\ N \in Nat
  BY NodesCount
<1>2. ASSUME NEW n \in 1 .. N PROVE nodeAt(n) = SubSeq(q, 1, n)
  <2>1. SubSeq(q, 1, n) \in DOMAIN t /\ Len(SubSeq(q, 1, n)) = n
    BY <1>1, NodeType
  <2>2. ASSUME NEW p \in DOMAIN t, Len(p) = n PROVE p = SubSeq(q, 1, n)
    <3>1. PICK l \in 1 .. Len(q) : p = SubSeq(q, 1, l)
      BY NodePrefix
    <3>2. Len(p) = l
      BY <3>1, NodeType
    <3> QED
      BY <2>2, <3>1, <3>2
  <2> QED
    BY <2>1, <2>2
<1>3. ASSUME NEW n \in 1 .. N PROVE info(n) = r[n] /\ info(n).count >= epsilon
  <2>1. Last(SubSeq(q, 1, n)) = q[n]
    BY <1>1, NodeType
  <2>2. t[SubSeq(q, 1, n)] = c[q[n]] /\ c[q[n]] >= epsilon
    BY <1>1 DEF Large
  <2> HIDE DEF nodeAt
  <2> QED
    BY <1>2, <2>1, <2>2
<1>4. Path(t) = f[N]
  BY DEF Path
<1>5. r \in Seq(S) /\ Len(r) = N
  BY <1>1
<1> HIDE DEF info, N, r, S
<1>6. \A n \in 1 .. N : Append(SubSeq(r, 1, n - 1), r[n]) = SubSeq(r, 1, n)
  <2> TAKE n \in 1 .. N
  <2> DEFINE k == n - 1
  <2>1. k \in 0 .. Len(r) - 1 /\ k + 1 = n
    BY <1>1, <1>5
  <2> HIDE DEF k
  <2>2. Append(SubSeq(r, 1, k), r[k + 1]) = SubSeq(r, 1, k + 1)
    BY <1>5, <2>1, AppendPrefix
  <2> QED
    BY <2>1, <2>2 DEF k
<1>7. SubSeq(r, 1, 0) = << >> /\ SubSeq(r, 1, N) = r
  <2>1. 0 \in 0 .. Len(r)
    BY <1>1, <1>5
  <2>2. SubSeq(r, 1, 0) \in Seq(S) /\ Len(SubSeq(r, 1, 0)) = 0
    BY <1>5, <2>1, PrefixType
  <2> QED
    BY <1>5, <2>2, EmptySeq, SubSeqFull
<1>8. f = [n \in 0 .. N |->
             IF n = 0 THEN << >>
             ELSE IF info(n).count >= epsilon THEN Append(f[n - 1], info(n))
             ELSE f[n - 1]]
  <2> DEFINE g == [n \in 0 .. N |-> SubSeq(r, 1, n)]
  <2>1. ASSUME NEW n \in 0 .. N
        PROVE  g[n] = IF n = 0 THEN << >>
                      ELSE IF info(n).count >= epsilon THEN Append(g[n - 1], info(n))
                      ELSE g[n - 1]
    <3>1. CASE n = 0
      BY <1>7, <3>1
    <3>2. CASE n # 0
      <4>1. n \in 1 .. N /\ n - 1 \in 0 .. N
        BY <1>1, <3>2
      <4>2. g[n - 1] = SubSeq(r, 1, n - 1) /\ g[n] = SubSeq(r, 1, n)
        BY <4>1
      <4> QED
        BY <1>3, <1>6, <3>2, <4>1, <4>2
    <3> QED
      BY <3>1, <3>2
  <2>2. g = [n \in 0 .. N |-> g[n]]
    OBVIOUS
  <2> HIDE DEF g
  <2>3. g = [n \in 0 .. N |->
               IF n = 0 THEN << >>
               ELSE IF info(n).count >= epsilon THEN Append(g[n - 1], info(n))
               ELSE g[n - 1]]
    BY <2>1, <2>2
  <2> QED
    BY <2>3
<1> HIDE DEF f
<1> DEFINE I == {n \in 0 .. N : f[n] = SubSeq(r, 1, n)}
<1>9. 0 \in I
  BY <1>1, <1>7, <1>8
<1>10. ASSUME NEW n \in 0 .. N - 1, n \in I PROVE n + 1 \in I
  <2>1. n + 1 \in 1 .. N /\ n + 1 \in 0 .. N /\ (n + 1) - 1 = n /\ n + 1 # 0
    BY <1>1
  <2>2. f[n + 1] = Append(f[n], r[n + 1])
    <3> DEFINE k == n + 1
    <3>1. k \in 1 .. N /\ k \in 0 .. N /\ k # 0 /\ k - 1 = n
      BY <2>1
    <3> HIDE DEF k
    <3>2. info(k) = r[k] /\ info(k).count >= epsilon
      BY <1>3, <3>1
    <3>3. f[k] = Append(f[k - 1], info(k))
      BY <1>8, <3>1, <3>2
    <3> QED
      BY <3>1, <3>2, <3>3 DEF k
  <2>3. Append(SubSeq(r, 1, n), r[n + 1]) = SubSeq(r, 1, n + 1)
    BY <1>6, <2>1
  <2> QED
    BY <1>10, <2>1, <2>2, <2>3
<1>11. \A n \in 0 .. N : n \in I
  <2> HIDE DEF I
  <2> QED
    BY <1>1, <1>9, <1>10, 0 \in Nat, IntervalInduction
<1>12. f[N] = r
  BY <1>1, <1>7, <1>11
<1> QED
  BY <1>1, <1>4, <1>5, <1>12 DEF r

\* A set of items has one last.
LEMMA LastBy ==
  ASSUME NEW c \in [Item -> Nat], NEW X \in SUBSET Item
  PROVE  /\ X # {} => \E s \in X : IsLastBy(c, s, X)
         /\ \A s, u : IsLastBy(c, s, X) /\ IsLastBy(c, u, X) => s = u
<1> DEFINE q == InOrder(X, c)
<1>1. /\ q \in Seq(Item)
      /\ \A m, n \in DOMAIN q : m < n => Precedes(c, q[m], q[n])
      /\ ToSet(q) = X
  BY InOrderType
<1> HIDE DEF q
<1>2. ASSUME X # {} PROVE \E s \in X : IsLastBy(c, s, X)
  <2> DEFINE n == Len(q)
  <2>1. n \in Nat /\ DOMAIN q = 1 .. n
    BY <1>1
  <2>2. X = {q[m] : m \in 1 .. n}
    BY <1>1, <2>1 DEF ToSet
  <2> HIDE DEF n
  <2>3. n \in 1 .. n
    BY <1>2, <2>1, <2>2
  <2>4. \A m \in 1 .. n : m = n \/ m < n
    BY <2>1
  <2>5. \A i \in X \ {q[n]} : Precedes(c, i, q[n])
    BY <1>1, <2>1, <2>2, <2>3, <2>4
  <2>6. q[n] \in X
    BY <2>2, <2>3
  <2> QED
    BY <2>5, <2>6 DEF IsLastBy
<1>3. ASSUME NEW s, NEW u, IsLastBy(c, s, X), IsLastBy(c, u, X) PROVE s = u
  <2>1. s \in X /\ u \in X /\ s \in Item /\ u \in Item
    BY <1>3 DEF IsLastBy
  <2>2. s # u => Precedes(c, s, u) /\ Precedes(c, u, s)
    BY <1>3 DEF IsLastBy
  <2>3. ~ (Precedes(c, s, u) /\ Precedes(c, u, s))
    BY <2>1, PrecedesOrder
  <2> QED
    BY <2>2, <2>3
<1> QED
  BY <1>2, <1>3

\* The large items down a path: who has one has those above it.
Descends(q, c, T) ==
  \A m \in 1 .. Len(q) :
    q[m] \in Large(c) /\ \A x \in T : q[m] \in db[x] => \A i \in 1 .. m : q[i] \in db[x]

NodesFor(q, c) == [m \in 1 .. Len(q) |-> [symbol |-> q[m], count |-> c[q[m]]]]

ItemsAt(q, D) == {q[m] : m \in D}

\* A combination of the nodes of a single path has the count of its items.
LEMMA CombinationExact ==
  ASSUME InputInv, NEW call, CountsInv(call),
         NEW T, T = Tidset(db, call.alpha), NEW q \in Seq(Item),
         Descends(q, call.counts, T),
         NEW path, path = NodesFor(q, call.counts),
         NEW D \in SUBSET (1 .. Len(q)), D # {}, NEW X, X = ItemsAt(q, D)
  PROVE  /\ Combination(call, path, D) =
              Pattern(call.alpha \cup X, Support(db, call.alpha \cup X))
         /\ call.alpha \cup X \in FrequentSets
<1> DEFINE c == call.counts
           alpha == call.alpha
           n == Support(db, alpha \cup X)
           C == {path[m].count : m \in D} \cup IF alpha = {} THEN {} ELSE {call.count}
           id == [m \in D |-> m]
<1>1. /\ alpha \subseteq Item /\ c \in [Item -> 0 .. NumTxn]
      /\ \A i \in Large(c) : c[i] = Support(db, alpha \cup {i})
      /\ alpha # {} => call.count = Support(db, alpha)
  BY DEF CountsInv
<1>2. epsilon \in Nat \ {0} /\ \A Y : Support(db, Y) \in Nat /\ NumTxn \in Nat
  BY InputType, SizesAssumption
<1>3. PICK m \in D : \A i \in D : i <= m
  <2>1. IsFiniteSet(D)
    <3> DEFINE l == Len(q)
    <3>1. l \in Nat
      OBVIOUS
    <3> HIDE DEF l
    <3>2. IsFiniteSet(1 .. l)
      BY <3>1, FS_Interval
    <3> QED
      BY <3>2, FS_Subset DEF l
  <2>2. id \in [D -> Nat] /\ \A i \in D : id[i] = i
    OBVIOUS
  <2> HIDE DEF id
  <2>3. PICK k \in D : \A i \in D : id[i] <= id[k]
    BY <2>1, <2>2, GreatestExists
  <2> QED
    BY <2>2, <2>3
<1>4. q[m] \in X /\ q[m] \in Large(c) /\ X \subseteq Large(c)
  BY DEF Descends, ItemsAt
<1>5. c[q[m]] = n
  <2>1. Tidset(db, alpha \cup {q[m]}) = Tidset(db, alpha \cup X)
    <3>1. ASSUME NEW x \in T, q[m] \in db[x] PROVE X \subseteq db[x]
      <4>1. \A i \in 1 .. m : q[i] \in db[x]
        BY <3>1 DEF Descends
      <4>2. \A i \in D : i \in 1 .. m
        BY <1>3
      <4> QED
        BY <4>1, <4>2 DEF ItemsAt
    <3> QED
      BY <1>4, <3>1 DEF Tidset
  <2> QED
    BY <1>1, <1>4, <2>1 DEF Support
<1>6. \A i \in D : path[i].count = c[q[i]] /\ path[i].symbol = q[i] /\ q[i] \in X
  BY DEF NodesFor, ItemsAt
<1>7. n \in C /\ C \in SUBSET Int /\ \A y \in C : n <= y
  <2>1. n \in C
    BY <1>5, <1>6
  <2>2. ASSUME NEW y \in C PROVE y \in Int /\ n <= y
    <3>1. CASE y \in {path[i].count : i \in D}
      <4>1. PICK i \in D : y = c[q[i]] /\ q[i] \in X
        BY <1>6, <3>1
      <4>2. y = Support(db, alpha \cup {q[i]})
        BY <1>1, <1>4, <4>1
      <4>3. alpha \cup {q[i]} \subseteq alpha \cup X
        BY <4>1
      <4> QED
        BY <1>2, <4>2, <4>3, SupportAntitone
    <3>2. CASE y \notin {path[i].count : i \in D}
      <4>1. alpha # {} /\ y = call.count
        BY <3>2
      <4>2. y = Support(db, alpha)
        BY <1>1, <4>1
      <4> QED
        BY <1>2, <4>2, SupportAntitone
    <3> QED
      BY <3>1, <3>2
  <2> QED
    BY <2>1, <2>2
<1>8. Min(C) = n
  <2> HIDE DEF C, n
  <2> QED
    BY <1>7, MinIs
<1>9. {path[i].symbol : i \in D} = X
  BY <1>6 DEF ItemsAt
<1>10. Combination(call, path, D) = Pattern(X \cup alpha, Min(C))
  BY <1>9 DEF Combination
<1>11. alpha \cup X \in FrequentSets
  <2>1. alpha \cup X \in Itemset
    BY <1>1, <1>4 DEF Itemset, Large
  <2>2. n >= epsilon
    BY <1>4, <1>5 DEF Large
  <2> QED
    BY <2>1, <2>2 DEF FrequentSets, Frequent
<1>12. X \cup alpha = alpha \cup X
  OBVIOUS
<1> QED
  BY <1>8, <1>10, <1>11, <1>12

LEMMA CallType ==
  ASSUME InputInv, NEW call, CountsInv(call)
  PROVE  /\ call.alpha \in SUBSET Item /\ call.counts \in [Item -> 0 .. NumTxn]
         /\ call.counts \in [Item -> Nat]
         /\ Large(call.counts) \in SUBSET Item
         /\ LargeExact(call.counts, call.alpha)
<1>1. call.counts \in [Item -> 0 .. NumTxn]
  BY DEF CountsInv
<1>2. call.counts \in [Item -> Nat]
  BY <1>1
<1> QED
  BY <1>1, <1>2 DEF CountsInv, LargeExact, Large

-----------------------------------------------------------------------------
(* What a call owes.                                                       *)

\* With all its symbols left: alpha with any large items, where frequent.
LEMMA OwedAll ==
  ASSUME InputInv, NEW call, CountsInv(call)
  PROVE  Owed(call, Large(call.counts)) =
           {Z \in FrequentSets : \E X \in SUBSET Large(call.counts) :
                                   X # {} /\ Z = call.alpha \cup X}
<1> DEFINE c == call.counts
<1>1. c \in [Item -> Nat] /\ Large(c) \in SUBSET Item
  BY CallType
<1>2. ASSUME NEW X \in SUBSET Large(c)
      PROVE  X # {} <=> \E s \in Large(c) : IsLastBy(c, s, X)
  <2>1. ASSUME X # {} PROVE \E s \in Large(c) : IsLastBy(c, s, X)
    <3>1. X \in SUBSET Item
      BY <1>1
    <3>2. \E s \in X : IsLastBy(c, s, X)
      BY <1>1, <2>1, <3>1, LastBy
    <3> QED
      BY <3>2
  <2>2. ASSUME NEW s \in Large(c), IsLastBy(c, s, X) PROVE X # {}
    BY <2>2 DEF IsLastBy
  <2> QED
    BY <2>1, <2>2
<1> QED
  BY <1>2 DEF Owed

\* No other call owes what is inside of one.
LEMMA NotOwed ==
  ASSUME InputInv, NEW inner, NEW outer, CountsInv(outer),
         NEW s, Within(inner, outer, s),
         NEW Z, inner.alpha \subseteq Z, Z \subseteq inner.alpha \cup Large(inner.counts)
  PROVE  Z \notin Owed(outer, outer.left)
<1> DEFINE c == outer.counts
<1>1. /\ s \in Large(c) /\ s \notin outer.left /\ s \in inner.alpha
      /\ \A i \in inner.alpha \cup Large(inner.counts) :
           \/ i \in outer.alpha
           \/ i = s
           \/ i \in Large(c) /\ Precedes(c, i, s)
  BY DEF Within
<1>2. c \in [Item -> Nat] /\ Large(c) \in SUBSET Item
  BY CallType
<1>3. \A i \in Large(c) : i \notin outer.alpha
  BY DEF CountsInv
<1> HIDE DEF c
<1>4. ASSUME NEW X \in SUBSET Large(c), NEW u \in outer.left, IsLastBy(c, u, X),
             Z = outer.alpha \cup X
      PROVE  FALSE
  <2>1. s \in X
    BY <1>1, <1>3, <1>4
  <2>2. \A i \in X : i = s \/ Precedes(c, i, s)
    BY <1>1, <1>3, <1>4
  <2>3. IsLastBy(c, s, X)
    BY <2>1, <2>2 DEF IsLastBy
  <2>4. X \in SUBSET Item
    BY <1>2
  <2>5. s = u
    BY <1>2, <1>4, <2>3, <2>4, LastBy
  <2> QED
    BY <1>1, <2>5
<1> QED
  BY <1>4 DEF Owed, c

\* A single path is left with all it owes written.
LEMMA SinglePathFinds ==
  ASSUME InputInv, NEW call, CountsInv(call), TreeInv(call), SinglePath(call.tree),
         NEW path, path = Path(call.tree)
  PROVE  /\ Len(path) = Cardinality(Large(call.counts))
         /\ {Combination(call, path, D) : D \in AllCombinations(Len(path))} =
              {Pattern(Z, Support(db, Z)) : Z \in Owed(call, Large(call.counts))}
         /\ \A X \in SUBSET Large(call.counts) : X # {} => call.alpha \cup X \in FrequentSets
<1> DEFINE c == call.counts
           T == Tidset(db, call.alpha)
           v == VectorsBy(c)
           t == call.tree
<1>1. /\ call.alpha \in SUBSET Item /\ c \in [Item -> Nat] /\ LargeExact(c, call.alpha)
      /\ T \in SUBSET Tid /\ t = Grown(T, v) /\ Paths(v)
  BY CallType, VectorsType DEF TreeInv, Tidset
<1> HIDE DEF T, v, t
<1>2. PICK q \in Seq(Item) : IsInjective(q) /\ DOMAIN t = NodesOn(q)
  BY <1>1, LongestPath DEF t
<1>3. /\ ToSet(q) = Large(c)
      /\ \A m \in 1 .. Len(q) : q[m] \in Large(c) /\ t[SubSeq(q, 1, m)] = c[q[m]]
      /\ \A m \in 1 .. Len(q), x \in T : q[m] \in db[x] => \A i \in 1 .. m : q[i] \in db[x]
  BY <1>1, <1>2, PathNodes DEF T, v
<1>4. /\ path = [m \in 1 .. Len(q) |-> [symbol |-> q[m], count |-> c[q[m]]]]
      /\ Len(path) = Len(q)
  <2>1. \A m \in 1 .. Len(q) : q[m] \in Large(c) /\ t[SubSeq(q, 1, m)] = c[q[m]]
    BY <1>3
  <2> HIDE DEF c
  <2>2. /\ Path(t) = [m \in 1 .. Len(q) |-> [symbol |-> q[m], count |-> c[q[m]]]]
        /\ Len(Path(t)) = Len(q)
    BY ONLY InputInv, <1>1, <1>2, <2>1, PathItems
  <2> QED
    BY <2>2 DEF t
<1> DEFINE n == Len(q)
           W(D) == {q[m] : m \in D}
<1>5. n \in Nat /\ DOMAIN q = 1 .. n /\ Large(c) = {q[m] : m \in 1 .. n}
  BY <1>3 DEF ToSet
<1>6. Len(path) = Cardinality(Large(c))
  <2>1. q \in Bijection(1 .. n, Large(c))
    <3>1. q \in [1 .. n -> Large(c)]
      BY <1>3, <1>5
    <3>2. \A l, m \in 1 .. n : q[l] = q[m] => l = m
      BY <1>2, <1>5 DEF IsInjective
    <3>3. \A i \in Large(c) : \E m \in 1 .. n : q[m] = i
      BY <1>5
    <3> HIDE DEF n
    <3> QED
      BY <3>1, <3>2, <3>3 DEF Bijection, Injection, Surjection, IsInjective
  <2> HIDE DEF n
  <2>2. IsFiniteSet(1 .. n) /\ Cardinality(1 .. n) = n
    <3>1. IsFiniteSet(1 .. n) /\ Cardinality(1 .. n) = IF 1 > n THEN 0 ELSE n - 1 + 1
      BY <1>5, FS_Interval
    <3>2. (IF 1 > n THEN 0 ELSE n - 1 + 1) = n
      BY <1>5
    <3> QED
      BY <3>1, <3>2
  <2>3. Cardinality(Large(c)) = Cardinality(1 .. n)
    BY <2>1, <2>2, FS_Bijection DEF ExistsBijection
  <2> QED
    BY <1>4, <2>2, <2>3 DEF n
<1>7. ASSUME NEW D \in SUBSET (1 .. n), D # {}
      PROVE  /\ Combination(call, path, D) =
                  Pattern(call.alpha \cup W(D), Support(db, call.alpha \cup W(D)))
             /\ call.alpha \cup W(D) \in FrequentSets
             /\ W(D) \in SUBSET Large(c) /\ W(D) # {}
  <2>1. W(D) \in SUBSET Large(c) /\ W(D) # {}
    BY <1>3, <1>7
  <2> DEFINE X == W(D)
  <2>2. X = ItemsAt(q, D) /\ path = NodesFor(q, c)
    BY <1>4 DEF ItemsAt, NodesFor
  <2> HIDE DEF X
  <2>3. /\ Combination(call, path, D) =
             Pattern(call.alpha \cup X, Support(db, call.alpha \cup X))
        /\ call.alpha \cup X \in FrequentSets
    <3>1. Descends(q, c, T)
      BY <1>3 DEF Descends
    <3> HIDE DEF W
    <3> QED
      BY <1>4, <1>7, <2>2, <3>1, CombinationExact DEF T
  <2> QED
    BY <2>1, <2>3 DEF X
<1>8. ASSUME NEW X \in SUBSET Large(c), X # {}
      PROVE  \E D \in SUBSET (1 .. n) : D # {} /\ W(D) = X
  <2> DEFINE D == {m \in 1 .. n : q[m] \in X}
  <2>1. W(D) = X
    BY <1>5
  <2>2. D # {}
    BY <1>8, <2>1
  <2> QED
    BY <2>1, <2>2
<1>9. Owed(call, Large(c)) =
        {Z \in FrequentSets : \E X \in SUBSET Large(c) : X # {} /\ Z = call.alpha \cup X}
  BY OwedAll
<1> DEFINE O == Owed(call, Large(c))
           A == {Combination(call, path, D) : D \in AllCombinations(Len(path))}
           B == {Pattern(Z, Support(db, Z)) : Z \in O}
<1> HIDE DEF W
<1>10. ASSUME NEW D \in AllCombinations(Len(path)) PROVE Combination(call, path, D) \in B
  <2>1. D \in SUBSET (1 .. n) /\ D # {}
    BY <1>4 DEF AllCombinations
  <2>2. call.alpha \cup W(D) \in O
    BY <1>7, <1>9, <2>1
  <2> QED
    BY <1>7, <2>1, <2>2
<1>11. ASSUME NEW Z \in O PROVE Pattern(Z, Support(db, Z)) \in A
  <2>1. PICK X \in SUBSET Large(c) : X # {} /\ Z = call.alpha \cup X
    BY <1>9
  <2>2. PICK D \in SUBSET (1 .. n) : D # {} /\ W(D) = X
    BY <1>8, <2>1
  <2>3. D \in AllCombinations(Len(path))
    BY <1>4, <2>2 DEF AllCombinations
  <2>4. Combination(call, path, D) = Pattern(Z, Support(db, Z))
    BY <1>7, <2>1, <2>2
  <2> QED
    BY <2>3, <2>4
<1>12. A = B
  BY <1>10, <1>11
<1>13. ASSUME NEW X \in SUBSET Large(c), X # {} PROVE call.alpha \cup X \in FrequentSets
  BY <1>7, <1>8, <1>13
<1> QED
  BY <1>6, <1>12, <1>13

-----------------------------------------------------------------------------
(* The lines written.                                                      *)

LEMMA PatternItems ==
  ASSUME NEW X, NEW n
  PROVE  Pattern(X, n).items = X /\ Pattern(X, n).count = n
  BY DEF Pattern

\* The lines of sets that are owed are added.
LEMMA WriteMore ==
  ASSUME NEW owed, NEW D \in SUBSET FrequentSets, D \subseteq owed,
         \A X \in D : Cardinality(X) = 1 => SinglePath(tree)
  PROVE  Written(owed) (+) SetToBag({Pattern(X, Support(db, X)) : X \in D})
           = Written(owed \ D)
<1> DEFINE line(X) == Pattern(X, Support(db, X))
           A == {X \in FrequentSets : Cardinality(X) = 1 \/ X \notin owed}
           B == {X \in FrequentSets : Cardinality(X) = 1 \/ X \notin owed \ D}
           LA == {line(X) : X \in A}
           LB == {line(X) : X \in B}
           LD == {line(X) : X \in D}
           a == Written(owed)
           d == SetToBag(LD)
           b == Written(owed \ D)
<1>1. \A X : line(X).items = X
  BY PatternItems
<1>2. /\ DOMAIN a = LA
      /\ \A X \in A : a[line(X)] = IF Cardinality(X) = 1 /\ SinglePath(tree) /\ X \notin owed
                                   THEN 2 ELSE 1
  BY <1>1 DEF Written
<1>3. /\ DOMAIN b = LB
      /\ b = [l \in LB |-> b[l]]
      /\ \A X \in B : b[line(X)] = IF Cardinality(X) = 1 /\ SinglePath(tree) /\ X \notin owed \ D
                                   THEN 2 ELSE 1
  BY <1>1 DEF Written
<1>4. DOMAIN d = LD /\ \A l \in LD : d[l] = 1
  BY DEF SetToBag
<1>5. a (+) d = [l \in LA \cup LD |-> (IF l \in LA THEN a[l] ELSE 0)
                                        + (IF l \in LD THEN d[l] ELSE 0)]
  BY <1>2, <1>4 DEF (+)
<1> HIDE DEF a, b, d, line
<1>6. LA \cup LD = LB
  <2>1. A \cup D = B
    BY SMT
  <2> QED
    BY <2>1
<1>7. ASSUME NEW X \in B
      PROVE  b[line(X)] = (IF line(X) \in LA THEN a[line(X)] ELSE 0)
                            + (IF line(X) \in LD THEN d[line(X)] ELSE 0)
  <2>1. (line(X) \in LA <=> X \in A) /\ (line(X) \in LD <=> X \in D)
    BY <1>1
  <2> DEFINE one == Cardinality(X) = 1
             single == SinglePath(tree)
  <2>2. CASE X \in D
    <3>1. X \in owed /\ X \notin owed \ D /\ d[line(X)] = 1
      BY <1>4, <2>1, <2>2
    <3>2. CASE Cardinality(X) = 1
      BY <1>2, <1>3, <2>1, <2>2, <3>1, <3>2
    <3>3. CASE Cardinality(X) # 1
      BY <1>2, <1>3, <2>1, <2>2, <3>1, <3>3
    <3> QED
      BY <3>2, <3>3
  <2>3. CASE X \notin D
    <3>1. X \in A /\ (X \in owed <=> X \in owed \ D)
      BY <2>3
    <3>2. b[line(X)] = a[line(X)]
      BY <1>2, <1>3, <3>1
    <3>3. a[line(X)] \in Nat
      BY <1>2, <3>1
    <3> QED
      BY <2>1, <2>3, <3>1, <3>2, <3>3
  <2> QED
    BY <2>2, <2>3
<1>8. \A l \in LB : b[l] = (IF l \in LA THEN a[l] ELSE 0) + (IF l \in LD THEN d[l] ELSE 0)
  <2> HIDE DEF A
  <2> QED
    BY <1>7
<1>9. b = a (+) d
  <2> HIDE DEF LA, LB, LD
  <2> QED
    BY <1>3, <1>5, <1>6, <1>8
<1> QED
  BY <1>9 DEF a, b, d, line

\* Single items are written at first, again only if the main tree is a path.
LEMMA WriteSame ==
  ASSUME NEW owed, NEW O,
         \A X \in FrequentSets : Cardinality(X) # 1 \/ SinglePath(tree) => (X \in owed <=> X \in O)
  PROVE  Written(owed) = Written(O)
<1> DEFINE line(X) == Pattern(X, Support(db, X))
           A == {X \in FrequentSets : Cardinality(X) = 1 \/ X \notin owed}
           B == {X \in FrequentSets : Cardinality(X) = 1 \/ X \notin O}
           L == {line(X) : X \in A}
<1>1. A = B
  OBVIOUS
<1>2. ASSUME NEW l \in L
      PROVE  (IF Cardinality(l.items) = 1 /\ SinglePath(tree) /\ l.items \notin owed THEN 2 ELSE 1)
               = IF Cardinality(l.items) = 1 /\ SinglePath(tree) /\ l.items \notin O THEN 2 ELSE 1
  <2>1. PICK X \in A : l = line(X)
    OBVIOUS
  <2>2. l.items = X
    BY <2>1, PatternItems
  <2>3. SinglePath(tree) => (X \in owed <=> X \in O)
    OBVIOUS
  <2> QED
    BY <2>2, <2>3
<1>3. Written(owed) = [l \in L |->
        IF Cardinality(l.items) = 1 /\ SinglePath(tree) /\ l.items \notin owed THEN 2 ELSE 1]
  BY DEF Written
<1>4. Written(O) = [l \in L |->
        IF Cardinality(l.items) = 1 /\ SinglePath(tree) /\ l.items \notin O THEN 2 ELSE 1]
  BY <1>1 DEF Written
<1> HIDE DEF L
<1> QED
  BY <1>2, <1>3, <1>4

-----------------------------------------------------------------------------
(* The calls that have not returned, one put before the others.            *)

LEMMA PutFirst ==
  ASSUME NEW S, NEW a \in S, NEW r \in Seq(S), NEW e, e = <<a>> \o r
  PROVE  /\ e \in Seq(S) /\ Len(e) = Len(r) + 1 /\ Len(r) \in Nat /\ e # << >>
         /\ e[1] = a /\ Head(e) = a /\ Tail(e) = r
         /\ \A n \in 1 .. Len(r) : e[n + 1] = r[n]
<1>1. <<a>> \in Seq(S) /\ Len(<<a>>) = 1 /\ <<a>>[1] = a
  OBVIOUS
<1> DEFINE o == <<a>>
<1>2. o \in Seq(S) /\ Len(o) = 1 /\ o[1] = a /\ e = o \o r
  BY <1>1
<1> HIDE DEF o
<1>3. /\ e \in Seq(S) /\ Len(e) = Len(r) + 1 /\ Len(r) \in Nat
      /\ e[1] = a
      /\ \A n \in 1 .. Len(r) : e[n + 1] = r[n]
  BY <1>2
<1>4. e # << >> /\ Head(e) = a
  BY <1>3
<1>5. Tail(e) \in Seq(S) /\ Len(Tail(e)) = Len(r)
      /\ \A n \in 1 .. Len(r) : Tail(e)[n] = e[n + 1]
  BY <1>3, <1>4
<1>6. Tail(e) = r
  BY <1>3, <1>5, SeqEqual
<1> QED
  BY <1>3, <1>4, <1>6

LEMMA HeadAndTail ==
  ASSUME NEW S, NEW s \in Seq(S), s # << >>
  PROVE  /\ Head(s) \in S /\ s[1] = Head(s) /\ Tail(s) \in Seq(S)
         /\ s = <<Head(s)>> \o Tail(s)
<1>1. Head(s) \in S /\ s[1] = Head(s) /\ Tail(s) \in Seq(S) /\ Len(s) = Len(Tail(s)) + 1
      /\ Len(Tail(s)) \in Nat
      /\ \A n \in 1 .. Len(Tail(s)) : Tail(s)[n] = s[n + 1]
  OBVIOUS
<1> DEFINE e == <<Head(s)>> \o Tail(s)
<1>2. /\ e \in Seq(S) /\ Len(e) = Len(Tail(s)) + 1 /\ e[1] = Head(s)
      /\ \A n \in 1 .. Len(Tail(s)) : e[n + 1] = Tail(s)[n]
  BY <1>1, PutFirst
<1> HIDE DEF e
<1>3. ASSUME NEW n \in 1 .. Len(s) PROVE s[n] = e[n]
  <2>1. CASE n = 1
    BY <1>1, <1>2, <2>1
  <2>2. CASE n # 1
    <3>1. n - 1 \in 1 .. Len(Tail(s)) /\ (n - 1) + 1 = n
      BY <1>1, <2>2
    <3>2. s[(n - 1) + 1] = Tail(s)[n - 1] /\ e[(n - 1) + 1] = Tail(s)[n - 1]
      BY <1>1, <1>2, <3>1
    <3> QED
      BY <3>1, <3>2
  <2> QED
    BY <2>1, <2>2
<1>4. s = e
  BY <1>1, <1>2, <1>3, SeqEqual
<1> QED
  BY <1>1, <1>4 DEF e

LEMMA ConsTwo ==
  ASSUME NEW S, NEW a \in S, NEW b \in S, NEW r \in Seq(S)
  PROVE  <<a>> \o <<b>> \o r = <<a>> \o (<<b>> \o r)
<1> DEFINE o == <<a>>
           p == <<b>>
<1>1. o \in Seq(S) /\ p \in Seq(S)
  OBVIOUS
<1> HIDE DEF o, p
<1>2. (o \o p) \o r = o \o (p \o r)
  BY <1>1
<1> QED
  BY <1>2 DEF o, p

Inside(a, r) == \A n \in 1 .. Len(r) : \E s \in Item : Within(a, r[n], s)

WaitsFor(a, r, s) ==
  /\ s \in Item \ r[1].alpha
  /\ Within(a, r[1], s)
  /\ a.alpha = r[1].alpha \cup {s}
  /\ a.counts = PrefixCounts(r[1].tree, s)

LEMMA CallsCons ==
  ASSUME NEW S, NEW a \in S, NEW r \in Seq(S), NEW u \in {0, 1}
  PROVE  CallsInv(<<a>> \o r, u) <=>
           /\ CallsInv(r, 0)
           /\ CountsInv(a)
           /\ u = 1 => UnfilledInv(a)
           /\ u = 0 => TreeInv(a)
           /\ Inside(a, r)
           /\ u = 1 => Len(r) >= 1 /\ \E s : WaitsFor(a, r, s)
<1> DEFINE e == <<a>> \o r
<1>1. /\ e \in Seq(S) /\ Len(e) = Len(r) + 1 /\ Len(r) \in Nat
      /\ e[1] = a
      /\ \A n \in 1 .. Len(r) : e[n + 1] = r[n]
  BY PutFirst
<1> HIDE DEF e
<1>2. \A n : n \in 1 .. Len(e) => n = 1 \/ (n - 1 \in 1 .. Len(r) /\ n \in Nat /\ n > 1
                                            /\ e[n] = r[n - 1] /\ n - 1 \in Nat)
  <2> SUFFICES ASSUME NEW n \in 1 .. Len(e), n # 1
               PROVE  n - 1 \in 1 .. Len(r) /\ n \in Nat /\ n > 1 /\ e[n] = r[n - 1]
                      /\ n - 1 \in Nat
    OBVIOUS
  <2>1. n - 1 \in 1 .. Len(r) /\ n \in Nat /\ n > 1 /\ (n - 1) + 1 = n /\ n - 1 \in Nat
    BY <1>1
  <2>2. e[(n - 1) + 1] = r[n - 1]
    BY <1>1, <2>1
  <2> QED
    BY <2>1, <2>2
<1>3. \A n \in 1 .. Len(r) : /\ n + 1 \in 1 .. Len(e) /\ e[n + 1] = r[n]
                             /\ n + 1 # 1 /\ n + 1 # 0 /\ 1 < n + 1 /\ n # 0 /\ n \in Nat
  BY <1>1
<1>4. 1 \in 1 .. Len(e) /\ 1 # 0
  BY <1>1
<1>5. (u = 1 => Len(e) >= 2 /\ \E s \in Item \ e[2].alpha :
                  /\ Within(e[1], e[2], s)
                  /\ e[1].alpha = e[2].alpha \cup {s}
                  /\ e[1].counts = PrefixCounts(e[2].tree, s))
      <=> (u = 1 => Len(r) >= 1 /\ \E s : WaitsFor(a, r, s))
  <2>1. Len(e) >= 2 <=> Len(r) >= 1
    BY <1>1
  <2>2. Len(r) >= 1 => e[2] = r[1]
    <3>1. Len(r) >= 1 => 1 \in 1 .. Len(r) /\ 1 + 1 = 2
      BY <1>1
    <3> QED
      BY <1>1, <3>1
  <2> QED
    BY <1>1, <2>1, <2>2 DEF WaitsFor
<1>6. ASSUME CallsInv(e, u)
      PROVE  /\ CallsInv(r, 0)
             /\ CountsInv(a)
             /\ u = 1 => UnfilledInv(a)
             /\ u = 0 => TreeInv(a)
             /\ Inside(a, r)
             /\ u = 1 => Len(r) >= 1 /\ \E s : WaitsFor(a, r, s)
  <2>1. CountsInv(a) /\ (u = 1 => UnfilledInv(a)) /\ (u = 0 => TreeInv(a))
    <3>1. CountsInv(e[1]) /\ (1 = u => UnfilledInv(e[1])) /\ (1 # u => TreeInv(e[1]))
      BY <1>4, <1>6 DEF CallsInv
    <3> QED
      BY <1>1, <3>1
  <2>2. Inside(a, r)
    <3> SUFFICES ASSUME NEW n \in 1 .. Len(r) PROVE \E s \in Item : Within(a, r[n], s)
      BY DEF Inside
    <3>1. n + 1 \in 1 .. Len(e) /\ e[n + 1] = r[n] /\ 1 < n + 1
      BY <1>3
    <3>2. \E s \in Item : Within(e[1], e[n + 1], s)
      BY <1>4, <1>6, <3>1 DEF CallsInv
    <3> QED
      BY <1>1, <3>1, <3>2
  <2>3. CallsInv(r, 0)
    <3>1. ASSUME NEW n \in 1 .. Len(r) PROVE CountsInv(r[n]) /\ TreeInv(r[n]) /\ n # 0
      <4>1. n + 1 \in 1 .. Len(e) /\ e[n + 1] = r[n] /\ n + 1 # u /\ n # 0
        BY <1>3
      <4>2. CountsInv(e[n + 1]) /\ TreeInv(e[n + 1])
        BY <1>6, <4>1 DEF CallsInv
      <4> QED
        BY <4>1, <4>2
    <3>2. ASSUME NEW m \in 1 .. Len(r), NEW n \in 1 .. Len(r), m < n
          PROVE  \E s \in Item : Within(r[m], r[n], s)
      <4>1. /\ m + 1 \in 1 .. Len(e) /\ n + 1 \in 1 .. Len(e) /\ m + 1 < n + 1
            /\ e[m + 1] = r[m] /\ e[n + 1] = r[n]
        BY <1>3, <3>2
      <4>2. \E s \in Item : Within(e[m + 1], e[n + 1], s)
        BY <1>6, <4>1 DEF CallsInv
      <4> QED
        BY <4>1, <4>2
    <3> QED
      BY <3>1, <3>2 DEF CallsInv
  <2>4. u = 1 => Len(r) >= 1 /\ \E s : WaitsFor(a, r, s)
    BY <1>5, <1>6 DEF CallsInv
  <2> QED
    BY <2>1, <2>2, <2>3, <2>4
<1>7. ASSUME /\ CallsInv(r, 0)
             /\ CountsInv(a)
             /\ u = 1 => UnfilledInv(a)
             /\ u = 0 => TreeInv(a)
             /\ Inside(a, r)
             /\ u = 1 => Len(r) >= 1 /\ \E s : WaitsFor(a, r, s)
      PROVE  CallsInv(e, u)
  <2>1. ASSUME NEW n \in 1 .. Len(e)
        PROVE  /\ CountsInv(e[n])
               /\ n = u => UnfilledInv(e[n])
               /\ n # u => TreeInv(e[n])
    <3>1. CASE n = 1
      BY <1>1, <1>7, <3>1
    <3>2. CASE n # 1
      <4>1. n - 1 \in 1 .. Len(r) /\ e[n] = r[n - 1] /\ n # u /\ n - 1 # 0
        BY <1>2, <3>2
      <4>2. CountsInv(r[n - 1]) /\ TreeInv(r[n - 1])
        BY <1>7, <4>1 DEF CallsInv
      <4> QED
        BY <4>1, <4>2
    <3> QED
      BY <3>1, <3>2
  <2>2. ASSUME NEW m \in 1 .. Len(e), NEW n \in 1 .. Len(e), m < n
        PROVE  \E s \in Item : Within(e[m], e[n], s)
    <3>1. n # 1
      BY <2>2
    <3>2. n - 1 \in 1 .. Len(r) /\ e[n] = r[n - 1]
      BY <1>2, <3>1
    <3>3. CASE m = 1
      BY <1>1, <1>7, <3>2, <3>3 DEF Inside
    <3>4. CASE m # 1
      <4>1. m - 1 \in 1 .. Len(r) /\ e[m] = r[m - 1] /\ m - 1 < n - 1
        BY <1>2, <2>2, <3>4
      <4>2. \E s \in Item : Within(r[m - 1], r[n - 1], s)
        BY <1>7, <3>2, <4>1 DEF CallsInv
      <4> QED
        BY <3>2, <4>1, <4>2
    <3> QED
      BY <3>3, <3>4
  <2> QED
    BY <1>5, <1>7, <2>1, <2>2 DEF CallsInv
<1> QED
  BY <1>6, <1>7 DEF e

\* What is owed by the first call and by the others.
LEMMA OwedCons ==
  ASSUME NEW S, NEW a \in S, NEW r \in Seq(S), NEW u \in {0, 1}
  PROVE  OwedByAll(<<a>> \o r, u) =
           Owed(a, IF u = 1 THEN Large(a.counts) ELSE a.left) \cup OwedByAll(r, 0)
<1> DEFINE e == <<a>> \o r
           O(n) == Owed(e[n], LeftIn(e, u, n))
           P(n) == Owed(r[n], LeftIn(r, 0, n))
<1>1. /\ e \in Seq(S) /\ Len(e) = Len(r) + 1 /\ Len(r) \in Nat
      /\ e[1] = a
      /\ \A n \in 1 .. Len(r) : e[n + 1] = r[n]
  BY PutFirst
<1> HIDE DEF e
<1>2. O(1) = Owed(a, IF u = 1 THEN Large(a.counts) ELSE a.left)
  BY <1>1 DEF LeftIn
<1>3. \A n \in 1 .. Len(r) : n + 1 \in 1 .. Len(e) /\ O(n + 1) = P(n)
  BY <1>1 DEF LeftIn
<1>4. OwedByAll(e, u) = UNION {O(n) : n \in 1 .. Len(e)}
      /\ OwedByAll(r, 0) = UNION {P(n) : n \in 1 .. Len(r)}
  BY DEF OwedByAll
<1> HIDE DEF O, P
<1>5. ASSUME NEW n \in 1 .. Len(e) PROVE n = 1 \/ (n - 1 \in 1 .. Len(r) /\ O(n) = P(n - 1))
  <2>1. n # 1 => n - 1 \in 1 .. Len(r) /\ (n - 1) + 1 = n
    BY <1>1
  <2>2. n # 1 => O((n - 1) + 1) = P(n - 1)
    BY <1>3, <2>1
  <2> QED
    BY <2>1, <2>2
<1>6. 1 \in 1 .. Len(e)
  BY <1>1
<1>7. UNION {O(n) : n \in 1 .. Len(e)} = O(1) \cup UNION {P(n) : n \in 1 .. Len(r)}
  BY <1>3, <1>5, <1>6
<1> QED
  BY <1>2, <1>4, <1>7 DEF e

LEMMA OwedPut ==
  ASSUME NEW S, NEW a \in S, NEW r \in Seq(S)
  PROVE  /\ OwedByAll(<<a>> \o r, 0) = Owed(a, a.left) \cup OwedByAll(r, 0)
         /\ OwedByAll(<<a>> \o r, 1) = Owed(a, Large(a.counts)) \cup OwedByAll(r, 0)
<1>1. 0 \in {0, 1} /\ 1 \in {0, 1} /\ 0 # 1
  OBVIOUS
<1>2. OwedByAll(<<a>> \o r, 0) =
        Owed(a, IF 0 = 1 THEN Large(a.counts) ELSE a.left) \cup OwedByAll(r, 0)
  BY <1>1, OwedCons
<1>3. OwedByAll(<<a>> \o r, 1) =
        Owed(a, IF 1 = 1 THEN Large(a.counts) ELSE a.left) \cup OwedByAll(r, 0)
  BY <1>1, OwedCons
<1> QED
  BY <1>1, <1>2, <1>3

\* The other calls owe nothing of what is inside of the first.
LEMMA NotOwedByOthers ==
  ASSUME InputInv, NEW a, NEW r, CallsInv(r, 0), Inside(a, r),
         NEW Z, a.alpha \subseteq Z, Z \subseteq a.alpha \cup Large(a.counts)
  PROVE  Z \notin OwedByAll(r, 0)
<1>1. ASSUME NEW n \in 1 .. Len(r) PROVE Z \notin Owed(r[n], LeftIn(r, 0, n))
  <2>1. PICK s \in Item : Within(a, r[n], s)
    BY DEF Inside
  <2>2. CountsInv(r[n]) /\ n # 0
    BY DEF CallsInv
  <2>3. Z \notin Owed(r[n], r[n].left)
    BY <2>1, <2>2, NotOwed
  <2> QED
    BY <2>2, <2>3 DEF LeftIn
<1> QED
  BY <1>1 DEF OwedByAll

\* Less is inside of the same calls.
LEMMA InsideLess ==
  ASSUME NEW a, NEW b, NEW r, Inside(a, r), a.alpha \subseteq b.alpha,
         b.alpha \cup Large(b.counts) \subseteq a.alpha \cup Large(a.counts)
  PROVE  Inside(b, r)
<1>1. ASSUME NEW n \in 1 .. Len(r) PROVE \E s \in Item : Within(b, r[n], s)
  <2>1. PICK s \in Item : Within(a, r[n], s)
    BY DEF Inside
  <2>2. Within(b, r[n], s)
    BY <2>1 DEF Within
  <2> QED
    BY <2>2
<1> QED
  BY <1>1 DEF Inside

\* A round of the loop makes the call a for the symbol, and b of the call.
Opens(call, symbol, a, b) ==
  /\ a.tree = EmptyTree /\ a.counts = PrefixCounts(call.tree, symbol)
  /\ a.alpha = call.alpha \cup {symbol} /\ a.count = call.counts[symbol] /\ a.left = {}
  /\ b.tree = call.tree /\ b.counts = call.counts /\ b.alpha = call.alpha
  /\ b.count = call.count /\ b.left = call.left \ {symbol}

\* A round of the loop owes beta and what the call for it owes, less.
LEMMA NewCall ==
  ASSUME InputInv, NEW S, NEW call \in S, NEW r \in Seq(S), NEW a \in S, NEW b \in S,
         CallsInv(<<call>> \o r, 0), ~ SinglePath(call.tree), NEW symbol \in call.left,
         Opens(call, symbol, a, b)
  PROVE  /\ CallsInv(<<a>> \o (<<b>> \o r), 1)
         /\ OwedByAll(<<call>> \o r, 0) = OwedByAll(<<a>> \o (<<b>> \o r), 1) \cup {a.alpha}
         /\ a.alpha \notin OwedByAll(<<a>> \o (<<b>> \o r), 1)
         /\ a.alpha \in FrequentSets /\ Support(db, a.alpha) = call.counts[symbol]
         /\ call.counts[symbol] >= epsilon
<1> USE DEF Opens
<1> DEFINE c == call.counts
           d == a.counts
           alpha == call.alpha
           beta == a.alpha
           T == Tidset(db, alpha)
           v == VectorsBy(c)
<1>1. CallsInv(r, 0) /\ CountsInv(call) /\ TreeInv(call) /\ Inside(call, r)
  <2>1. 0 \in {0, 1} /\ 0 # 1
    OBVIOUS
  <2> QED
    BY <2>1, CallsCons
<1>2. /\ alpha \in SUBSET Item /\ c \in [Item -> 0 .. NumTxn] /\ c \in [Item -> Nat]
      /\ Large(c) \in SUBSET Item
      /\ LargeExact(c, alpha)
  BY <1>1, CallType
<1>3. symbol \in Large(c) /\ symbol \in Item /\ symbol \notin alpha
      /\ c[symbol] = Support(db, beta) /\ c[symbol] >= epsilon
  <2>1. symbol \in Large(c)
    BY <1>1 DEF TreeInv
  <2> QED
    BY <1>2, <2>1 DEF LargeExact, Large
<1>4. /\ d \in [Item -> 0 .. NumTxn] /\ Counted(d, c, alpha, symbol)
  <2>1. call.tree = Grown(T, v)
    BY <1>1 DEF TreeInv
  <2> HIDE DEF T, v, c, alpha
  <2>2. /\ PrefixCounts(call.tree, symbol) \in [Item -> 0 .. NumTxn]
        /\ Counted(PrefixCounts(call.tree, symbol), c, alpha, symbol)
    BY <1>2, <1>3, <2>1, CountSymbols DEF T, v
  <2> QED
    BY <2>2
<1>5. d \in [Item -> Nat]
  BY <1>4
<1>6. \A i : i \in Large(d) <=> /\ i \in Large(c) /\ Precedes(c, i, symbol)
                                /\ Support(db, alpha \cup {symbol, i}) >= epsilon
  <2>1. symbol \in Large(c)
    BY <1>3
  <2> HIDE DEF c, d, alpha
  <2> QED
    BY <1>2, <1>4, <1>5, <2>1, LargeWith
<1>7. \A i \in Large(d) : i # symbol /\ i \notin beta /\ i \in Large(c) /\ Precedes(c, i, symbol)
  <2>1. ~ Precedes(c, symbol, symbol)
    BY <1>2, <1>3, PrecedesOrder
  <2> QED
    BY <1>2, <1>6, <2>1 DEF LargeExact
<1>8. CountsInv(a)
  <2>1. beta \subseteq Item /\ beta # {}
    BY <1>2, <1>3
  <2>2. ASSUME NEW i \in Large(d) PROVE d[i] = Support(db, beta \cup {i})
    <3>1. alpha \cup {symbol, i} = beta \cup {i}
      OBVIOUS
    <3>2. i \in Item
      BY <1>2, <1>7
    <3> QED
      BY <1>4, <1>7, <3>1, <3>2 DEF Counted
  <2>3. a.count = Support(db, beta)
    BY <1>3
  <2> QED
    BY <1>4, <1>7, <2>1, <2>2, <2>3 DEF CountsInv
<1>9. UnfilledInv(a)
  BY <1>3 DEF UnfilledInv
<1>10. CountsInv(b)
  BY <1>1 DEF CountsInv
<1>11. TreeInv(b)
  BY <1>1 DEF TreeInv
<1>12. Within(a, b, symbol)
  <2>1. symbol \in Large(b.counts) \ b.left /\ symbol \in a.alpha /\ b.alpha \subseteq a.alpha
    BY <1>3
  <2>2. \A i \in a.alpha \cup Large(a.counts) :
          \/ i \in b.alpha
          \/ i = symbol
          \/ i \in Large(b.counts) /\ Precedes(b.counts, i, symbol)
    BY <1>7
  <2> QED
    BY <2>1, <2>2 DEF Within
<1>13. Inside(b, r) /\ Inside(a, r)
  <2>1. Inside(b, r)
    BY <1>1, InsideLess
  <2>2. a.alpha \cup Large(a.counts) \subseteq call.alpha \cup Large(call.counts)
    BY <1>3, <1>7
  <2>3. call.alpha \subseteq a.alpha
    OBVIOUS
  <2>4. Inside(a, r)
    BY <1>1, <2>2, <2>3, InsideLess
  <2> QED
    BY <2>1, <2>4
<1> DEFINE s == <<b>> \o r
<1>14. /\ s \in Seq(S) /\ s[1] = b /\ Len(s) = Len(r) + 1 /\ Len(r) \in Nat
       /\ \A n \in 1 .. Len(r) : s[n + 1] = r[n]
  BY PutFirst
<1>15. CallsInv(s, 0)
  <2>1. 0 \in {0, 1} /\ 0 # 1
    OBVIOUS
  <2> QED
    BY <1>1, <1>10, <1>11, <1>13, <2>1, CallsCons
<1>16. OwedByAll(s, 0) = Owed(b, b.left) \cup OwedByAll(r, 0)
  <2>1. b \in S /\ r \in Seq(S)
    OBVIOUS
  <2>2. OwedByAll(<<b>> \o r, 0) = Owed(b, b.left) \cup OwedByAll(r, 0)
    BY ONLY <2>1, OwedPut
  <2> QED
    BY <2>2
<1> HIDE DEF s
<1>17. Inside(a, s)
  <2> SUFFICES ASSUME NEW n \in 1 .. Len(s) PROVE \E u \in Item : Within(a, s[n], u)
    BY DEF Inside
  <2>1. CASE n = 1
    BY <1>3, <1>12, <1>14, <2>1
  <2>2. CASE n # 1
    <3>1. n - 1 \in 1 .. Len(r) /\ (n - 1) + 1 = n
      BY <1>14, <2>2
    <3>2. s[(n - 1) + 1] = r[n - 1]
      BY <1>14, <3>1
    <3> QED
      BY <1>13, <3>1, <3>2 DEF Inside
  <2> QED
    BY <2>1, <2>2
<1>18. WaitsFor(a, s, symbol) /\ Len(s) >= 1
  BY <1>3, <1>12, <1>14 DEF WaitsFor
<1>19. CallsInv(<<a>> \o s, 1)
  <2>1. 1 \in {0, 1} /\ 1 # 0
    OBVIOUS
  <2> QED
    BY <1>8, <1>9, <1>14, <1>15, <1>17, <1>18, <2>1, CallsCons
<1>20. /\ OwedByAll(<<a>> \o s, 1) = Owed(a, Large(d)) \cup OwedByAll(s, 0)
       /\ OwedByAll(<<call>> \o r, 0) = Owed(call, call.left) \cup OwedByAll(r, 0)
  <2>1. a \in S /\ s \in Seq(S) /\ call \in S /\ r \in Seq(S)
    BY <1>14
  <2>2. OwedByAll(<<a>> \o s, 1) = Owed(a, Large(a.counts)) \cup OwedByAll(s, 0)
    BY ONLY <2>1, OwedPut
  <2>3. OwedByAll(<<call>> \o r, 0) = Owed(call, call.left) \cup OwedByAll(r, 0)
    BY ONLY <2>1, OwedPut
  <2> QED
    BY <2>2, <2>3
<1>21. beta \in FrequentSets
  <2>1. beta \in Itemset
    BY <1>2, <1>3 DEF Itemset
  <2> QED
    BY <1>3, <2>1 DEF FrequentSets, Frequent
<1>22. Owed(a, Large(d)) = {Z \in FrequentSets : \E Y \in SUBSET Large(d) :
                                                 Y # {} /\ Z = beta \cup Y}
  BY <1>8, OwedAll
<1>23. Owed(call, call.left) = Owed(a, Large(d)) \cup Owed(b, b.left) \cup {beta}
  <2>1. ASSUME NEW Z \in FrequentSets, NEW X \in SUBSET Large(c), IsLastBy(c, symbol, X),
               Z = alpha \cup X
        PROVE  Z \in Owed(a, Large(d)) \cup {beta}
    <3> DEFINE Y == X \ {symbol}
    <3>1. Z = beta \cup Y /\ X = Y \cup {symbol}
      BY <2>1 DEF IsLastBy
    <3>2. ASSUME NEW i \in Y PROVE i \in Large(d)
      <4>1. i \in Large(c) /\ Precedes(c, i, symbol)
        BY <2>1, <3>2 DEF IsLastBy
      <4>2. alpha \cup {symbol, i} \subseteq Z
        BY <3>1
      <4>3. Support(db, Z) <= Support(db, alpha \cup {symbol, i})
        BY <4>2, SupportAntitone
      <4>4. Support(db, Z) >= epsilon
        BY DEF FrequentSets, Frequent
      <4>5. Support(db, alpha \cup {symbol, i}) \in Nat /\ Support(db, Z) \in Nat /\ epsilon \in Nat
        BY SupportType, InputType
      <4>6. Support(db, alpha \cup {symbol, i}) >= epsilon
        BY <4>3, <4>4, <4>5
      <4> QED
        BY <1>6, <4>1, <4>6
    <3>3. Y \in SUBSET Large(d)
      BY <3>2
    <3> HIDE DEF Y
    <3>4. CASE Y = {}
      BY <3>1, <3>4
    <3>5. CASE Y # {}
      BY <1>22, <3>1, <3>3, <3>5
    <3> QED
      BY <3>4, <3>5
  <2>2. ASSUME NEW Y \in SUBSET Large(d), NEW Z \in FrequentSets, Z = beta \cup Y
        PROVE  Z \in Owed(call, call.left)
    <3> DEFINE X == Y \cup {symbol}
    <3>1. X \in SUBSET Large(c) /\ Z = alpha \cup X
      BY <1>3, <1>7, <2>2
    <3>2. IsLastBy(c, symbol, X)
      BY <1>7 DEF IsLastBy
    <3> HIDE DEF X
    <3> QED
      BY <3>1, <3>2 DEF Owed
  <2>3. Owed(a, Large(d)) \subseteq Owed(call, call.left) /\ beta \in Owed(call, call.left)
    <3>1. {} \in SUBSET Large(d) /\ beta = beta \cup {}
      OBVIOUS
    <3>2. beta \in Owed(call, call.left)
      BY <1>21, <2>2, <3>1
    <3> QED
      BY <1>22, <2>2, <3>2
  <2>4. Owed(b, b.left) \subseteq Owed(call, call.left)
    BY DEF Owed
  <2>5. ASSUME NEW Z \in Owed(call, call.left)
        PROVE  Z \in Owed(a, Large(d)) \cup Owed(b, b.left) \cup {beta}
    <3>1. PICK X \in SUBSET Large(c), u \in call.left :
            Z \in FrequentSets /\ IsLastBy(c, u, X) /\ Z = alpha \cup X
      BY DEF Owed
    <3>2. CASE u = symbol
      BY <2>1, <3>1, <3>2
    <3>3. CASE u # symbol
      <4>1. u \in b.left
        BY <3>3
      <4>2. Z \in Owed(b, b.left)
        BY <3>1, <4>1 DEF Owed
      <4> QED
        BY <4>2
    <3> QED
      BY <3>2, <3>3
  <2> QED
    BY <2>3, <2>4, <2>5
<1>24. beta \notin OwedByAll(<<a>> \o s, 1)
  <2>1. beta \notin Owed(a, Large(d))
    BY <1>7, <1>22
  <2>2. beta \notin Owed(b, b.left)
    <3>1. a.alpha \subseteq beta /\ beta \subseteq a.alpha \cup Large(a.counts)
      OBVIOUS
    <3> QED
      BY <1>10, <1>12, <3>1, NotOwed
  <2>3. beta \notin OwedByAll(r, 0)
    <3>1. a.alpha \subseteq beta /\ beta \subseteq a.alpha \cup Large(a.counts)
      OBVIOUS
    <3> QED
      BY <1>1, <1>13, <3>1, NotOwedByOthers
  <2> QED
    BY <1>16, <1>20, <2>1, <2>2, <2>3
<1>25. OwedByAll(<<call>> \o r, 0) = OwedByAll(<<a>> \o s, 1) \cup {beta}
  BY <1>16, <1>20, <1>23
<1> QED
  BY <1>3, <1>19, <1>21, <1>24, <1>25 DEF s

\* The conditional tree a call waits for.
TreeFor(call, caller) ==
  ConditionalTree(caller.tree, CHOOSE s \in call.alpha : s \notin caller.alpha, call.counts)

\* The call k is a with its tree.
Fills(k, a, cond) ==
  /\ k.tree = cond /\ k.counts = a.counts /\ k.alpha = a.alpha /\ k.count = a.count
  /\ k.left = Symbols(cond)

\* A conditional tree filled, and left out when it is empty.
LEMMA FilledCall ==
  ASSUME InputInv, NEW S, NEW a \in S, NEW r \in Seq(S), NEW k \in S,
         CallsInv(<<a>> \o r, 1),
         NEW cond, cond = TreeFor(a, r[1]),
         Fills(k, a, cond)
  PROVE  /\ CallsInv(<<k>> \o r, 0)
         /\ OwedByAll(<<k>> \o r, 0) = OwedByAll(<<a>> \o r, 1)
         /\ cond = EmptyTree => /\ CallsInv(r, 0)
                                /\ OwedByAll(r, 0) = OwedByAll(<<a>> \o r, 1)
         /\ cond \in Tree /\ Symbols(cond) \in SUBSET Item
<1> USE DEF Fills
<1> DEFINE d == a.counts
           symbol == CHOOSE s \in a.alpha : s \notin r[1].alpha
           caller == r[1]
           T == Tidset(db, caller.alpha)
           v == VectorsBy(caller.counts)
           U == Tidset(db, a.alpha)
           w == VectorsBy(d)
<1>1. /\ CallsInv(r, 0) /\ CountsInv(a) /\ UnfilledInv(a) /\ Inside(a, r)
      /\ Len(r) >= 1 /\ \E s : WaitsFor(a, r, s)
  <2>1. 1 \in {0, 1} /\ 1 # 0
    OBVIOUS
  <2> QED
    BY <2>1, CallsCons
<1>2. PICK s : WaitsFor(a, r, s)
  BY <1>1
<1>3. /\ s \in Item \ caller.alpha /\ Within(a, caller, s) /\ a.alpha = caller.alpha \cup {s}
      /\ d = PrefixCounts(caller.tree, s)
  BY <1>2 DEF WaitsFor
<1>4. symbol = s
  BY <1>3
<1>5. CountsInv(caller) /\ TreeInv(caller)
  <2>1. 1 \in 1 .. Len(r) /\ 1 # 0
    BY <1>1
  <2> QED
    BY <1>1, <2>1 DEF CallsInv
<1>6. s \in Large(caller.counts)
  BY <1>3 DEF Within
<1> HIDE DEF caller
<1>7. /\ caller.counts \in [Item -> Nat] /\ caller.alpha \in SUBSET Item
      /\ d \in [Item -> Nat] /\ a.alpha \in SUBSET Item /\ LargeExact(d, a.alpha)
  BY <1>1, <1>5, CallType
<1>8. cond = Grown(U, w)
  <2>1. caller.tree = Grown(T, v)
    BY <1>5 DEF TreeInv
  <2>2. ConditionalTree(caller.tree, s, d) =
          Grown(Tidset(db, caller.alpha \cup {s}), VectorsBy(d))
    <3>1. d = PrefixCounts(caller.tree, s)
      BY <1>3 DEF caller
    <3>2. T = Tidset(db, caller.alpha) /\ v = VectorsBy(caller.counts)
      OBVIOUS
    <3> HIDE DEF T, v, d
    <3>3. InputInv /\ caller.counts \in [Item -> Nat] /\ caller.alpha \in SUBSET Item
          /\ s \in Large(caller.counts)
      BY <1>6, <1>7
    <3> QED
      BY ONLY <2>1, <3>1, <3>2, <3>3, ConditionalTrees
  <2>3. cond = ConditionalTree(caller.tree, s, d)
    BY <1>4 DEF TreeFor, caller
  <2> QED
    BY <1>3, <2>2, <2>3
<1>9. Symbols(cond) = Large(d) /\ Large(d) \in SUBSET Item
  BY <1>7, <1>8, GrownSymbols DEF Large
<1>10. cond \in Tree
  <2>1. Paths(w) /\ U \in SUBSET Tid
    BY <1>7, VectorsType DEF Tidset
  <2> QED
    BY <1>8, <2>1, GrownTree
<1>11. CountsInv(k)
  BY <1>1 DEF CountsInv
<1>12. TreeInv(k)
  <2>1. k.alpha # {}
    BY <1>1 DEF UnfilledInv
  <2> QED
    BY <1>8, <1>9, <2>1 DEF TreeInv
<1>13. Inside(k, r)
  BY <1>1, InsideLess
<1>14. CallsInv(<<k>> \o r, 0)
  <2>1. 0 \in {0, 1} /\ 0 # 1
    OBVIOUS
  <2> QED
    BY <1>1, <1>11, <1>12, <1>13, <2>1, CallsCons
<1>15. /\ OwedByAll(<<a>> \o r, 1) = Owed(a, Large(d)) \cup OwedByAll(r, 0)
       /\ OwedByAll(<<k>> \o r, 0) = Owed(k, k.left) \cup OwedByAll(r, 0)
  <2>1. a \in S /\ k \in S /\ r \in Seq(S)
    OBVIOUS
  <2>2. OwedByAll(<<a>> \o r, 1) = Owed(a, Large(a.counts)) \cup OwedByAll(r, 0)
    BY ONLY <2>1, OwedPut
  <2>3. OwedByAll(<<k>> \o r, 0) = Owed(k, k.left) \cup OwedByAll(r, 0)
    BY ONLY <2>1, OwedPut
  <2> QED
    BY <2>2, <2>3
<1>16. Owed(k, k.left) = Owed(a, Large(d))
  BY <1>9 DEF Owed
<1>17. ASSUME cond = EmptyTree PROVE Owed(a, Large(d)) = {}
  <2>1. DOMAIN EmptyTree = {}
    BY DEF EmptyTree
  <2>2. Symbols(cond) = {}
    BY <1>17, <2>1 DEF Symbols
  <2> QED
    BY <1>9, <2>2 DEF Owed
<1> QED
  BY <1>1, <1>9, <1>10, <1>14, <1>15, <1>16, <1>17

-----------------------------------------------------------------------------
(* The invariant.                                                          *)

\* What the growing of trees does not change.
LEMMA Frozen ==
  ASSUME UNCHANGED <<inputs, tree>>
  PROVE  /\ InputInv' <=> InputInv
         /\ \A calls, u : CallsInv(calls, u)' <=> CallsInv(calls, u)
         /\ \A calls, u : OwedByAll(calls, u)' = OwedByAll(calls, u)
         /\ \A owed : Written(owed)' = Written(owed)
         /\ \A c : VectorsBy(c)' = VectorsBy(c)
<1>1. db' = db /\ epsilon' = epsilon /\ count' = count /\ F' = F /\ tree' = tree
  BY DEF inputs
<1>2. \A c : Large(c)' = Large(c)
  BY <1>1 DEF Large
<1>3. \A c : VectorsBy(c)' = VectorsBy(c)
  BY <1>1, <1>2 DEF VectorsBy
<1>4. FrequentSets' = FrequentSets
  BY <1>1 DEF FrequentSets
<1>5. \A k : CountsInv(k)' <=> CountsInv(k)
  BY <1>1, <1>2 DEF CountsInv
<1>6. \A k : TreeInv(k)' <=> TreeInv(k)
  BY <1>1, <1>2, <1>3 DEF TreeInv
<1>7. \A k, o, s : Within(k, o, s)' <=> Within(k, o, s)
  BY <1>2 DEF Within
<1>8. \A k, l : Owed(k, l)' = Owed(k, l)
  BY <1>2, <1>4 DEF Owed
<1>9. \A calls, u : CallsInv(calls, u)' <=> CallsInv(calls, u)
  BY <1>5, <1>6, <1>7 DEF CallsInv
<1>10. \A calls, u : OwedByAll(calls, u)' = OwedByAll(calls, u)
  BY <1>2, <1>8 DEF OwedByAll, LeftIn
<1>11. \A owed : Written(owed)' = Written(owed)
  BY <1>1, <1>4 DEF Written
<1>12. InputInv' <=> InputInv
  BY <1>1 DEF InputInv
<1> QED
  BY <1>3, <1>9, <1>10, <1>11, <1>12

LEMMA NoCalls ==
  /\ CallsInv(<< >>, 0)
  /\ OwedByAll(<< >>, 0) = {}
<1>1. Len(<< >>) = 0 /\ 0 # 1
  OBVIOUS
<1>2. \A n : n \notin 1 .. 0
  OBVIOUS
<1>3. CallsInv(<< >>, 0)
  BY <1>1, <1>2 DEF CallsInv
<1> QED
  BY <1>1, <1>2, <1>3 DEF OwedByAll

Frame == [tree : Tree, counts : [Item -> 0 .. NumTxn], alpha : SUBSET Item,
          count : 0 .. NumTxn, left : SUBSET Item]

GrowthInv == IInv /\ stack \in Seq(Frame)

\* What all calls owe: it only ever gets less while trees grow.
Owing == OwedByAll(stack, Unfilled)

LEMMA InitInvariant == Init => GrowthInv
<1> SUFFICES ASSUME Init PROVE GrowthInv
  OBVIOUS
<1>1. InputInv
  BY DEF Init, InputInv
<1>2. count \in [Item -> Nat]
  BY <1>1, InputType
<1>3. MainTreeInv
  <2>1. 0 .. tid - 1 = {} /\ tid \in 0 .. NumTxn
    BY SizesAssumption DEF Init
  <2>2. Grown({}, VectorsBy(count)) = EmptyTree
    <3>1. {} \in SUBSET Tid /\ \A x \in {} : ToSet(VectorsBy(count)[x]) = {}
      OBVIOUS
    <3>2. Paths(VectorsBy(count))
      BY <1>1, <1>2, VectorsType
    <3> QED
      BY <3>1, <3>2, GrownEmpty
  <2> QED
    BY <2>1, <2>2 DEF Init, MainTreeInv
<1>4. StackInv
  BY NoCalls DEF Init, StackInv, Unfilled
<1>5. OutInv
  BY DEF Init, OutInv
<1>6. stack \in Seq(Frame)
  BY DEF Init
<1>7. DOMAIN pattern_counts \subseteq (0 .. NumItems) \cup {1} /\ pc = "scan"
  BY DEF Init
<1> QED
  BY <1>1, <1>3, <1>4, <1>5, <1>6, <1>7 DEF GrowthInv, IInv

LEMMA ScanStep ==
  ASSUME GrowthInv, InsertTransaction
  PROVE  GrowthInv'
<1> USE DEF InsertTransaction
<1>1. /\ InputInv /\ MainTreeInv /\ StackInv /\ OutInv
      /\ stack = << >> /\ stack' = << >> /\ pc = "scan" /\ pc' = "scan" /\ out = EmptyBag
  BY DEF GrowthInv, IInv, StackInv, OutInv
<1>2. /\ db' = db /\ epsilon' = epsilon /\ count' = count /\ F' = F
  BY DEF inputs
<1>3. InputInv'
  BY <1>1, <1>2 DEF InputInv
<1> DEFINE T == 0 .. tid - 1
           v == VectorsBy(count)
           s == InOrder(db[tid] \cap F, count)
<1>4. /\ tid \in Tid /\ tid \in 0 .. NumTxn - 1 /\ NumTxn \in Nat
      /\ tid' = tid + 1 /\ tree' = Insert(tree, s, 1)
  BY SizesAssumption DEF Tid
<1>5. v' = v
  BY <1>2 DEF VectorsBy, Large
<1>6. Paths(v) /\ v[tid] = s
  <2>1. count \in [Item -> Nat] /\ F = Large(count)
    BY <1>1, InputType
  <2> QED
    BY <1>1, <1>4, <2>1, VectorsType
<1>7. MainTreeInv'
  <2>1. tree = Grown(T, v) /\ tid' \in 0 .. NumTxn
    BY <1>1, <1>4 DEF MainTreeInv
  <2>2. /\ T \in SUBSET Tid /\ {tid} \in SUBSET Tid /\ {tid} # {} /\ T \cap {tid} = {}
        /\ T \cup {tid} = 0 .. tid' - 1
    BY <1>4 DEF Tid
  <2>3. Cardinality({tid}) = 1
    BY FS_Singleton
  <2>4. \A x \in {tid} : v[x] = s
    BY <1>6
  <2> HIDE DEF T, v, s
  <2>5. Insert(Grown(T, v), s, Cardinality({tid})) = Grown(T \cup {tid}, v)
    BY <1>6, <2>2, <2>4, InsertMany
  <2>6. tree' = Grown(0 .. tid' - 1, VectorsBy(count))
    BY <1>4, <2>1, <2>2, <2>3, <2>5 DEF v
  <2>7. tree' = Grown(0 .. tid' - 1, VectorsBy(count)')
    BY <1>5, <2>6 DEF v
  <2> QED
    BY <1>1, <2>1, <2>7 DEF MainTreeInv
<1>8. StackInv'
  <2>1. CallsInv(stack, Unfilled)'
    BY <1>1 DEF CallsInv, Unfilled
  <2> QED
    BY <1>1, <2>1 DEF StackInv
<1>9. OutInv'
  BY <1>1 DEF OutInv
<1>10. /\ stack' \in Seq(Frame)' /\ (DOMAIN pattern_counts \subseteq (0 .. NumItems) \cup {1})'
  BY <1>1 DEF GrowthInv, IInv
<1> QED
  BY <1>1, <1>3, <1>7, <1>8, <1>9, <1>10 DEF GrowthInv, IInv

\* The lines discover_patterns writes: all longer sets are owed.
LEMMA OutputStep ==
  ASSUME GrowthInv, OutputItems
  PROVE  GrowthInv'
<1> USE DEF OutputItems
<1> DEFINE k == Call(tree, count, {}, 0)
<1>1. /\ InputInv /\ MainTreeInv /\ pc = "scan" /\ pc' = "grow" /\ stack' = <<k>>
  BY DEF GrowthInv, IInv
<1>2. UNCHANGED <<inputs, tree>> /\ tid' = tid
  OBVIOUS
<1>3. InputInv'
  BY <1>1, <1>2, Frozen
<1>4. /\ count \in [Item -> 0 .. NumTxn] /\ count \in [Item -> Nat] /\ F = Large(count)
      /\ \A i \in Item : count[i] = Support(db, {i})
      /\ epsilon \in Nat \ {0}
  BY <1>1, InputType
<1>5. tid = NumTxn /\ Tidset(db, {}) = Tid /\ 0 .. tid - 1 = Tid
  <2>1. tid \in 0 .. NumTxn /\ tid \notin 0 .. NumTxn - 1 /\ NumTxn \in Nat
    BY <1>1, SizesAssumption DEF MainTreeInv, Tid
  <2>2. tid = NumTxn
    BY <2>1
  <2> QED
    BY <2>2 DEF Tidset, Tid
<1>6. tree = Grown(Tidset(db, {}), VectorsBy(count))
  BY <1>1, <1>5 DEF MainTreeInv
<1>7. MainTreeInv'
  <2>1. VectorsBy(count)' = VectorsBy(count)
    BY <1>2 DEF inputs, VectorsBy, Large
  <2>2. tree' = tree /\ tid \in 0 .. NumTxn /\ tree = Grown(0 .. tid - 1, VectorsBy(count))
    BY <1>1 DEF MainTreeInv
  <2> QED
    BY <1>2, <1>5, <2>1, <2>2 DEF MainTreeInv
<1>8. LargeExact(count, {})
  BY <1>4 DEF LargeExact, Large
<1>9. Symbols(tree) = Large(count) /\ tree \in Tree /\ Large(count) \in SUBSET Item
  <2>1. {} \in SUBSET Item /\ Tidset(db, {}) \in SUBSET Tid
    BY DEF Tidset
  <2>2. Symbols(Grown(Tidset(db, {}), VectorsBy(count))) = Large(count)
    BY <1>1, <1>4, <1>8, <2>1, GrownSymbols
  <2>3. Paths(VectorsBy(count)) /\ Large(count) \in SUBSET Item
    BY <1>1, <1>4, VectorsType
  <2> QED
    BY <1>6, <2>1, <2>2, <2>3, GrownTree
<1>10. /\ k.tree = tree /\ k.counts = count /\ k.alpha = {} /\ k.count = 0
       /\ k.left = Large(count)
       /\ k \in Frame
  <2>1. k = [tree |-> tree, counts |-> count, alpha |-> {}, count |-> 0, left |-> Large(count)]
    BY <1>9 DEF Call
  <2>2. 0 \in 0 .. NumTxn
    BY SizesAssumption
  <2> HIDE DEF k
  <2> QED
    BY <1>4, <1>9, <2>1, <2>2 DEF Frame
<1> HIDE DEF k
<1>11. CountsInv(k)
  <2>1. \A i : {} \cup {i} = {i}
    OBVIOUS
  <2> QED
    BY <1>4, <1>10, <2>1 DEF CountsInv, Large
<1>12. TreeInv(k)
  BY <1>6, <1>10 DEF TreeInv
<1> DEFINE r == << >>
           e == <<k>> \o r
<1>13. r \in Seq(Frame) /\ Len(r) = 0 /\ <<k>> = e
  <2>1. <<k>> \in Seq(Frame)
    BY <1>10
  <2> QED
    BY <1>10, <2>1
<1>14. CallsInv(e, 0)
  <2>1. 0 \in {0, 1} /\ 0 # 1 /\ \A n : n \notin 1 .. 0
    OBVIOUS
  <2>2. CallsInv(r, 0)
    BY NoCalls
  <2> HIDE DEF r
  <2>3. Inside(k, r)
    BY <1>13, <2>1 DEF Inside
  <2> QED
    BY <1>10, <1>11, <1>12, <1>13, <2>1, <2>2, <2>3, CallsCons
<1>15. OwedByAll(e, 0) = Owed(k, Large(count))
  <2>1. OwedByAll(r, 0) = {}
    BY NoCalls
  <2> HIDE DEF r
  <2>2. k \in Frame /\ r \in Seq(Frame) /\ e = <<k>> \o r
    BY <1>10, <1>13
  <2>3. OwedByAll(e, 0) = Owed(k, k.left) \cup OwedByAll(r, 0)
    BY ONLY <2>2, OwedPut
  <2> QED
    BY <1>10, <2>1, <2>3
<1>16. ASSUME NEW X \in FrequentSets PROVE X \in Owed(k, Large(count))
  <2>1. X \in SUBSET Item /\ X # {} /\ Support(db, X) >= epsilon
    BY DEF FrequentSets, Itemset, Frequent
  <2>2. ASSUME NEW i \in X PROVE i \in Large(count)
    <3>1. {i} \subseteq X /\ i \in Item
      BY <2>1
    <3>2. Support(db, X) <= Support(db, {i})
      BY <3>1, SupportAntitone
    <3>3. Support(db, X) \in Nat /\ Support(db, {i}) \in Nat
      BY SupportType
    <3>4. count[i] >= epsilon
      BY <1>4, <2>1, <3>1, <3>2, <3>3
    <3> QED
      BY <3>1, <3>4 DEF Large
  <2>3. X \in SUBSET Large(count) /\ X = {} \cup X
    BY <2>2
  <2> QED
    BY <1>1, <1>10, <1>11, <2>1, <2>3, OwedAll
<1>17. Owed(k, Large(count)) = FrequentSets
  BY <1>16 DEF Owed
<1>18. out' = Written(FrequentSets)
  <2> DEFINE A == {X \in FrequentSets : Cardinality(X) = 1 \/ X \notin FrequentSets}
             L == {Pattern(X, Support(db, X)) : X \in A}
             M == {Pattern({i}, count[i]) : i \in F}
  <2>1. ASSUME NEW X \in A PROVE \E i \in F : X = {i} /\ Support(db, X) = count[i]
    <3>1. X \in SUBSET Item /\ Cardinality(X) = 1 /\ Support(db, X) >= epsilon /\ IsFiniteSet(X)
      BY FiniteSets DEF FrequentSets, Itemset, Frequent
    <3>2. PICK i : X = {i}
      BY <3>1, FS_Singleton
    <3>3. i \in Item /\ count[i] = Support(db, X) /\ count[i] >= epsilon
      BY <1>4, <3>1, <3>2
    <3> QED
      BY <1>4, <3>2, <3>3 DEF Large
  <2>2. ASSUME NEW i \in F PROVE {i} \in A /\ Support(db, {i}) = count[i]
    <3>1. i \in Item /\ count[i] = Support(db, {i}) /\ count[i] >= epsilon
      BY <1>4 DEF Large
    <3>2. {i} \in FrequentSets
      BY <3>1 DEF FrequentSets, Itemset, Frequent
    <3>3. Cardinality({i}) = 1
      BY FS_Singleton
    <3> QED
      BY <3>1, <3>2, <3>3
  <2>3. L = M
    <3> HIDE DEF A
    <3>1. ASSUME NEW X \in A PROVE Pattern(X, Support(db, X)) \in M
      <4>1. PICK i \in F : X = {i} /\ Support(db, X) = count[i]
        BY <2>1
      <4>2. Pattern(X, Support(db, X)) = Pattern({i}, count[i])
        BY <4>1
      <4> QED
        BY <4>2
    <3>2. ASSUME NEW i \in F PROVE Pattern({i}, count[i]) \in L
      <4>1. {i} \in A /\ Pattern({i}, Support(db, {i})) = Pattern({i}, count[i])
        BY <2>2
      <4> QED
        BY <4>1
    <3> QED
      BY <3>1, <3>2
  <2>4. \A l \in L : l.items \in FrequentSets
    BY PatternItems
  <2>5. Written(FrequentSets) = [l \in L |->
          IF Cardinality(l.items) = 1 /\ SinglePath(tree) /\ l.items \notin FrequentSets
          THEN 2 ELSE 1]
    BY DEF Written
  <2>6. out' = SetToBag(M)
    OBVIOUS
  <2> HIDE DEF L, M
  <2>7. Written(FrequentSets) = [l \in L |-> 1]
    BY <2>4, <2>5
  <2>8. SetToBag(M) = [l \in M |-> 1]
    BY DEF SetToBag
  <2> QED
    BY <2>3, <2>6, <2>7, <2>8
<1>19. Unfilled' = 0 /\ stack' = e
  BY <1>1, <1>13 DEF Unfilled
<1>20. StackInv'
  <2>1. CallsInv(stack, Unfilled)'
    BY <1>2, <1>14, <1>19, Frozen
  <2> QED
    BY <1>1, <2>1 DEF StackInv
<1>21. OutInv'
  <2>1. OwedByAll(stack, Unfilled)' = FrequentSets
    BY <1>2, <1>15, <1>17, <1>19, Frozen
  <2>2. Written(OwedByAll(stack, Unfilled))' = Written(FrequentSets)
    BY <1>2, <2>1, Frozen
  <2> QED
    BY <1>1, <1>18, <2>2 DEF OutInv
<1>22. stack' \in Seq(Frame)
  BY <1>1, <1>10
<1>23. DOMAIN pattern_counts' \subseteq (0 .. NumItems) \cup {1}
  BY DEF GrowthInv, IInv
<1> QED
  BY <1>1, <1>3, <1>7, <1>20, <1>21, <1>22, <1>23 DEF GrowthInv, IInv

\* A step of the growing: what is left to be shown of it.
LEMMA GrowStep ==
  ASSUME GrowthInv, pc # "scan", UNCHANGED <<inputs, tid, tree>>,
         NEW e \in Seq(Frame), stack' = e,
         NEW u \in {0, 1}, pc' = IF u = 1 THEN "condition" ELSE "grow",
         CallsInv(e, u), out' = Written(OwedByAll(e, u)),
         DOMAIN pattern_counts' \subseteq (0 .. NumItems) \cup {1}
  PROVE  GrowthInv' /\ Unfilled' = u /\ Owing' = OwedByAll(e, u)
<1>1. InputInv /\ MainTreeInv /\ UNCHANGED <<inputs, tree>>
  BY DEF GrowthInv, IInv
<1>2. InputInv'
  BY <1>1, Frozen
<1>3. MainTreeInv'
  <2>1. VectorsBy(count)' = VectorsBy(count)
    BY <1>1 DEF inputs, VectorsBy, Large
  <2>2. tree' = tree /\ tid' = tid /\ tid = NumTxn /\ tid \in 0 .. NumTxn
    BY <1>1 DEF MainTreeInv
  <2> QED
    BY <1>1, <2>1, <2>2 DEF MainTreeInv
<1>4. Unfilled' = u /\ pc' \in {"grow", "condition"}
  BY DEF Unfilled
<1>5. CallsInv(stack, Unfilled)'
  BY <1>1, <1>4, Frozen
<1>6. StackInv'
  BY <1>4, <1>5 DEF StackInv
<1>7. OutInv'
  <2>1. OwedByAll(stack, Unfilled)' = OwedByAll(e, u)
    BY <1>1, <1>4, Frozen
  <2>2. Written(OwedByAll(stack, Unfilled))' = Written(OwedByAll(e, u))
    BY <1>1, <2>1, Frozen
  <2> QED
    BY <1>4, <2>2 DEF OutInv
<1>8. Owing' = OwedByAll(e, u)
  BY <1>1, <1>4, Frozen DEF Owing
<1>9. GrowthInv'
  BY <1>2, <1>3, <1>4, <1>6, <1>7 DEF GrowthInv, IInv
<1> QED
  BY <1>4, <1>8, <1>9

\* The innermost call and those that wait for it.
LEMMA InnerCall ==
  ASSUME GrowthInv, pc = "grow", stack # << >>,
         NEW call, call = Head(stack), NEW r, r = Tail(stack)
  PROVE  /\ call \in Frame /\ r \in Seq(Frame) /\ stack = <<call>> \o r
         /\ CallsInv(<<call>> \o r, 0) /\ CallsInv(r, 0)
         /\ CountsInv(call) /\ TreeInv(call) /\ Inside(call, r)
         /\ InputInv /\ out = Written(OwedByAll(<<call>> \o r, 0))
         /\ DOMAIN pattern_counts \subseteq (0 .. NumItems) \cup {1}
         /\ Owing = OwedByAll(<<call>> \o r, 0)
<1>1. /\ stack \in Seq(Frame) /\ InputInv /\ StackInv /\ OutInv
      /\ DOMAIN pattern_counts \subseteq (0 .. NumItems) \cup {1}
  BY DEF GrowthInv, IInv
<1>2. call \in Frame /\ r \in Seq(Frame) /\ stack = <<call>> \o r
  BY <1>1, HeadAndTail
<1>3. Unfilled = 0
  BY DEF Unfilled
<1>4. CallsInv(<<call>> \o r, 0) /\ out = Written(OwedByAll(<<call>> \o r, 0))
  BY <1>1, <1>2, <1>3 DEF StackInv, OutInv
<1>5. CallsInv(r, 0) /\ CountsInv(call) /\ TreeInv(call) /\ Inside(call, r)
  <2>1. 0 \in {0, 1} /\ 0 # 1
    OBVIOUS
  <2> QED
    BY <1>2, <1>4, <2>1, CallsCons
<1>6. Owing = OwedByAll(<<call>> \o r, 0)
  BY <1>2, <1>3 DEF Owing
<1> QED
  BY <1>1, <1>2, <1>4, <1>5, <1>6

LEMMA UnionSize ==
  ASSUME NEW A \in SUBSET Item, NEW B \in SUBSET Item, A \cap B = {}
  PROVE  /\ Cardinality(A) \in Nat /\ Cardinality(B) \in Nat
         /\ Cardinality(A \cup B) = Cardinality(A) + Cardinality(B)
<1>1. IsFiniteSet(A) /\ IsFiniteSet(B) /\ Cardinality(A) \in Nat /\ Cardinality(B) \in Nat
  BY FiniteSets
<1>2. Cardinality(A \cup B) = Cardinality(A) + Cardinality(B) - Cardinality(A \cap B)
  BY <1>1, FS_Union
<1>3. Cardinality(A \cap B) = 0
  BY FS_EmptySet
<1>4. Cardinality(A \cup B) = Cardinality(A) + Cardinality(B) - 0
  BY <1>2, <1>3
<1> QED
  BY <1>1, <1>4

\* The patterns a single path gives are not longer than there are items.
LEMMA LengthBound ==
  ASSUME NEW A \in SUBSET Item, NEW B \in SUBSET Item, A \cap B = {}
  PROVE  /\ Cardinality(A) \in Nat /\ Cardinality(B) \in Nat
         /\ Cardinality(A) + Cardinality(B) <= NumItems
<1>1. /\ Cardinality(A) \in Nat /\ Cardinality(B) \in Nat
      /\ Cardinality(A \cup B) = Cardinality(A) + Cardinality(B)
  BY UnionSize
<1>2. Cardinality(A \cup B) <= Cardinality(Item)
  <2>1. A \cup B \in SUBSET Item /\ IsFiniteSet(Item)
    BY FiniteSets
  <2> QED
    BY <2>1, FS_Subset
<1>3. Cardinality(Item) = NumItems
  BY SizesAssumption, FS_Interval DEF Item
<1> QED
  BY <1>1, <1>2, <1>3

LEMMA SinglePathStep ==
  ASSUME GrowthInv, GrowSinglePath
  PROVE  GrowthInv' /\ Owing' \subseteq Owing
<1> DEFINE call == Head(stack)
           r == Tail(stack)
           path == Path(call.tree)
           n == Len(path)
           a == Cardinality(call.alpha)
           D == Owed(call, Large(call.counts))
           owed == OwedByAll(<<call>> \o r, 0)
<1>1. /\ call \in Frame /\ r \in Seq(Frame)
      /\ CallsInv(r, 0) /\ CountsInv(call) /\ TreeInv(call) /\ Inside(call, r)
      /\ InputInv /\ out = Written(owed) /\ Owing = owed
      /\ DOMAIN pattern_counts \subseteq (0 .. NumItems) \cup {1}
  BY InnerCall DEF GrowSinglePath
<1>2. /\ pc # "scan" /\ UNCHANGED <<inputs, tid, tree>> /\ stack' = r /\ pc' = "grow"
      /\ SinglePath(call.tree)
  BY DEF GrowSinglePath
<1>3. /\ out' = out (+) SetToBag({Combination(call, path, c) : c \in AllCombinations(n)})
      /\ DOMAIN pattern_counts' = DOMAIN pattern_counts \cup (a + 1 .. a + n)
  BY DEF GrowSinglePath, AddCounts
<1> HIDE DEF call, r
<1>4. call.left = Large(call.counts)
  BY <1>1, <1>2 DEF TreeInv
<1>5. /\ n = Cardinality(Large(call.counts))
      /\ {Combination(call, path, c) : c \in AllCombinations(n)} =
           {Pattern(Z, Support(db, Z)) : Z \in D}
  BY <1>1, <1>2, SinglePathFinds
<1>6. owed = D \cup OwedByAll(r, 0)
  <2>1. owed = Owed(call, call.left) \cup OwedByAll(r, 0)
    BY ONLY <1>1, OwedPut
  <2> QED
    BY <1>4, <2>1
<1>7. /\ call.alpha \in SUBSET Item /\ Large(call.counts) \in SUBSET Item
      /\ call.alpha \cap Large(call.counts) = {}
  BY <1>1, CallType DEF LargeExact
<1>8. ASSUME NEW Z \in D
      PROVE  /\ Z \in FrequentSets /\ Z \notin OwedByAll(r, 0)
             /\ Cardinality(Z) = 1 => SinglePath(tree)
  <2>1. PICK X \in SUBSET Large(call.counts) : X # {} /\ Z = call.alpha \cup X
    <3>1. D = {Y \in FrequentSets : \E X \in SUBSET Large(call.counts) :
                                       X # {} /\ Y = call.alpha \cup X}
      BY <1>1, OwedAll
    <3> HIDE DEF D
    <3> QED
      BY <3>1
  <2>2. Z \notin OwedByAll(r, 0)
    BY <1>1, <2>1, NotOwedByOthers
  <2>3. ASSUME Cardinality(Z) = 1 PROVE SinglePath(tree)
    <3>1. Z \in SUBSET Item
      BY <1>7, <2>1
    <3>2. IsFiniteSet(Z)
      BY <3>1, FiniteSets
    <3>3. PICK z : Z = {z}
      BY <2>3, <3>2, FS_Singleton
    <3>4. call.alpha = {}
      BY <1>7, <2>1, <3>3
    <3> QED
      BY <1>1, <1>2, <3>4 DEF TreeInv
  <2> QED
    BY <2>2, <2>3 DEF Owed
<1>9. Written(owed) (+) SetToBag({Pattern(Z, Support(db, Z)) : Z \in D}) = Written(owed \ D)
  <2>1. D \in SUBSET FrequentSets /\ D \subseteq owed
    BY <1>6 DEF Owed
  <2>2. \A X \in D : Cardinality(X) = 1 => SinglePath(tree)
    BY <1>8
  <2> HIDE DEF D, owed
  <2> QED
    BY <2>1, <2>2, WriteMore
<1>10. owed \ D = OwedByAll(r, 0)
  <2>1. \A Z \in D : Z \notin OwedByAll(r, 0)
    BY <1>8
  <2> HIDE DEF D, owed
  <2> QED
    BY <1>6, <2>1
<1>11. out' = Written(OwedByAll(r, 0))
  BY <1>1, <1>3, <1>5, <1>9, <1>10
<1>12. DOMAIN pattern_counts' \subseteq (0 .. NumItems) \cup {1}
  <2>1. a \in Nat /\ n \in Nat /\ a + n <= NumItems
    BY <1>5, <1>7, LengthBound
  <2> HIDE DEF a, n
  <2>2. a + 1 .. a + n \subseteq 0 .. NumItems
    BY <2>1, SizesAssumption
  <2> QED
    BY <1>1, <1>3, <2>2
<1>13. 0 \in {0, 1} /\ pc' = (IF 0 = 1 THEN "condition" ELSE "grow")
  BY <1>2
<1>14. GrowthInv' /\ Owing' = OwedByAll(r, 0)
  BY <1>1, <1>2, <1>11, <1>12, <1>13, GrowStep
<1> HIDE DEF owed, D
<1> QED
  BY <1>1, <1>10, <1>14

\* The calls a round of the loop makes of the innermost one are frames.
LEMMA NewFrames ==
  ASSUME InputInv, NEW call \in Frame, CountsInv(call), TreeInv(call), NEW symbol \in call.left,
         NEW k, k = Call(EmptyTree, PrefixCounts(call.tree, symbol),
                         call.alpha \cup {symbol}, call.counts[symbol]),
         NEW b, b = [call EXCEPT !.left = @ \ {symbol}]
  PROVE  k \in Frame /\ b \in Frame /\ Opens(call, symbol, k, b)
<1>1. call = [tree |-> call.tree, counts |-> call.counts, alpha |-> call.alpha,
              count |-> call.count, left |-> call.left]
      /\ call.tree \in Tree /\ call.counts \in [Item -> 0 .. NumTxn] /\ call.alpha \in SUBSET Item
      /\ call.count \in 0 .. NumTxn /\ call.left \in SUBSET Item
  BY DEF Frame
<1>2. b = [tree |-> call.tree, counts |-> call.counts, alpha |-> call.alpha,
           count |-> call.count, left |-> call.left \ {symbol}]
  BY <1>1
<1>3. EmptyTree \in Tree /\ Symbols(EmptyTree) = {}
  <2>1. call.counts \in [Item -> Nat] /\ {} \in SUBSET Tid
    BY <1>1
  <2>2. Paths(VectorsBy(call.counts))
    BY <2>1, VectorsType
  <2>3. Grown({}, VectorsBy(call.counts)) = EmptyTree
    BY <2>1, <2>2, GrownEmpty
  <2>4. Grown({}, VectorsBy(call.counts)) \in Tree
    BY <2>1, <2>2, GrownTree
  <2>5. DOMAIN EmptyTree = {}
    BY DEF EmptyTree
  <2> QED
    BY <2>3, <2>4, <2>5 DEF Symbols
<1>4. PrefixCounts(call.tree, symbol) \in [Item -> 0 .. NumTxn]
  <2>1. call.counts \in [Item -> Nat] /\ symbol \in Large(call.counts)
        /\ call.tree = Grown(Tidset(db, call.alpha), VectorsBy(call.counts))
    BY <1>1 DEF TreeInv
  <2> QED
    BY <1>1, <2>1, CountSymbols
<1>5. k = [tree |-> EmptyTree, counts |-> PrefixCounts(call.tree, symbol),
           alpha |-> call.alpha \cup {symbol}, count |-> call.counts[symbol], left |-> {}]
  BY <1>3 DEF Call
<1>6. symbol \in Item /\ call.counts[symbol] \in 0 .. NumTxn
  BY <1>1
<1>7. b \in Frame /\ b.tree = call.tree /\ b.counts = call.counts /\ b.alpha = call.alpha
      /\ b.count = call.count /\ b.left = call.left \ {symbol}
  BY <1>1, <1>2 DEF Frame
<1>8. k.tree = EmptyTree /\ k.counts = PrefixCounts(call.tree, symbol)
      /\ k.alpha = call.alpha \cup {symbol} /\ k.count = call.counts[symbol] /\ k.left = {}
  BY <1>5
<1>9. k \in Frame
  <2> DEFINE p == PrefixCounts(call.tree, symbol)
             beta == call.alpha \cup {symbol}
             n == call.counts[symbol]
  <2>1. p \in [Item -> 0 .. NumTxn] /\ beta \in SUBSET Item /\ n \in 0 .. NumTxn
    BY <1>1, <1>4, <1>6
  <2>2. k = [tree |-> EmptyTree, counts |-> p, alpha |-> beta, count |-> n, left |-> {}]
    BY <1>5
  <2> HIDE DEF p, beta, n
  <2> QED
    BY ONLY <1>3, <2>1, <2>2 DEF Frame
<1> QED
  BY <1>7, <1>8, <1>9 DEF Opens

LEMMA SymbolStep ==
  ASSUME GrowthInv, GrowSymbol
  PROVE  GrowthInv' /\ Owing' \subseteq Owing /\ Owing' # Owing
<1> DEFINE call == Head(stack)
           r == Tail(stack)
           symbol == Min(call.left)
           beta == call.alpha \cup {symbol}
           n == call.counts[symbol]
           k == Call(EmptyTree, PrefixCounts(call.tree, symbol), beta, n)
           b == [call EXCEPT !.left = @ \ {symbol}]
           e == <<k>> \o (<<b>> \o r)
           before == OwedByAll(<<call>> \o r, 0)
           after == OwedByAll(e, 1)
<1>1. /\ call \in Frame /\ r \in Seq(Frame) /\ CallsInv(<<call>> \o r, 0)
      /\ CallsInv(r, 0) /\ CountsInv(call) /\ TreeInv(call) /\ Inside(call, r)
      /\ InputInv /\ out = Written(before) /\ Owing = before
      /\ DOMAIN pattern_counts \subseteq (0 .. NumItems) \cup {1}
  BY InnerCall DEF GrowSymbol
<1>2. /\ pc # "scan" /\ UNCHANGED <<inputs, tid, tree>> /\ pc' = "condition"
      /\ ~ SinglePath(call.tree) /\ call.left # {}
      /\ stack' = <<k>> \o <<b>> \o r
  BY DEF GrowSymbol
<1>3. IF Cardinality(beta) > 1 /\ n >= epsilon
      THEN /\ out' = out (+) SetToBag({Pattern(beta, n)})
           /\ DOMAIN pattern_counts' = DOMAIN pattern_counts \cup {Cardinality(beta)}
      ELSE UNCHANGED <<out, pattern_counts>>
  BY DEF GrowSymbol, AddCounts
<1>4. symbol \in call.left
  <2>1. call.left \in SUBSET Nat /\ call.left \in SUBSET Int
    <3>1. call.left \in SUBSET Item
      BY <1>1 DEF Frame
    <3> QED
      BY <3>1, SizesAssumption DEF Item
  <2>2. PICK x \in call.left : \A y \in call.left : x <= y
    BY <1>2, <2>1, LeastNatural
  <2>3. symbol = x
    BY <2>1, <2>2, MinIs
  <2> QED
    BY <2>2, <2>3
<1> HIDE DEF call, r, symbol
<1>5. k \in Frame /\ b \in Frame /\ Opens(call, symbol, k, b)
  <2>1. k = Call(EmptyTree, PrefixCounts(call.tree, symbol),
                 call.alpha \cup {symbol}, call.counts[symbol])
        /\ b = [call EXCEPT !.left = @ \ {symbol}]
    OBVIOUS
  <2> HIDE DEF k, b
  <2> QED
    BY ONLY <1>1, <1>4, <2>1, NewFrames
<1> HIDE DEF k, b
<1>6. <<b>> \o r \in Seq(Frame) /\ e \in Seq(Frame) /\ stack' = e
  <2>1. <<b>> \o r \in Seq(Frame)
    BY <1>1, <1>5, PutFirst
  <2>2. <<k>> \o <<b>> \o r = <<k>> \o (<<b>> \o r)
    BY ONLY <1>1, <1>5, ConsTwo
  <2> DEFINE s == <<b>> \o r
  <2> HIDE DEF s
  <2>3. s \in Seq(Frame)
    BY <2>1 DEF s
  <2>4. <<k>> \o s \in Seq(Frame)
    BY <1>5, <2>3, PutFirst
  <2> QED
    BY <1>2, <2>1, <2>2, <2>4 DEF s
<1>7. /\ CallsInv(e, 1)
      /\ before = after \cup {k.alpha}
      /\ k.alpha \notin after
      /\ k.alpha \in FrequentSets /\ Support(db, k.alpha) = call.counts[symbol]
      /\ call.counts[symbol] >= epsilon
  BY ONLY <1>1, <1>2, <1>4, <1>5, NewCall
<1>12. k.alpha = beta
  BY <1>5 DEF Opens
<1> HIDE DEF e, before, after
<1>8. IsFiniteSet(beta) /\ Cardinality(beta) \in 0 .. NumItems /\ beta # {} /\ Cardinality(beta) # 0
  <2>1. beta \in SUBSET Item
    <3>1. call.alpha \in SUBSET Item /\ call.left \in SUBSET Item
      BY <1>1 DEF Frame
    <3> QED
      BY <1>4, <3>1
  <2>2. IsFiniteSet(beta) /\ Cardinality(beta) \in Nat
    BY <2>1, FiniteSets
  <2>3. beta # {}
    OBVIOUS
  <2> HIDE DEF beta
  <2>4. Cardinality(beta) # 0
    BY <2>2, <2>3, FS_EmptySet
  <2>5. Cardinality(beta) + Cardinality({}) <= NumItems /\ Cardinality({}) = 0
    <3>1. {} \in SUBSET Item /\ beta \cap {} = {}
      OBVIOUS
    <3>2. Cardinality(beta) + Cardinality({}) <= NumItems
      BY <2>1, <3>1, LengthBound
    <3> QED
      BY <3>2, FS_EmptySet
  <2> QED
    BY <2>2, <2>3, <2>4, <2>5, SizesAssumption
<1>9. out' = Written(after) /\ DOMAIN pattern_counts' \subseteq (0 .. NumItems) \cup {1}
  <2>1. CASE Cardinality(beta) > 1
    <3>1. /\ out' = out (+) SetToBag({Pattern(beta, n)})
          /\ DOMAIN pattern_counts' = DOMAIN pattern_counts \cup {Cardinality(beta)}
      BY <1>3, <1>7, <2>1
    <3> DEFINE D == {beta}
    <3>2. {Pattern(X, Support(db, X)) : X \in D} = {Pattern(beta, n)}
      BY <1>7, <1>12
    <3>3. D \in SUBSET FrequentSets /\ D \subseteq before /\ before \ D = after
          /\ \A X \in D : Cardinality(X) = 1 => SinglePath(tree)
      <4>1. beta \in FrequentSets /\ before = after \cup {beta} /\ beta \notin after
        BY <1>7, <1>12
      <4>2. Cardinality(beta) # 1
        BY <1>8, <2>1
      <4> HIDE DEF beta
      <4> QED
        BY <4>1, <4>2
    <3> HIDE DEF D, beta, n
    <3>4. Written(before) (+) SetToBag({Pattern(X, Support(db, X)) : X \in D})
            = Written(before \ D)
      BY <3>3, WriteMore
    <3>5. out' = Written(after)
      BY <1>1, <3>1, <3>2, <3>3, <3>4
    <3> QED
      BY <1>1, <1>8, <3>1, <3>5
  <2>2. CASE ~ Cardinality(beta) > 1
    <3>1. UNCHANGED <<out, pattern_counts>>
      BY <1>3, <2>2
    <3>2. Cardinality(beta) = 1
      BY <1>8, <2>2
    <3>3. call.alpha = {}
      <4>1. PICK z : beta = {z}
        BY <1>8, <3>2, FS_Singleton
      <4>2. symbol \notin call.alpha
        BY <1>1, <1>4 DEF TreeInv, CountsInv
      <4> QED
        BY <4>1, <4>2
    <3>4. ~ SinglePath(tree)
      BY <1>1, <1>2, <3>3 DEF TreeInv
    <3>5. \A X \in FrequentSets : Cardinality(X) # 1 \/ SinglePath(tree) =>
            (X \in before <=> X \in after)
      <4>1. before = after \cup {beta}
        BY <1>7, <1>12
      <4> HIDE DEF beta
      <4> QED
        BY <3>2, <3>4, <4>1
    <3>6. Written(before) = Written(after)
      BY <3>5, WriteSame
    <3> QED
      BY <1>1, <3>1, <3>6
  <2> QED
    BY <2>1, <2>2
<1>10. 1 \in {0, 1} /\ pc' = (IF 1 = 1 THEN "condition" ELSE "grow")
  BY <1>2
<1>11. GrowthInv' /\ Owing' = after
  BY <1>2, <1>6, <1>7, <1>9, <1>10, GrowStep DEF after
<1> QED
  BY <1>1, <1>7, <1>11

LEMMA ConditionalStep ==
  ASSUME GrowthInv, GrowConditional
  PROVE  GrowthInv' /\ Owing' = Owing
<1> DEFINE a == Head(stack)
           r == Tail(stack)
           cond == TreeFor(a, r[1])
           k == Call(cond, a.counts, a.alpha, a.count)
           S == Frame \cup {k}
           u == 1
<1>1. /\ stack \in Seq(Frame) /\ InputInv /\ CallsInv(stack, 1)
      /\ out = Written(OwedByAll(stack, 1))
      /\ DOMAIN pattern_counts \subseteq (0 .. NumItems) \cup {1}
      /\ pc = "condition" /\ pc' = "grow" /\ UNCHANGED <<inputs, tid, tree, out, pattern_counts>>
  BY DEF GrowthInv, IInv, StackInv, OutInv, Unfilled, GrowConditional
<1>2. Len(stack) >= 2 /\ stack # << >>
  BY <1>1 DEF CallsInv
<1>3. a \in Frame /\ r \in Seq(Frame) /\ stack = <<a>> \o r /\ stack[1] = a
  BY <1>1, <1>2, HeadAndTail
<1>4. stack[2] = r[1]
  <2>1. Len(stack) = Len(r) + 1 /\ Len(r) \in Nat /\ \A n \in 1 .. Len(r) : stack[n + 1] = r[n]
    BY <1>3, PutFirst
  <2>2. 1 \in 1 .. Len(r) /\ 1 + 1 = 2
    BY <1>2, <2>1
  <2> QED
    BY <2>1, <2>2
<1>5. stack' = IF cond = EmptyTree THEN r ELSE <<k>> \o r
  BY <1>3, <1>4 DEF GrowConditional, TreeFor
<1>6. Fills(k, a, cond)
  BY DEF Fills, Call
<1>7. a \in S /\ k \in S /\ r \in Seq(S)
  <2>1. a \in S /\ k \in S /\ Frame \subseteq S
    BY <1>3
  <2> HIDE DEF S, r
  <2>2. Len(r) \in Nat /\ r \in [1 .. Len(r) -> Frame]
    BY <1>3
  <2>3. r \in [1 .. Len(r) -> S]
    BY <2>1, <2>2
  <2>4. r \in Seq(S)
    BY <2>2, <2>3, SeqDef
  <2> QED
    BY <2>1, <2>4
<1> HIDE DEF k, S
<1>8. cond = TreeFor(a, r[1])
  OBVIOUS
<1> HIDE DEF cond, a, r
<1>9. /\ CallsInv(<<a>> \o r, 1) /\ out = Written(OwedByAll(<<a>> \o r, 1))
      /\ Owing = OwedByAll(<<a>> \o r, 1)
  BY <1>1, <1>3 DEF Owing, Unfilled
<1>10. /\ CallsInv(<<k>> \o r, 0)
       /\ OwedByAll(<<k>> \o r, 0) = OwedByAll(<<a>> \o r, 1)
       /\ cond = EmptyTree => /\ CallsInv(r, 0)
                              /\ OwedByAll(r, 0) = OwedByAll(<<a>> \o r, 1)
       /\ cond \in Tree /\ Symbols(cond) \in SUBSET Item
  BY ONLY <1>1, <1>6, <1>7, <1>8, <1>9, FilledCall
<1>11. k \in Frame
  <2>1. k = [tree |-> cond, counts |-> a.counts, alpha |-> a.alpha, count |-> a.count,
             left |-> Symbols(cond)]
    BY DEF k, Call
  <2>2. a.counts \in [Item -> 0 .. NumTxn] /\ a.alpha \in SUBSET Item /\ a.count \in 0 .. NumTxn
    BY <1>3 DEF Frame
  <2> QED
    BY <1>10, <2>1, <2>2 DEF Frame
<1>12. /\ pc # "scan" /\ UNCHANGED <<inputs, tid, tree>>
       /\ 0 \in {0, 1} /\ pc' = (IF 0 = 1 THEN "condition" ELSE "grow")
       /\ DOMAIN pattern_counts' \subseteq (0 .. NumItems) \cup {1}
  BY <1>1
<1>13. CASE cond = EmptyTree
  <2>1. stack' = r /\ CallsInv(r, 0) /\ out' = Written(OwedByAll(r, 0))
    BY <1>1, <1>5, <1>9, <1>10, <1>13
  <2>2. GrowthInv' /\ Owing' = OwedByAll(r, 0)
    BY <1>3, <1>12, <2>1, GrowStep
  <2> QED
    BY <1>9, <1>10, <1>13, <2>2
<1>14. CASE cond # EmptyTree
  <2> DEFINE e == <<k>> \o r
  <2>1. stack' = e /\ CallsInv(e, 0) /\ out' = Written(OwedByAll(e, 0))
    BY <1>1, <1>5, <1>9, <1>10, <1>14
  <2>2. e \in Seq(Frame)
    BY <1>3, <1>11, PutFirst
  <2>3. OwedByAll(e, 0) = Owing
    BY <1>9, <1>10
  <2> HIDE DEF e
  <2>4. GrowthInv' /\ Owing' = OwedByAll(e, 0)
    BY <1>12, <2>1, <2>2, GrowStep
  <2> QED
    BY <2>3, <2>4
<1> QED
  BY <1>13, <1>14

LEMMA ReturnStep ==
  ASSUME GrowthInv, ReturnFromGrowth
  PROVE  GrowthInv' /\ Owing' = Owing
<1> DEFINE call == Head(stack)
           r == Tail(stack)
<1>1. /\ call \in Frame /\ r \in Seq(Frame) /\ CallsInv(r, 0)
      /\ out = Written(OwedByAll(<<call>> \o r, 0)) /\ Owing = OwedByAll(<<call>> \o r, 0)
      /\ DOMAIN pattern_counts \subseteq (0 .. NumItems) \cup {1}
  BY InnerCall DEF ReturnFromGrowth
<1>2. /\ pc = "grow" /\ pc' = "grow" /\ UNCHANGED <<inputs, tid, tree, out, pattern_counts>>
      /\ call.left = {} /\ stack' = r
  BY DEF ReturnFromGrowth
<1> HIDE DEF call, r
<1>3. OwedByAll(<<call>> \o r, 0) = Owed(call, call.left) \cup OwedByAll(r, 0)
  BY ONLY <1>1, OwedPut
<1>4. Owed(call, call.left) = {}
  BY <1>2 DEF Owed
<1>5. out' = Written(OwedByAll(r, 0))
  BY <1>1, <1>2, <1>3, <1>4
<1>6. /\ pc # "scan" /\ UNCHANGED <<inputs, tid, tree>>
      /\ 0 \in {0, 1} /\ pc' = (IF 0 = 1 THEN "condition" ELSE "grow")
      /\ DOMAIN pattern_counts' \subseteq (0 .. NumItems) \cup {1}
  BY <1>1, <1>2
<1>7. GrowthInv' /\ Owing' = OwedByAll(r, 0)
  BY <1>1, <1>2, <1>5, <1>6, GrowStep
<1> QED
  BY <1>1, <1>3, <1>4, <1>7

LEMMA PrintStep ==
  ASSUME GrowthInv, PrintCounts
  PROVE  GrowthInv'
<1>1. /\ InputInv /\ MainTreeInv /\ StackInv /\ OutInv /\ stack \in Seq(Frame)
      /\ DOMAIN pattern_counts \subseteq (0 .. NumItems) \cup {1}
      /\ pc = "grow" /\ pc' = "done" /\ stack = << >>
      /\ UNCHANGED <<inputs, tid, tree, stack, out>> /\ UNCHANGED <<inputs, tree>>
  BY DEF GrowthInv, IInv, PrintCounts
<1>2. InputInv'
  BY <1>1, Frozen
<1>3. MainTreeInv'
  <2>1. VectorsBy(count)' = VectorsBy(count)
    BY <1>1 DEF inputs, VectorsBy, Large
  <2> QED
    BY <1>1, <2>1 DEF MainTreeInv
<1>4. Unfilled = 0 /\ Unfilled' = 0
  BY <1>1 DEF Unfilled
<1>5. StackInv'
  <2>1. CallsInv(stack, Unfilled)'
    BY <1>1, <1>4, Frozen, NoCalls
  <2> QED
    BY <1>1, <2>1 DEF StackInv
<1>6. OutInv'
  <2>1. out = Written(OwedByAll(stack, 0))
    BY <1>1, <1>4 DEF OutInv
  <2>2. OwedByAll(stack, Unfilled)' = OwedByAll(stack, 0)
    BY <1>1, <1>4, Frozen
  <2>3. Written(OwedByAll(stack, Unfilled))' = Written(OwedByAll(stack, 0))
    BY <1>1, <2>2, Frozen
  <2> QED
    BY <1>1, <2>1, <2>3 DEF OutInv
<1>7. DOMAIN pattern_counts' \subseteq (0 .. NumItems) \cup {1}
  <2>1. DOMAIN pattern_counts' = DOMAIN pattern_counts \cup {0, 1}
    BY DEF PrintCounts
  <2> QED
    BY <1>1, <2>1, SizesAssumption
<1> QED
  BY <1>1, <1>2, <1>3, <1>5, <1>6, <1>7 DEF GrowthInv, IInv

\* However the paths are cut and merged, what the calls owe and what is
\* written make up all frequent itemsets.
THEOREM Invariance == Spec => []GrowthInv
<1>1. ASSUME GrowthInv, [Next]_vars PROVE GrowthInv'
  <2>1. CASE InsertTransaction
    BY <1>1, <2>1, ScanStep
  <2>2. CASE OutputItems
    BY <1>1, <2>2, OutputStep
  <2>3. CASE GrowSinglePath
    BY <1>1, <2>3, SinglePathStep
  <2>4. CASE GrowSymbol
    BY <1>1, <2>4, SymbolStep
  <2>5. CASE GrowConditional
    BY <1>1, <2>5, ConditionalStep
  <2>6. CASE ReturnFromGrowth
    BY <1>1, <2>6, ReturnStep
  <2>7. CASE PrintCounts
    BY <1>1, <2>7, PrintStep
  <2>8. CASE UNCHANGED vars
    <3>1. UNCHANGED <<inputs, tree>> /\ UNCHANGED <<tid, stack, out, pattern_counts, pc>>
      BY <2>8 DEF vars
    <3>2. InputInv'
      BY <1>1, <3>1, Frozen DEF GrowthInv, IInv
    <3>3. MainTreeInv'
      <4>1. VectorsBy(count)' = VectorsBy(count)
        BY <3>1 DEF inputs, VectorsBy, Large
      <4> QED
        BY <1>1, <3>1, <4>1 DEF MainTreeInv, GrowthInv, IInv
    <3>4. Unfilled' = Unfilled
      BY <3>1 DEF Unfilled
    <3>5. StackInv'
      <4>1. CallsInv(stack, Unfilled)'
        BY <1>1, <3>1, <3>4, Frozen DEF GrowthInv, IInv, StackInv
      <4> QED
        BY <1>1, <3>1, <4>1 DEF StackInv, GrowthInv, IInv
    <3>6. OutInv'
      <4>1. OwedByAll(stack, Unfilled)' = OwedByAll(stack, Unfilled)
        BY <3>1, <3>4, Frozen
      <4>2. Written(OwedByAll(stack, Unfilled))' = Written(OwedByAll(stack, Unfilled))
        BY <3>1, <4>1, Frozen
      <4> QED
        BY <1>1, <3>1, <4>2 DEF OutInv, GrowthInv, IInv
    <3> QED
      BY <1>1, <3>1, <3>2, <3>3, <3>5, <3>6 DEF GrowthInv, IInv
  <2> QED
    BY <1>1, <2>1, <2>2, <2>3, <2>4, <2>5, <2>6, <2>7, <2>8 DEF Next
<1> QED
  BY <1>1, InitInvariant, PTL DEF Spec

\* The state is of its type: trees hold items of a path once, and no line is
\* written for an itemset that is not in the database.
THEOREM TypeCorrect == Spec => []TypeOK
<1>1. GrowthInv => TypeOK
  <2> SUFFICES ASSUME GrowthInv PROVE TypeOK
    OBVIOUS
  <2>1. /\ InputInv /\ MainTreeInv /\ StackInv /\ OutInv
        /\ DOMAIN pattern_counts \subseteq (0 .. NumItems) \cup {1}
        /\ pc \in {"scan", "grow", "condition", "done"}
    BY DEF GrowthInv, IInv
  <2>2. db \in Databases /\ epsilon \in Supports /\ tid \in 0 .. NumTxn
    BY <2>1 DEF InputInv, MainTreeInv
  <2>3. \A p \in DOMAIN tree : p \in Seq(Item) /\ IsInjective(p) /\ tree[p] \in 1 .. NumTxn
    <3>1. 0 .. tid - 1 \in SUBSET Tid
      BY <2>2, SizesAssumption DEF Tid
    <3>2. Paths(VectorsBy(count))
      BY <2>1, InputType, VectorsType
    <3>3. tree = Grown(0 .. tid - 1, VectorsBy(count))
      BY <2>1 DEF MainTreeInv
    <3> DEFINE T == 0 .. tid - 1
    <3> HIDE DEF T
    <3>4. T \in SUBSET Tid /\ tree = Grown(T, VectorsBy(count))
      BY <3>1, <3>3 DEF T
    <3> QED
      BY <3>2, <3>4, GrownType
  <2>4. ASSUME NEW n \in 1 .. Len(stack)
        PROVE  /\ stack[n].alpha \subseteq Item
               /\ stack[n].left \subseteq Symbols(stack[n].tree)
               /\ stack[n].counts \in [Item -> 0 .. NumTxn]
    <3> DEFINE call == stack[n]
    <3>1. /\ CountsInv(call)
          /\ n = Unfilled => UnfilledInv(call)
          /\ n # Unfilled => TreeInv(call)
      BY <2>1 DEF StackInv, CallsInv
    <3> HIDE DEF call
    <3>2. /\ call.alpha \in SUBSET Item /\ call.counts \in [Item -> 0 .. NumTxn]
          /\ call.counts \in [Item -> Nat] /\ LargeExact(call.counts, call.alpha)
      BY <2>1, <3>1, CallType
    <3>3. CASE n = Unfilled
      BY <3>1, <3>2, <3>3 DEF UnfilledInv, call
    <3>4. CASE n # Unfilled
      <4>1. Symbols(call.tree) = Large(call.counts)
        BY <2>1, <3>1, <3>2, <3>4, GrownSymbols DEF TreeInv
      <4> QED
        BY <3>1, <3>2, <3>4, <4>1 DEF TreeInv, call
    <3> QED
      BY <3>3, <3>4
  <2>5. ASSUME NEW X \in FrequentSets
        PROVE  Pattern(X, Support(db, X)) \in [items : Itemset, count : 1 .. NumTxn]
    <3>1. X \in Itemset /\ Support(db, X) >= epsilon
      BY DEF FrequentSets, Frequent
    <3>2. epsilon \in Nat \ {0} /\ Support(db, X) \in 0 .. NumTxn
      BY <2>1, InputType
    <3>3. Support(db, X) \in 1 .. NumTxn
      BY <3>1, <3>2, SizesAssumption
    <3> QED
      BY <3>1, <3>3 DEF Pattern
  <2>6. ASSUME NEW owed
        PROVE  /\ IsABag(Written(owed))
               /\ DOMAIN Written(owed) \subseteq [items : Itemset, count : 1 .. NumTxn]
    BY <2>5 DEF Written, IsABag
  <2>7. IsABag(EmptyBag) /\ DOMAIN EmptyBag = {}
    BY DEF IsABag, EmptyBag, SetToBag
  <2>8. IsABag(out) /\ DOMAIN out \subseteq [items : Itemset, count : 1 .. NumTxn]
    BY <2>1, <2>6, <2>7 DEF OutInv
  <2> QED
    BY <2>1, <2>2, <2>3, <2>4, <2>8 DEF TypeOK
<1> QED
  BY <1>1, Invariance, PTL

\* The conditional tree of each call gives the supports in the database.
THEOREM TreesCorrect == Spec => []TreesExact
<1>1. GrowthInv => TreesExact
  <2> SUFFICES ASSUME GrowthInv, pc = "grow", stack # << >> PROVE TreesExact
    BY DEF TreesExact
  <2> DEFINE call == Head(stack)
  <2>1. InputInv /\ CountsInv(call) /\ TreeInv(call)
    BY InnerCall
  <2> HIDE DEF call
  <2>2. /\ call.alpha \in SUBSET Item /\ call.counts \in [Item -> Nat]
        /\ LargeExact(call.counts, call.alpha)
    BY <2>1, CallType
  <2>3. call.tree = Grown(Tidset(db, call.alpha), VectorsBy(call.counts))
    BY <2>1 DEF TreeInv
  <2>4. Symbols(call.tree) = Large(call.counts)
    BY <2>1, <2>2, <2>3, GrownSymbols
  <2>5. ASSUME NEW X \in (SUBSET Symbols(call.tree)) \ {{}}
        PROVE  SupportIn(call.tree, X) = Support(db, call.alpha \cup X)
    <3>1. X \in SUBSET Large(call.counts) /\ X # {}
      BY <2>4
    <3> QED
      BY <2>1, <2>2, <2>3, <3>1, GrownSupport
  <2>6. \A i \in Symbols(call.tree) : call.counts[i] = Support(db, call.alpha \cup {i})
    BY <2>2, <2>4 DEF LargeExact
  <2> QED
    BY <2>5, <2>6 DEF TreesExact, call
<1> QED
  BY <1>1, Invariance, PTL

\* At the end nothing is owed: the lines are the frequent itemsets.
THEOREM FindsExactly == Spec => []FoundExact
<1>1. GrowthInv => FoundExact
  <2> SUFFICES ASSUME GrowthInv, pc = "done" PROVE FoundExact
    BY DEF FoundExact
  <2>1. stack = << >> /\ Unfilled = 0 /\ out = Written(OwedByAll(stack, Unfilled))
    BY DEF GrowthInv, IInv, StackInv, OutInv, Unfilled
  <2>2. out = Written({})
    BY <2>1, NoCalls
  <2>3. {X \in FrequentSets : Cardinality(X) = 1 \/ X \notin {}} = FrequentSets
    OBVIOUS
  <2>4. Written({}) = [l \in {Pattern(X, Support(db, X)) : X \in FrequentSets} |->
                         IF Cardinality(l.items) = 1 /\ SinglePath(tree) THEN 2 ELSE 1]
    BY <2>3 DEF Written
  <2> QED
    BY <2>2, <2>4 DEF FoundExact, FrequentSets
<1> QED
  BY <1>1, Invariance, PTL

-----------------------------------------------------------------------------
(* Factorials and choices, as long as they fit an int.                     *)

Follow(f, v, G) == f[0] = v /\ \A i \in Nat \ {0} : f[i] = G[<<i, f[i - 1]>>]

\* What a recursion along the naturals defines exists.
LEMMA NatRecursionExists ==
  ASSUME NEW V, NEW v \in V, NEW G \in [Nat \X V -> V]
  PROVE  \E f \in [Nat -> V] : Follow(f, v, G)
<1> DEFINE Up(m, f) == f \in [0 .. m -> V] /\ Follows(f, m, v, G)
           Nth == [m \in Nat |-> CHOOSE f : Up(m, f)]
           g == [m \in Nat |-> Nth[m][m]]
<1>1. ASSUME NEW m \in Nat PROVE \E f : Up(m, f)
  <2> DEFINE H == [p \in (0 .. m) \X V |-> G[p]]
  <2>1. H \in [(0 .. m) \X V -> V]
    OBVIOUS
  <2>2. \A i \in 0 .. m, w \in V : H[<<i, w>>] = G[<<i, w>>]
    OBVIOUS
  <2> HIDE DEF H
  <2>3. PICK f \in [0 .. m -> V] : Follows(f, m, v, H)
    BY <2>1, RecursionExists
  <2>4. ASSUME NEW i \in 1 .. m PROVE f[i] = G[<<i, f[i - 1]>>]
    <3>1. f[i] = H[<<i, f[i - 1]>>]
      BY <2>3 DEF Follows
    <3>2. i \in 0 .. m /\ f[i - 1] \in V
      OBVIOUS
    <3> QED
      BY <2>2, <3>1, <3>2
  <2>5. f[0] = v
    BY <2>3 DEF Follows
  <2>6. Follows(f, m, v, G)
    BY <2>4, <2>5 DEF Follows
  <2> QED
    BY <2>6
<1>2. \A m \in Nat : Nth[m] \in [0 .. m -> V] /\ Follows(Nth[m], m, v, G)
  <2> TAKE m \in Nat
  <2>1. \E f : Up(m, f)
    BY <1>1
  <2>2. Nth[m] = CHOOSE f : Up(m, f)
    OBVIOUS
  <2> HIDE DEF Nth
  <2>3. Up(m, Nth[m])
    <3> HIDE DEF Up
    <3> QED
      BY <2>1, <2>2
  <2> QED
    BY <2>3
<1>3. \A m \in Nat : g[m] = Nth[m][m]
  OBVIOUS
<1> HIDE DEF Nth, g
<1>4. ASSUME NEW m \in Nat PROVE \A i \in 0 .. m : Nth[m + 1][i] = Nth[m][i]
  <2> DEFINE T == {i \in 0 .. m : Nth[m + 1][i] = Nth[m][i]}
  <2>1. m + 1 \in Nat
    OBVIOUS
  <2>2. 0 \in T
    <3>1. Nth[m][0] = v
      BY <1>2 DEF Follows
    <3>2. Nth[m + 1][0] = v
      BY <1>2, <2>1 DEF Follows
    <3> QED
      BY <3>1, <3>2
  <2>3. ASSUME NEW i \in 0 .. m - 1, i \in T PROVE i + 1 \in T
    <3>1. i + 1 \in 1 .. m /\ i + 1 \in 1 .. m + 1 /\ (i + 1) - 1 = i
      OBVIOUS
    <3>2. Nth[m][i + 1] = G[<<i + 1, Nth[m][(i + 1) - 1]>>]
      BY <1>2, <3>1 DEF Follows
    <3>3. Nth[m + 1][i + 1] = G[<<i + 1, Nth[m + 1][(i + 1) - 1]>>]
      BY <1>2, <2>1, <3>1 DEF Follows
    <3>4. Nth[m + 1][i] = Nth[m][i]
      BY <2>3
    <3>5. Nth[m + 1][i + 1] = Nth[m][i + 1]
      BY <3>1, <3>2, <3>3, <3>4
    <3> QED
      BY <3>1, <3>5
  <2> HIDE DEF T
  <2>4. \A i \in 0 .. m : i \in T
    BY <2>2, <2>3, 0 \in Nat, IntervalInduction
  <2> QED
    BY <2>4 DEF T
<1>5. g \in [Nat -> V]
  <2>1. \A m \in Nat : Nth[m][m] \in V
    BY <1>2
  <2> QED
    BY <2>1 DEF g
<1>6. g[0] = v
  BY <1>2, <1>3 DEF Follows
<1>7. ASSUME NEW i \in Nat \ {0} PROVE g[i] = G[<<i, g[i - 1]>>]
  <2>1. i - 1 \in Nat /\ (i - 1) + 1 = i /\ i - 1 \in 0 .. i - 1 /\ i \in 1 .. i
    OBVIOUS
  <2>2. Nth[i][i - 1] = Nth[i - 1][i - 1]
    <3>1. Nth[(i - 1) + 1][i - 1] = Nth[i - 1][i - 1]
      BY <1>4, <2>1
    <3> QED
      BY <2>1, <3>1
  <2>3. Nth[i][i] = G[<<i, Nth[i][i - 1]>>]
    BY <1>2, <2>1 DEF Follows
  <2> QED
    BY <1>3, <2>1, <2>2, <2>3
<1> QED
  BY <1>5, <1>6, <1>7 DEF Follow

\* The half words that are not negative, and the ints up to the factorial of 12.
PositiveHalf == {n \in Nat : n <= 32767}
UpTo12 == {n \in Nat : 1 <= n /\ n <= 479001600}

LEMMA SignedHalfSame ==
  ASSUME NEW s \in PositiveHalf
  PROVE  SignedHalf(s) = s
<1> USE DEF PositiveHalf
<1>1. (s + 32768) % 65536 = s + 32768
  OBVIOUS
<1>2. (65536 \div 2) = 32768
  OBVIOUS
<1> QED
  BY SMT, <1>1, <1>2 DEF SignedHalf, Half

\* A product that fits an int is the product.
LEMMA TimesExact ==
  ASSUME NEW m \in Nat, NEW n \in Nat, m * n < 2147483648
  PROVE  Times(m, n) = m * n
<1> DEFINE q == m \div 65536
           r == m % 65536
           low == r * n
           s == q * n + low \div 65536
<1>1. q \in Nat /\ r \in Nat /\ m = q * 65536 + r
  OBVIOUS
<1>2. low = (low \div 65536) * 65536 + (low % 65536) /\ low \in Nat /\ low \div 65536 \in Nat
      /\ low % 65536 \in Nat
  <2>1. low \in Nat
    <3> HIDE DEF r
    <3> QED
      BY <1>1
  <2> HIDE DEF low
  <2> QED
    BY <2>1
<1>3. m * n = (q * n) * 65536 + low
  <2> HIDE DEF q, r
  <2> QED
    BY <1>1
<1>4. q * n \in Nat
  <2> HIDE DEF q
  <2> QED
    BY <1>1
<1> DEFINE A == q * n
           b == low \div 65536
           e == low % 65536
           P == m * n
<1>5. /\ A \in Nat /\ b \in Nat /\ e \in Nat /\ low = b * 65536 + e /\ P = A * 65536 + low
      /\ P < 2147483648 /\ s = A + b
  BY <1>2, <1>3, <1>4
<1>6. Times(m, n) = SignedHalf(s) * 65536 + e
  BY DEF Times, Half
<1> HIDE DEF A, b, e, P, s, low, q, r
<1>7. s \in PositiveHalf
  BY ONLY <1>5 DEF PositiveHalf
<1>8. P = s * 65536 + e
  BY ONLY <1>5
<1>9. SignedHalf(s) = s
  BY ONLY <1>7, SignedHalfSame
<1> QED
  BY <1>6, <1>8, <1>9 DEF P

\* factorial is defined by its recursion, with products of an int.
LEMMA FactorialSteps ==
  Factorial[0] = 1 /\ \A n \in Nat \ {0} : Factorial[n] = Times(Factorial[n - 1], n)
<1> DEFINE G == [p \in Nat \X Int |-> Times(p[2], p[1])]
           f == CHOOSE g : g = [n \in Nat |-> IF n = 0 THEN 1 ELSE Times(g[n - 1], n)]
<1>1. \A x \in Int, n \in Nat : Times(x, n) \in Int
  BY DEF Times, SignedHalf, Half
<1>2. G \in [Nat \X Int -> Int]
  <2>1. \A p \in Nat \X Int : Times(p[2], p[1]) \in Int
    BY <1>1
  <2> QED
    BY <2>1
<1>3. \A n \in Nat, x \in Int : G[<<n, x>>] = Times(x, n)
  OBVIOUS
<1> HIDE DEF G
<1>4. PICK h \in [Nat -> Int] : Follow(h, 1, G)
  BY <1>2, NatRecursionExists
<1>5. ASSUME NEW n \in Nat PROVE h[n] = IF n = 0 THEN 1 ELSE Times(h[n - 1], n)
  <2>1. CASE n = 0
    BY <1>4, <2>1 DEF Follow
  <2>2. CASE n # 0
    <3>1. n \in Nat \ {0} /\ n - 1 \in Nat /\ h[n - 1] \in Int
      BY <2>2
    <3> QED
      BY <1>3, <1>4, <2>2, <3>1 DEF Follow
  <2> QED
    BY <2>1, <2>2
<1>6. h = [n \in Nat |-> IF n = 0 THEN 1 ELSE Times(h[n - 1], n)]
  BY <1>5
<1>7. f = [n \in Nat |-> IF n = 0 THEN 1 ELSE Times(f[n - 1], n)]
  BY <1>6
<1>8. Factorial = f
  BY DEF Factorial
<1> HIDE DEF f
<1>9. f[0] = 1 /\ \A n \in Nat \ {0} : f[n] = Times(f[n - 1], n)
  BY <1>7
<1> QED
  BY <1>8, <1>9

IsFactorial(n, v) == Factorial[n] = v
Exact(n) == Factorial[n] = Factorial[n - 1] * n /\ Factorial[n] \in UpTo12
Follower(m, v, n, w) ==
  m \in Nat /\ v \in Nat \ {0} /\ n = m + 1 /\ w = v * n /\ w <= 479001600

LEMMA NextFactorial ==
  ASSUME NEW m, NEW v, NEW n, NEW w, IsFactorial(m, v), Follower(m, v, n, w)
  PROVE  IsFactorial(n, w) /\ Exact(n)
<1>1. m \in Nat /\ v \in Nat \ {0} /\ n = m + 1 /\ w = v * n /\ v * n <= 479001600
  BY DEF Follower
<1>2. n \in Nat \ {0} /\ n - 1 = m /\ v \in Nat /\ v * n < 2147483648
  BY <1>1
<1>3. Factorial[n] = Times(v, n)
  BY <1>2, FactorialSteps DEF IsFactorial
<1>4. Times(v, n) = v * n
  BY ONLY <1>2, TimesExact
<1>5. IsFactorial(n, w)
  BY <1>1, <1>3, <1>4 DEF IsFactorial
<1>6. w \in UpTo12
  <2>1. w \in Nat \ {0} /\ w <= 479001600
    BY ONLY <1>1
  <2> QED
    BY <2>1 DEF UpTo12
<1> QED
  BY <1>1, <1>2, <1>5, <1>6 DEF IsFactorial, Exact

\* The factorials up to 12 are exact.
LEMMA FactorialsExact ==
  /\ Factorial[0] = 1
  /\ \A n \in 1 .. 12 : Factorial[n] = Factorial[n - 1] * n
  /\ \A n \in 0 .. 12 : Factorial[n] \in UpTo12
<1>1. Factorial[0] = 1
  BY FactorialSteps
<1>2. IsFactorial(1, 1) /\ Exact(1)
  <2>1. IsFactorial(0, 1) /\ Follower(0, 1, 1, 1)
    BY <1>1 DEF IsFactorial, Follower
  <2> QED
    BY ONLY <2>1, NextFactorial
<1>3. IsFactorial(2, 2) /\ Exact(2)
  <2>1. Follower(1, 1, 2, 2)
    BY DEF Follower
  <2> QED
    BY ONLY <1>2, <2>1, NextFactorial
<1>4. IsFactorial(3, 6) /\ Exact(3)
  <2>1. Follower(2, 2, 3, 6)
    BY DEF Follower
  <2> QED
    BY ONLY <1>3, <2>1, NextFactorial
<1>5. IsFactorial(4, 24) /\ Exact(4)
  <2>1. Follower(3, 6, 4, 24)
    BY DEF Follower
  <2> QED
    BY ONLY <1>4, <2>1, NextFactorial
<1>6. IsFactorial(5, 120) /\ Exact(5)
  <2>1. Follower(4, 24, 5, 120)
    BY DEF Follower
  <2> QED
    BY ONLY <1>5, <2>1, NextFactorial
<1>7. IsFactorial(6, 720) /\ Exact(6)
  <2>1. Follower(5, 120, 6, 720)
    BY DEF Follower
  <2> QED
    BY ONLY <1>6, <2>1, NextFactorial
<1>8. IsFactorial(7, 5040) /\ Exact(7)
  <2>1. Follower(6, 720, 7, 5040)
    BY DEF Follower
  <2> QED
    BY ONLY <1>7, <2>1, NextFactorial
<1>9. IsFactorial(8, 40320) /\ Exact(8)
  <2>1. Follower(7, 5040, 8, 40320)
    BY DEF Follower
  <2> QED
    BY ONLY <1>8, <2>1, NextFactorial
<1>10. IsFactorial(9, 362880) /\ Exact(9)
  <2>1. Follower(8, 40320, 9, 362880)
    BY DEF Follower
  <2> QED
    BY ONLY <1>9, <2>1, NextFactorial
<1>11. IsFactorial(10, 3628800) /\ Exact(10)
  <2>1. Follower(9, 362880, 10, 3628800)
    BY DEF Follower
  <2> QED
    BY ONLY <1>10, <2>1, NextFactorial
<1>12. IsFactorial(11, 39916800) /\ Exact(11)
  <2>1. Follower(10, 3628800, 11, 39916800)
    BY DEF Follower
  <2> QED
    BY ONLY <1>11, <2>1, NextFactorial
<1>13. IsFactorial(12, 479001600) /\ Exact(12)
  <2>1. Follower(11, 39916800, 12, 479001600)
    BY DEF Follower
  <2> QED
    BY ONLY <1>12, <2>1, NextFactorial
<1>14. \A n \in 1 .. 12 : n \in {1, 2, 3, 4, 5, 6, 7, 8, 9, 10, 11, 12}
  OBVIOUS
<1>15. \A n \in 1 .. 12 : Exact(n)
  BY ONLY <1>2, <1>3, <1>4, <1>5, <1>6, <1>7, <1>8, <1>9, <1>10, <1>11, <1>12, <1>13, <1>14
<1>16. Factorial[0] \in UpTo12
  <2>1. 1 \in UpTo12
    BY DEF UpTo12
  <2> QED
    BY <1>1, <2>1
<1>17. \A n \in 0 .. 12 : n = 0 \/ n \in 1 .. 12
  OBVIOUS
<1> QED
  BY <1>1, <1>15, <1>16, <1>17 DEF Exact

\* One set has no elements, one has all.
LEMMA ExtremeSubsets ==
  ASSUME NEW S, IsFiniteSet(S)
  PROVE  /\ \A k \in Nat : IsFiniteSet(kSubset(k, S)) /\ Cardinality(kSubset(k, S)) \in Nat
         /\ Cardinality(kSubset(0, S)) = 1
         /\ Cardinality(kSubset(Cardinality(S), S)) = 1
<1>1. IsFiniteSet(SUBSET S)
  BY FS_SUBSET
<1>2. ASSUME NEW k \in Nat
      PROVE  IsFiniteSet(kSubset(k, S)) /\ Cardinality(kSubset(k, S)) \in Nat
  <2>1. kSubset(k, S) \in SUBSET SUBSET S
    BY DEF kSubset
  <2>2. IsFiniteSet(kSubset(k, S))
    BY <1>1, <2>1, FS_Subset
  <2> QED
    BY <2>2, FS_CardinalityType
<1>3. kSubset(0, S) = {{}}
  <2>1. ASSUME NEW X \in SUBSET S PROVE Cardinality(X) = 0 <=> X = {}
    <3>1. IsFiniteSet(X)
      BY FS_Subset
    <3> QED
      BY <3>1, FS_EmptySet
  <2> QED
    BY <2>1 DEF kSubset
<1>4. kSubset(Cardinality(S), S) = {S}
  <2>1. ASSUME NEW X \in SUBSET S PROVE Cardinality(X) = Cardinality(S) <=> X = S
    BY FS_Subset
  <2> QED
    BY <2>1 DEF kSubset
<1>5. Cardinality({{}}) = 1 /\ Cardinality({S}) = 1
  BY FS_Singleton
<1> QED
  BY <1>2, <1>3, <1>4, <1>5

LEMMA PutAndTake ==
  ASSUME NEW X, NEW x, x \notin X
  PROVE  (X \cup {x}) \ {x} = X
  OBVIOUS

\* The subsets of k elements have x, or not.
LEMMA SubsetsSplit ==
  ASSUME NEW S, IsFiniteSet(S), NEW x \in S, NEW R, R = S \ {x}, NEW k \in Nat \ {0}
  PROVE  Cardinality(kSubset(k, S)) =
           Cardinality(kSubset(k - 1, R)) + Cardinality(kSubset(k, R))
<1> DEFINE A == kSubset(k - 1, R)
           B == kSubset(k, R)
           C == {X \in kSubset(k, S) : x \in X}
           f == [X \in A |-> X \cup {x}]
<1>1. IsFiniteSet(R) /\ k - 1 \in Nat /\ k \in Nat
  BY FS_RemoveElement
<1>2. IsFiniteSet(A) /\ IsFiniteSet(B) /\ Cardinality(A) \in Nat /\ Cardinality(B) \in Nat
  BY <1>1, ExtremeSubsets
<1>3. ASSUME NEW X \in SUBSET S, x \in X
      PROVE  X \in C <=> X \ {x} \in A
  <2>1. IsFiniteSet(X)
    BY FS_Subset
  <2>2. Cardinality(X \ {x}) = Cardinality(X) - 1 /\ Cardinality(X) \in Nat
    BY <1>3, <2>1, FS_RemoveElement, FS_CardinalityType
  <2>3. Cardinality(X) = k <=> Cardinality(X \ {x}) = k - 1
    BY <2>2
  <2> QED
    BY <1>3, <2>3 DEF kSubset
<1>4. \A X \in A : X \in SUBSET S /\ x \notin X
  BY DEF kSubset
<1>5. \A X \in A : X \cup {x} \in C
  <2> TAKE X \in A
  <2>1. (X \cup {x}) \ {x} = X /\ X \cup {x} \in SUBSET S /\ x \in X \cup {x}
    BY <1>4, PutAndTake
  <2> QED
    BY <1>3, <2>1
<1>6. \A Y \in C : Y \ {x} \in A /\ (Y \ {x}) \cup {x} = Y
  <2> TAKE Y \in C
  <2>1. Y \in SUBSET S /\ x \in Y
    BY DEF kSubset
  <2> QED
    BY <1>3, <2>1
<1>7. f \in [A -> C] /\ \A X \in A : f[X] = X \cup {x}
  BY <1>5
<1> HIDE DEF A, C, f
<1>8. f \in Bijection(A, C)
  <2>1. ASSUME NEW X \in A, NEW Y \in A, f[X] = f[Y] PROVE X = Y
    <3>1. X \cup {x} = Y \cup {x}
      BY <1>7, <2>1
    <3>2. (X \cup {x}) \ {x} = X /\ (Y \cup {x}) \ {x} = Y
      BY <1>4, PutAndTake
    <3> QED
      BY <3>1, <3>2
  <2>2. \A Y \in C : \E X \in A : f[X] = Y
    BY <1>6, <1>7
  <2> QED
    BY <1>7, <2>1, <2>2 DEF Bijection, Injection, Surjection, IsInjective
<1>9. IsFiniteSet(C) /\ Cardinality(C) = Cardinality(A)
  BY <1>2, <1>8, FS_Bijection DEF ExistsBijection
<1>10. kSubset(k, S) = C \cup B /\ C \cap B = {}
  BY DEF kSubset, C
<1> HIDE DEF B
<1>11. Cardinality(C \cup B) = Cardinality(C) + Cardinality(B) - Cardinality(C \cap B)
  BY <1>2, <1>9, FS_Union
<1>12. Cardinality(C \cap B) = 0
  BY <1>10, FS_EmptySet
<1>13. Cardinality(kSubset(k, S)) = Cardinality(A) + Cardinality(B) - 0
  BY <1>9, <1>10, <1>11, <1>12
<1>14. Cardinality(kSubset(k, S)) = Cardinality(A) + Cardinality(B)
  BY <1>2, <1>13
<1> QED
  BY <1>14 DEF A, B

LEMMA Pascal ==
  ASSUME NEW n \in Nat, NEW k \in 1 .. n, NEW a \in Nat, NEW b \in Nat,
         NEW f \in Nat, NEW g \in Nat, NEW h \in Nat,
         a * f * (g * (n + 1 - k)) = h, b * (f * k) * g = h
  PROVE  (a + b) * (f * k) * (g * (n + 1 - k)) = h * (n + 1)
<1> DEFINE r == n + 1 - k
           u == f * k
           w == g * r
<1>1. r \in Nat /\ k \in Nat /\ k + r = n + 1
  OBVIOUS
<1> HIDE DEF r
<1>2. u \in Nat /\ w \in Nat
  BY <1>1
<1>3. (a + b) * u * w = a * u * w + b * u * w
  <2> HIDE DEF u, w
  <2> QED
    BY <1>2
<1>4. a * u * w = (a * f * w) * k
  <2> HIDE DEF w
  <2> QED
    BY <1>1, <1>2
<1>5. b * u * w = (b * u * g) * r
  <2> HIDE DEF u
  <2> QED
    BY <1>1, <1>2
<1>6. a * f * w = h /\ b * u * g = h
  BY DEF r
<1>7. (a + b) * u * w = h * k + h * r
  BY <1>3, <1>4, <1>5, <1>6
<1>8. h * k + h * r = h * (k + r)
  BY <1>1
<1> QED
  BY <1>1, <1>7, <1>8 DEF r

\* For the number of subsets of n elements, k! (n - k)! of them make n!.
CountsSubsets(S, n) ==
  IsFiniteSet(S) /\ Cardinality(S) = n =>
    \A k \in 0 .. n :
      Cardinality(kSubset(k, S)) * Factorial[k] * Factorial[n - k] = Factorial[n]

LEMMA SubsetsCounted ==
  ASSUME NEW n \in 0 .. 12, NEW S
  PROVE  CountsSubsets(S, n)
<1> DEFINE T == {m \in 0 .. 12 : \A Z \in SUBSET S : CountsSubsets(Z, m)}
<1>1. \A m \in 0 .. 12 : Factorial[m] \in Nat
  BY FactorialsExact DEF UpTo12
<1>2. 0 \in T
  <2>1. ASSUME NEW Z \in SUBSET S, IsFiniteSet(Z), Cardinality(Z) = 0, NEW k \in 0 .. 0
        PROVE  Cardinality(kSubset(k, Z)) * Factorial[k] * Factorial[0 - k] = Factorial[0]
    <3>1. k = 0
      OBVIOUS
    <3>3. 0 - k = 0
      BY ONLY <3>1
    <3>2. Cardinality(kSubset(0, Z)) = 1
      BY <2>1, ExtremeSubsets
    <3> QED
      BY <3>1, <3>2, <3>3, FactorialsExact
  <2> QED
    BY <2>1 DEF CountsSubsets
<1>3. ASSUME NEW m \in 0 .. 11, m \in T PROVE m + 1 \in T
  <2>1. m \in Nat /\ m + 1 \in 0 .. 12 /\ m + 1 \in 1 .. 12 /\ m \in 0 .. 12
    OBVIOUS
  <2>2. ASSUME NEW Z \in SUBSET S, IsFiniteSet(Z), Cardinality(Z) = m + 1, NEW k \in 0 .. m + 1
        PROVE  Cardinality(kSubset(k, Z)) * Factorial[k] * Factorial[m + 1 - k]
                 = Factorial[m + 1]
    <3>1. CASE k = 0
      <4>1. Cardinality(kSubset(0, Z)) = 1
        BY <2>2, <3>1, ExtremeSubsets
      <4>3. m + 1 - k = m + 1
        BY ONLY <2>1, <3>1
      <4>4. Factorial[m + 1] \in Nat
        BY <1>1, <2>1
      <4>2. 1 * Factorial[0] * Factorial[m + 1] = Factorial[m + 1]
        BY <4>4, FactorialsExact
      <4> QED
        BY <3>1, <4>1, <4>2, <4>3
    <3>2. CASE k = m + 1
      <4>1. Cardinality(kSubset(k, Z)) = 1
        BY <2>2, <3>2, ExtremeSubsets
      <4>3. m + 1 - k = 0
        BY ONLY <2>1, <3>2
      <4>4. Factorial[m + 1] \in Nat
        BY <1>1, <2>1
      <4>2. 1 * Factorial[m + 1] * Factorial[0] = Factorial[m + 1]
        BY <4>4, FactorialsExact
      <4> QED
        BY <3>2, <4>1, <4>2, <4>3
    <3>3. CASE k \in 1 .. m
      <4>1. PICK x : x \in Z
        <5>1. Z # {}
          BY <2>1, <2>2, FS_EmptySet
        <5> QED
          BY <5>1
      <4> DEFINE R == Z \ {x}
                 a == Cardinality(kSubset(k - 1, R))
                 b == Cardinality(kSubset(k, R))
                 f == Factorial[k - 1]
                 g == Factorial[m - k]
                 h == Factorial[m]
      <4>2. R \in SUBSET S /\ IsFiniteSet(R) /\ Cardinality(R) = m
        BY <2>1, <2>2, <4>1, FS_RemoveElement
      <4>3. /\ k \in 0 .. m /\ k - 1 \in 0 .. m /\ k \in 1 .. 12 /\ k - 1 \in 0 .. 12
            /\ m - k \in 0 .. 12 /\ m + 1 - k \in 1 .. 12 /\ m - (k - 1) = m + 1 - k
            /\ (m + 1 - k) - 1 = m - k /\ k \in Nat /\ k - 1 \in Nat /\ (m + 1) - 1 = m
            /\ k \in Nat \ {0}
        BY <2>1, <3>3
      <4>4. CountsSubsets(R, m)
        BY <1>3, <4>2
      <4>5. a * Factorial[k - 1] * Factorial[m - (k - 1)] = h /\ b * Factorial[k] * g = h
        BY <4>2, <4>3, <4>4 DEF CountsSubsets
      <4>6. /\ Factorial[k] = f * k /\ Factorial[m + 1 - k] = g * (m + 1 - k)
            /\ Factorial[m + 1] = h * (m + 1)
        <5>1. Factorial[k] = f * k
          BY <4>3, FactorialsExact
        <5>2. Factorial[m + 1 - k] = Factorial[(m + 1 - k) - 1] * (m + 1 - k)
          BY <4>3, FactorialsExact
        <5>3. Factorial[m + 1] = Factorial[(m + 1) - 1] * (m + 1)
          BY <2>1, FactorialsExact
        <5> QED
          BY <4>3, <5>1, <5>2, <5>3
      <4>7. a \in Nat /\ b \in Nat
        BY <4>2, <4>3, ExtremeSubsets
      <4>8. f \in Nat /\ g \in Nat /\ h \in Nat
        BY <1>1, <2>1, <4>3
      <4>9. Cardinality(kSubset(k, Z)) = a + b
        BY <2>2, <4>1, <4>3, SubsetsSplit
      <4> HIDE DEF a, b, f, g, h
      <4>10. a * f * (g * (m + 1 - k)) = h /\ b * (f * k) * g = h
        BY <4>3, <4>5, <4>6 DEF f
      <4>11. (a + b) * (f * k) * (g * (m + 1 - k)) = h * (m + 1)
        BY ONLY <2>1, <3>3, <4>7, <4>8, <4>10, Pascal
      <4> QED
        BY <4>6, <4>9, <4>11
    <3> QED
      BY <2>1, <3>1, <3>2, <3>3
  <2> QED
    BY <2>1, <2>2 DEF CountsSubsets
<1> HIDE DEF T
<1>4. \A m \in 0 .. 12 : m \in T
  <2>1. 12 \in Nat /\ 0 \in Nat /\ 12 - 1 = 11
    OBVIOUS
  <2> QED
    BY <1>2, <1>3, <2>1, IntervalInduction
<1>5. S \in SUBSET S
  OBVIOUS
<1> QED
  BY <1>4, <1>5 DEF T

LEMMA DivideProduct ==
  ASSUME NEW a \in Nat, NEW p \in Nat \ {0}
  PROVE  (a * p) \div p = a
  OBVIOUS

\* choose(n, k), in an int, is the number of the subsets of k of n elements.
LEMMA ChooseCounts ==
  ASSUME NEW S, IsFiniteSet(S), NEW n \in 0 .. 12, n = Cardinality(S), NEW k \in 0 .. n
  PROVE  Choose(n, k) = Cardinality(kSubset(k, S))
<1> DEFINE few == IF k < n - k THEN k ELSE n - k
           C == Cardinality(kSubset(k, S))
           f == Factorial[n]
           g == Factorial[few]
           h == Factorial[n - few]
<1>1. few \in 0 .. 12 /\ n - few \in 0 .. 12 /\ k \in Nat /\ n \in Nat
      /\ k \in 0 .. 12 /\ n - k \in 0 .. 12
  OBVIOUS
<1>2. C * Factorial[k] * Factorial[n - k] = f
  BY SubsetsCounted DEF CountsSubsets
<1>3. C \in Nat
  BY <1>1, ExtremeSubsets
<1>4. \A m \in 0 .. 12 : Factorial[m] \in Nat \ {0} /\ Factorial[m] <= 479001600
  BY FactorialsExact DEF UpTo12
<1>5. f \in Nat \ {0} /\ f <= 479001600 /\ g \in Nat \ {0} /\ h \in Nat \ {0}
  BY <1>1, <1>4
<1>6. C * (h * g) = f
  <2>1. CASE k < n - k
    <3>1. few = k /\ n - few = n - k
      BY <2>1
    <3>2. C * g * h = f
      BY <1>2, <3>1
    <3> HIDE DEF C, f, g, h
    <3> QED
      BY <1>3, <1>5, <3>2
  <2>2. CASE ~ k < n - k
    <3>1. few = n - k /\ n - few = k
      BY <1>1, <2>2
    <3>2. C * h * g = f
      BY <1>2, <3>1
    <3> HIDE DEF C, f, g, h
    <3> QED
      BY <1>3, <1>5, <3>2
  <2> QED
    BY <2>1, <2>2
<1>7. Choose(n, k) = Quotient(f, Times(h, g))
  BY DEF Choose
<1> HIDE DEF few, C, f, g, h
<1> DEFINE p == h * g
<1>8. p \in Nat \ {0} /\ p <= f
  <2>1. p \in Nat \ {0}
    BY <1>5
  <2>2. C # 0
    BY <1>5, <1>6, <2>1
  <2> HIDE DEF p
  <2>3. C * p = f
    BY <1>6 DEF p
  <2> QED
    BY <1>3, <2>1, <2>2, <2>3
<1>9. Times(h, g) = p
  <2>1. h \in Nat /\ g \in Nat /\ h * g < 2147483648
    BY <1>5, <1>8
  <2> QED
    BY ONLY <2>1, TimesExact DEF p
<1>10. C * p = f
  BY <1>6
<1> HIDE DEF p
<1>11. Quotient(f, p) = C
  <2>1. (C * p) \div p = C
    BY <1>3, <1>8, DivideProduct
  <2>2. Quotient(f, p) = f \div p
    BY <1>5, <1>8 DEF Quotient
  <2> QED
    BY <1>10, <2>1, <2>2
<1> QED
  BY <1>7, <1>9, <1>11 DEF C

-----------------------------------------------------------------------------
(* The numbers of patterns printed.                                        *)

\* The lines are those of frequent itemsets, each of two or more items once.
LEMMA WrittenLines ==
  ASSUME NEW owed, NEW o, o = Written(owed)
  PROVE  /\ IsFiniteSet(DOMAIN o)
         /\ \A line \in DOMAIN o : Cardinality(line.items) # 1 => o[line] = 1
<1> DEFINE A == {X \in FrequentSets : Cardinality(X) = 1 \/ X \notin owed}
           L == {Pattern(X, Support(db, X)) : X \in A}
           f == [line \in L |-> line.items]
<1>1. o = [l \in L |-> IF Cardinality(l.items) = 1 /\ SinglePath(tree) /\ l.items \notin owed
                       THEN 2 ELSE 1]
  BY DEF Written
<1>2. IsFiniteSet(FrequentSets)
  <2>1. IsFiniteSet(SUBSET Item)
    BY FiniteSets, FS_SUBSET
  <2>2. FrequentSets \in SUBSET SUBSET Item
    BY DEF FrequentSets, Itemset
  <2> QED
    BY <2>1, <2>2, FS_Subset
<1>3. \A line \in L : line.items \in FrequentSets /\ line = Pattern(line.items, Support(db, line.items))
  BY PatternItems
<1> HIDE DEF L
<1>4. f \in Injection(L, FrequentSets)
  <2>1. f \in [L -> FrequentSets] /\ \A line \in L : f[line] = line.items
    BY <1>3
  <2> HIDE DEF f
  <2>2. \A x, y \in L : f[x] = f[y] => x = y
    BY <1>3, <2>1
  <2> QED
    BY <2>1, <2>2 DEF Injection, IsInjective
<1> HIDE DEF f
<1>5. IsFiniteSet(L)
  BY <1>2, <1>4, FS_Injection
<1> QED
  BY <1>1, <1>5

IsWritten(o, owed) == o = Written(owed)

Adds(o, p, C) == p = o (+) SetToBag(C)

\* What is added are new lines.
LEMMA NewLines ==
  ASSUME NEW owed, NEW o, IsWritten(o, owed), NEW left, NEW p, IsWritten(p, left),
         NEW C, Adds(o, p, C), NEW l \in Nat \ {1}
  PROVE  /\ Cardinality(LinesOf(DOMAIN o, l)) \in Nat
         /\ Cardinality(LinesOf(C, l)) \in Nat
         /\ Cardinality(LinesOf(DOMAIN p, l)) =
              Cardinality(LinesOf(DOMAIN o, l)) + Cardinality(LinesOf(C, l))
<1> DEFINE A == LinesOf(DOMAIN o, l)
           B == LinesOf(C, l)
           b == SetToBag(C)
<1>1. IsFiniteSet(DOMAIN o) /\ IsFiniteSet(DOMAIN p)
      /\ (\A line \in DOMAIN o : Cardinality(line.items) # 1 => o[line] = 1)
      /\ (\A line \in DOMAIN p : Cardinality(line.items) # 1 => p[line] = 1)
  BY WrittenLines DEF IsWritten
<1>2. DOMAIN b = C /\ \A line \in C : b[line] = 1
  BY DEF SetToBag
<1> HIDE DEF b
<1>3. /\ DOMAIN p = DOMAIN o \cup C
      /\ \A line \in DOMAIN p : p[line] = (IF line \in DOMAIN o THEN o[line] ELSE 0)
                                            + (IF line \in C THEN b[line] ELSE 0)
  BY <1>2 DEF (+), b, Adds
<1>4. LinesOf(DOMAIN p, l) = A \cup B
  BY <1>3 DEF LinesOf
<1>5. A \cap B = {}
  <2> SUFFICES ASSUME NEW line \in DOMAIN o, line \in C, Cardinality(line.items) = l
               PROVE  FALSE
    BY DEF LinesOf
  <2>1. Cardinality(line.items) # 1 /\ line \in DOMAIN p
    BY <1>3
  <2>2. o[line] = 1 /\ p[line] = 1 /\ b[line] = 1
    BY <1>1, <1>2, <2>1
  <2>3. p[line] = o[line] + b[line]
    BY <1>3, <2>1
  <2> QED
    BY <2>2, <2>3
<1>6. IsFiniteSet(A) /\ IsFiniteSet(B)
  <2>1. IsFiniteSet(C)
    <3>1. C \in SUBSET DOMAIN p
      BY <1>3
    <3> QED
      BY <1>1, <3>1, FS_Subset
  <2>2. A \in SUBSET DOMAIN o /\ B \in SUBSET C
    BY DEF LinesOf
  <2> QED
    BY <1>1, <2>1, <2>2, FS_Subset
<1> HIDE DEF A, B
<1>7. Cardinality(A) \in Nat /\ Cardinality(B) \in Nat
  BY <1>6, FS_CardinalityType
<1>8. Cardinality(A \cup B) = Cardinality(A) + Cardinality(B) - Cardinality(A \cap B)
  BY <1>6, FS_Union
<1>9. Cardinality(A \cap B) = 0
  BY <1>5, FS_EmptySet
<1>10. Cardinality(A \cup B) = Cardinality(A) + Cardinality(B)
  BY <1>7, <1>8, <1>9
<1> QED
  BY <1>4, <1>7, <1>10 DEF A, B

PathOf(call, path, n, a, C) ==
  /\ path = Path(call.tree) /\ n = Len(path) /\ a = Cardinality(call.alpha)
  /\ C = {Combination(call, path, D) : D \in AllCombinations(n)}

\* The lines a single path adds are as many as fp_growth counts by formula.
LEMMA PathLines ==
  ASSUME InputInv, ShortPatterns, NEW call, CountsInv(call), TreeInv(call), SinglePath(call.tree),
         NEW path, NEW n, NEW a, NEW C, PathOf(call, path, n, a, C), NEW l \in Nat
  PROVE  Cardinality(LinesOf(C, l)) = IF l \in a + 1 .. a + n THEN Choose(n, l - a) ELSE 0
<1> DEFINE S == Large(call.counts)
           O == Owed(call, S)
           line(X) == Pattern(call.alpha \cup X, Support(db, call.alpha \cup X))
           K == kSubset(l - a, S)
           N == LinesOf(C, l)
           f == [X \in K |-> line(X)]
<1>1. /\ n = Cardinality(S)
      /\ C = {Pattern(Z, Support(db, Z)) : Z \in O}
      /\ \A X \in SUBSET S : X # {} => call.alpha \cup X \in FrequentSets
  <2>1. /\ Len(path) = Cardinality(S)
        /\ {Combination(call, path, D) : D \in AllCombinations(Len(path))} =
             {Pattern(Z, Support(db, Z)) : Z \in O}
        /\ \A X \in SUBSET S : X # {} => call.alpha \cup X \in FrequentSets
    <3>1. path = Path(call.tree)
      BY DEF PathOf
    <3> QED
      BY ONLY InputInv, CountsInv(call), TreeInv(call), SinglePath(call.tree),
              <3>1, SinglePathFinds
  <2> HIDE DEF S, O
  <2> QED
    BY <2>1 DEF PathOf
<1>2. O = {Z \in FrequentSets : \E X \in SUBSET S : X # {} /\ Z = call.alpha \cup X}
  BY OwedAll
<1>3. /\ call.alpha \in SUBSET Item /\ S \in SUBSET Item /\ \A X \in SUBSET S : call.alpha \cap X = {}
      /\ IsFiniteSet(S)
  <2>1. S \in SUBSET Item /\ call.alpha \in SUBSET Item /\ call.alpha \cap S = {}
    BY CallType DEF LargeExact
  <2> HIDE DEF S
  <2> QED
    BY <2>1, FiniteSets
<1> HIDE DEF S, O
<1>4. \A X \in SUBSET S : /\ Cardinality(X) \in Nat
                          /\ Cardinality(call.alpha \cup X) = a + Cardinality(X)
  <2> TAKE X \in SUBSET S
  <2>1. X \in SUBSET Item /\ call.alpha \cap X = {}
    BY <1>3
  <2> QED
    BY <1>3, <2>1, UnionSize DEF PathOf
<1>5. a \in Nat /\ n \in Nat
  BY <1>1, <1>3, FiniteSets DEF PathOf
<1>6. n # 0 => n \in 0 .. 12
  <2>1. ASSUME n # 0 PROVE a + n <= 12
    <3>1. S # {}
      BY <1>1, <2>1, FS_EmptySet
    <3>2. call.alpha \cup S \in FrequentSets
      BY <1>1, <3>1
    <3> QED
      BY <1>1, <1>4, <3>2 DEF ShortPatterns
  <2> QED
    BY ONLY <1>5, <2>1
<1>7. ASSUME NEW X \in SUBSET S
      PROVE  /\ line(X).items = call.alpha \cup X
             /\ X = line(X).items \ call.alpha
  <2>1. line(X).items = call.alpha \cup X
    BY PatternItems
  <2> QED
    BY <1>3, <2>1
<1>8. \A y : y \in C <=> \E X \in SUBSET S : X # {} /\ y = line(X)
  BY <1>1, <1>2
<1> HIDE DEF line
<1>9. ASSUME NEW X \in SUBSET S
      PROVE  Cardinality(line(X).items) = l <=> Cardinality(X) = l - a
  <2>1. Cardinality(line(X).items) = a + Cardinality(X) /\ Cardinality(X) \in Nat
    BY <1>4, <1>7
  <2> QED
    BY <1>5, <2>1
<1>10. CASE l \in a + 1 .. a + n
  <2>1. l - a \in 0 .. n /\ l - a # 0 /\ n # 0
    BY <1>5, <1>10
  <2>2. Choose(n, l - a) = Cardinality(K)
    BY ONLY <1>1, <1>3, <1>6, <2>1, ChooseCounts
  <2>3. ASSUME NEW X \in K PROVE line(X) \in N
    <3>1. X \in SUBSET S /\ Cardinality(X) = l - a
      BY DEF kSubset
    <3>2. X # {}
      BY <2>1, <3>1, FS_EmptySet
    <3> QED
      BY <1>8, <1>9, <3>1, <3>2 DEF LinesOf
  <2>4. ASSUME NEW y \in N PROVE \E X \in K : y = line(X)
    <3>1. PICK X \in SUBSET S : y = line(X)
      BY <1>8 DEF LinesOf
    <3>2. Cardinality(X) = l - a
      BY <1>9, <3>1 DEF LinesOf
    <3> QED
      BY <3>1, <3>2 DEF kSubset
  <2>5. \A X, Y \in K : line(X) = line(Y) => X = Y
    BY <1>7 DEF kSubset
  <2>6. IsFiniteSet(K)
    BY <1>3, <2>1, <1>5, ExtremeSubsets
  <2> HIDE DEF K, N
  <2>7. f \in Bijection(K, N)
    <3>1. f \in [K -> N] /\ \A X \in K : f[X] = line(X)
      BY <2>3
    <3> HIDE DEF f
    <3>2. \A X, Y \in K : f[X] = f[Y] => X = Y
      BY <2>5, <3>1
    <3>3. \A y \in N : \E X \in K : f[X] = y
      BY <2>4, <3>1
    <3> QED
      BY <3>1, <3>2, <3>3 DEF Bijection, Injection, Surjection, IsInjective
  <2> HIDE DEF f
  <2>8. Cardinality(N) = Cardinality(K)
    BY <2>6, <2>7, FS_Bijection DEF ExistsBijection
  <2> QED
    BY <1>10, <2>2, <2>8 DEF N
<1>11. CASE l \notin a + 1 .. a + n
  <2>1. ASSUME NEW y \in N PROVE FALSE
    <3>1. PICK X \in SUBSET S : X # {} /\ y = line(X)
      BY <1>8 DEF LinesOf
    <3>2. Cardinality(X) = l - a
      BY <1>9, <3>1 DEF LinesOf
    <3>3. Cardinality(X) \in Nat /\ Cardinality(X) <= n
      <4>1. Cardinality(X) <= Cardinality(S)
        BY ONLY <1>3, X \in SUBSET S, FS_Subset
      <4> QED
        BY <1>1, <1>4, <4>1
    <3>4. Cardinality(X) # 0
      <4>1. IsFiniteSet(X)
        BY <1>3, FS_Subset
      <4> QED
        BY <3>1, <4>1, FS_EmptySet
    <3> QED
      BY <1>5, <1>11, <3>2, <3>3, <3>4
  <2>2. N = {}
    BY <2>1
  <2> QED
    BY <1>11, <2>2, FS_EmptySet DEF N
<1> QED
  BY <1>10, <1>11

LEMMA WrittenNext ==
  ASSUME GrowthInv', UNCHANGED <<inputs, tree>>, pc' # "scan"
  PROVE  \E owed : out' = Written(owed)
<1> DEFINE owed == OwedByAll(stack, Unfilled)'
<1>1. out' = Written(OwedByAll(stack, Unfilled))'
  BY DEF GrowthInv, IInv, OutInv
<1>2. db' = db /\ epsilon' = epsilon /\ tree' = tree
  BY DEF inputs
<1>3. Written(OwedByAll(stack, Unfilled))' = Written(owed)
  BY <1>2 DEF Written, FrequentSets
<1> QED
  BY <1>1, <1>3

LEMMA WrittenNow ==
  ASSUME GrowthInv, pc # "scan"
  PROVE  \E owed : out = Written(owed)
  BY DEF GrowthInv, IInv, OutInv

LEMMA AddedCounts ==
  ASSUME NEW n, NEW L, AddCounts(n, L), NEW l, Number(l) \in Nat
  PROVE  Number(l)' = IF l \in L THEN Number(l) + n[l] ELSE Number(l)
<1>1. /\ DOMAIN pattern_counts' = DOMAIN pattern_counts \cup L
      /\ \A i \in DOMAIN pattern_counts \cup L :
           pattern_counts'[i] = (IF i \in DOMAIN pattern_counts THEN pattern_counts[i] ELSE 0)
                                  + (IF i \in L THEN n[i] ELSE 0)
  BY DEF AddCounts
<1>2. Number(l)' = IF l \in DOMAIN pattern_counts' THEN pattern_counts'[l] ELSE 0
  BY DEF Number
<1>3. CASE l \in L
  BY <1>1, <1>2, <1>3 DEF Number
<1>4. CASE l \notin L
  <2>1. CASE l \in DOMAIN pattern_counts
    <3>1. pattern_counts'[l] = pattern_counts[l] + 0 /\ pattern_counts[l] \in Nat
      BY <1>1, <1>4, <2>1 DEF Number
    <3> QED
      BY <1>1, <1>2, <1>4, <2>1, <3>1 DEF Number
  <2>2. CASE l \notin DOMAIN pattern_counts
    BY <1>1, <1>2, <1>4, <2>2 DEF Number
  <2> QED
    BY <2>1, <2>2
<1> QED
  BY <1>3, <1>4

\* Steps that add a set of lines, and their number to those of their length.
LEMMA NumbersStep ==
  ASSUME GrowthInv, GrowthInv', NumbersInv, UNCHANGED <<inputs, tree>>,
         pc \notin {"scan", "done"}, pc' \notin {"scan", "done"},
         NEW C, out' = out (+) SetToBag(C), NEW n, NEW L, AddCounts(n, L),
         \A l \in 2 .. NumItems : Cardinality(LinesOf(C, l)) = IF l \in L THEN n[l] ELSE 0
  PROVE  NumbersInv'
<1>1. PICK owed : out = Written(owed)
  BY WrittenNow
<1>2. PICK left : out' = Written(left)
  BY WrittenNext
<1>3. ASSUME NEW l \in 2 .. NumItems PROVE Number(l)' = Cardinality(LinesOf(DOMAIN out', l))
  <2>1. l \in Nat \ {1}
    BY SizesAssumption
  <2>2. /\ Cardinality(LinesOf(DOMAIN out, l)) \in Nat
        /\ Cardinality(LinesOf(C, l)) \in Nat
        /\ Cardinality(LinesOf(DOMAIN out', l)) =
             Cardinality(LinesOf(DOMAIN out, l)) + Cardinality(LinesOf(C, l))
    <3> DEFINE o == out
               p == out'
    <3>1. IsWritten(o, owed) /\ IsWritten(p, left) /\ Adds(o, p, C)
      BY <1>1, <1>2 DEF IsWritten, Adds
    <3> HIDE DEF o, p
    <3>2. /\ Cardinality(LinesOf(DOMAIN o, l)) \in Nat
          /\ Cardinality(LinesOf(C, l)) \in Nat
          /\ Cardinality(LinesOf(DOMAIN p, l)) =
               Cardinality(LinesOf(DOMAIN o, l)) + Cardinality(LinesOf(C, l))
      BY ONLY <2>1, <3>1, NewLines
    <3> QED
      BY <3>2 DEF o, p
  <2>3. Number(l) = Cardinality(LinesOf(DOMAIN out, l))
    BY DEF NumbersInv
  <2>4. Number(l)' = IF l \in L THEN Number(l) + n[l] ELSE Number(l)
    BY ONLY AddCounts(n, L), <2>2, <2>3, AddedCounts
  <2>5. Cardinality(LinesOf(C, l)) = IF l \in L THEN n[l] ELSE 0
    OBVIOUS
  <2> QED
    BY ONLY <2>2, <2>3, <2>4, <2>5
<1>4. \A l \in 2 .. NumItems : Cardinality(LinesOf(DOMAIN out, l))' = Cardinality(LinesOf(DOMAIN out', l))
  BY DEF LinesOf
<1> QED
  BY <1>3, <1>4 DEF NumbersInv

LEMMA SinglePathNumbers ==
  ASSUME GrowthInv, GrowthInv', ShortPatterns, NumbersInv, GrowSinglePath
  PROVE  NumbersInv'
<1> DEFINE call == Head(stack)
           r == Tail(stack)
           path == Path(call.tree)
           n == Len(path)
           a == Cardinality(call.alpha)
           C == {Combination(call, path, c) : c \in AllCombinations(n)}
           m == [l \in a + 1 .. a + n |-> Choose(n, l - a)]
           L == a + 1 .. a + n
<1>1. CountsInv(call) /\ TreeInv(call) /\ InputInv
  BY InnerCall DEF GrowSinglePath
<1>2. /\ UNCHANGED <<inputs, tree>> /\ pc = "grow" /\ pc' = "grow" /\ SinglePath(call.tree)
      /\ out' = out (+) SetToBag(C) /\ AddCounts(m, L)
  BY DEF GrowSinglePath
<1> HIDE DEF call
<1>3. \A l \in 2 .. NumItems : Cardinality(LinesOf(C, l)) = IF l \in L THEN m[l] ELSE 0
  <2> TAKE l \in 2 .. NumItems
  <2>1. l \in Nat
    BY SizesAssumption
  <2> DEFINE p == path
             k == n
             b == a
             B == C
  <2>2. PathOf(call, p, k, b, B)
    BY DEF PathOf
  <2> HIDE DEF p, k, b, B
  <2>3. Cardinality(LinesOf(B, l)) = IF l \in b + 1 .. b + k THEN Choose(k, l - b) ELSE 0
    BY ONLY <1>1, <1>2, <2>1, <2>2, ShortPatterns, PathLines
  <2>4. l \in L => m[l] = Choose(n, l - a)
    OBVIOUS
  <2> HIDE DEF C, m
  <2> QED
    BY <2>3, <2>4 DEF B, b, k, C
<1> HIDE DEF C, m, L
<1>4. pc \notin {"scan", "done"} /\ pc' \notin {"scan", "done"}
  BY <1>2
<1> QED
  BY <1>2, <1>3, <1>4, NumbersStep

LEMMA SymbolNumbers ==
  ASSUME GrowthInv, GrowthInv', NumbersInv, GrowSymbol
  PROVE  NumbersInv'
<1> DEFINE call == Head(stack)
           symbol == Min(call.left)
           beta == call.alpha \cup {symbol}
           n == call.counts[symbol]
           b == Cardinality(beta)
           m == [l \in {b} |-> 1]
           C == {Pattern(beta, n)}
<1>1. /\ UNCHANGED <<inputs, tree>> /\ pc = "grow" /\ pc' = "condition"
      /\ IF b > 1 /\ n >= epsilon
         THEN out' = out (+) SetToBag(C) /\ AddCounts(m, {b})
         ELSE UNCHANGED <<out, pattern_counts>>
  BY DEF GrowSymbol
<1> HIDE DEF call, symbol
<1>2. CASE b > 1 /\ n >= epsilon
  <2>1. out' = out (+) SetToBag(C) /\ AddCounts(m, {b})
    BY <1>1, <1>2
  <2>2. ASSUME NEW l PROVE Cardinality(LinesOf(C, l)) = IF l \in {b} THEN m[l] ELSE 0
    <3>1. LinesOf(C, l) = IF l = b THEN C ELSE {}
      BY PatternItems DEF LinesOf
    <3>2. Cardinality(C) = 1 /\ Cardinality({}) = 0
      BY FS_Singleton, FS_EmptySet
    <3>3. l = b => m[l] = 1
      OBVIOUS
    <3> HIDE DEF C, m, b
    <3> QED
      BY <3>1, <3>2, <3>3
  <2> HIDE DEF C, m, b
  <2>3. pc \notin {"scan", "done"} /\ pc' \notin {"scan", "done"}
    BY <1>1
  <2> QED
    BY <1>1, <2>1, <2>2, <2>3, NumbersStep
<1>3. CASE ~ (b > 1 /\ n >= epsilon)
  <2>1. UNCHANGED <<out, pattern_counts>>
    BY <1>1, <1>3
  <2> QED
    BY <1>1, <2>1 DEF NumbersInv, Number, LinesOf
<1> QED
  BY <1>2, <1>3

LEMMA OutputNumbers ==
  ASSUME GrowthInv, NumbersInv, OutputItems
  PROVE  NumbersInv'
<1> DEFINE M == {Pattern({i}, count[i]) : i \in F}
<1>1. out = EmptyBag /\ out' = SetToBag(M) /\ pc' = "grow" /\ pattern_counts' = pattern_counts
  BY DEF GrowthInv, IInv, OutInv, OutputItems
<1>2. DOMAIN out = {} /\ DOMAIN out' = M
  BY <1>1 DEF EmptyBag, SetToBag
<1>3. ASSUME NEW line \in M PROVE Cardinality(line.items) = 1
  <2>1. PICK i \in F : line = Pattern({i}, count[i])
    OBVIOUS
  <2>2. line.items = {i}
    BY <2>1, PatternItems
  <2> QED
    BY ONLY <2>2, FS_Singleton
<1> HIDE DEF M
<1>4. ASSUME NEW l \in 2 .. NumItems PROVE LinesOf(DOMAIN out, l) = LinesOf(DOMAIN out, l)'
  <2>1. l # 1
    BY SizesAssumption
  <2> QED
    BY <1>2, <1>3, <2>1 DEF LinesOf
<1> QED
  BY <1>1, <1>4 DEF NumbersInv, Number

LEMMA PrintNumbers ==
  ASSUME NumbersInv, PrintCounts
  PROVE  NumbersInv'
<1>1. /\ DOMAIN pattern_counts' = DOMAIN pattern_counts \cup {0, 1}
      /\ \A l \in DOMAIN pattern_counts \cup {0, 1} :
           pattern_counts'[l] = CASE l = 0 -> 1
                                  [] l = 1 -> Cardinality(F)
                                  [] OTHER -> pattern_counts[l]
      /\ out' = out /\ F' = F
  BY DEF PrintCounts, inputs
<1>2. ASSUME NEW l \in 2 .. NumItems PROVE Number(l)' = Number(l)
  <2>1. l # 0 /\ l # 1
    BY SizesAssumption
  <2> QED
    BY <1>1, <2>1 DEF Number
<1>3. pattern_counts'[1] = Cardinality(F)'
  BY <1>1
<1>4. \A l : LinesOf(DOMAIN out, l)' = LinesOf(DOMAIN out, l)
  BY <1>1 DEF LinesOf
<1> QED
  BY <1>1, <1>2, <1>3, <1>4 DEF NumbersInv

NumbersRight == ShortPatterns => NumbersInv

LEMMA NumbersInvariant == Spec => []NumbersRight
<1>1. Init => NumbersRight
  <2>1. ASSUME Init PROVE NumbersInv
    <3>1. out = EmptyBag /\ DOMAIN pattern_counts = {} /\ pc = "scan"
      BY <2>1 DEF Init
    <3>2. \A l : LinesOf(DOMAIN out, l) = {}
      BY <3>1 DEF EmptyBag, SetToBag, LinesOf
    <3> QED
      BY <3>1, <3>2, FS_EmptySet DEF NumbersInv, Number
  <2> QED
    BY <2>1 DEF NumbersRight
<1>2. GrowthInv /\ GrowthInv' /\ NumbersRight /\ [Next]_vars => NumbersRight'
  <2> SUFFICES ASSUME GrowthInv, GrowthInv', NumbersRight, [Next]_vars, ShortPatterns'
               PROVE  NumbersInv'
    BY DEF NumbersRight
  <2>1. UNCHANGED inputs
    BY DEF Next, vars, InsertTransaction, OutputItems, GrowSinglePath, GrowSymbol,
           GrowConditional, ReturnFromGrowth, PrintCounts
  <2>2. ShortPatterns /\ NumbersInv
    BY <2>1 DEF inputs, ShortPatterns, FrequentSets, NumbersRight
  <2>3. CASE GrowSinglePath
    BY <2>2, <2>3, SinglePathNumbers
  <2>4. CASE GrowSymbol
    BY <2>2, <2>4, SymbolNumbers
  <2>5. CASE OutputItems
    BY <2>2, <2>5, OutputNumbers
  <2>6. CASE PrintCounts
    BY <2>2, <2>6, PrintNumbers
  <2>7. ASSUME UNCHANGED <<out, pattern_counts>>, pc' # "done" \/ pc' = pc PROVE NumbersInv'
    BY <2>1, <2>2, <2>7 DEF inputs, NumbersInv, Number, LinesOf
  <2>8. CASE InsertTransaction \/ GrowConditional \/ ReturnFromGrowth \/ UNCHANGED vars
    BY <2>7, <2>8 DEF InsertTransaction, GrowConditional, ReturnFromGrowth, vars
  <2> QED
    BY <2>3, <2>4, <2>5, <2>6, <2>8 DEF Next
<1> QED
  BY <1>1, <1>2, Invariance, PTL DEF Spec

\* The frequent itemsets of each length are as many as their lines.
LEMMA LinesAtEnd ==
  ASSUME InputInv, NEW l \in Nat
  PROVE  Cardinality(LinesOf(DOMAIN Written({}), l)) = Cardinality(FrequentOfSize(db, epsilon, l))
<1> DEFINE S == FrequentOfSize(db, epsilon, l)
           o == Written({})
           N == LinesOf(DOMAIN o, l)
           line(X) == Pattern(X, Support(db, X))
           f == [X \in S |-> line(X)]
<1>1. DOMAIN o = {line(X) : X \in FrequentSets}
  <2>1. {X \in FrequentSets : Cardinality(X) = 1 \/ X \notin {}} = FrequentSets
    OBVIOUS
  <2> QED
    BY <2>1 DEF Written
<1>2. \A X : line(X).items = X
  BY PatternItems
<1>3. \A X : X \in S <=> X \in FrequentSets /\ Cardinality(X) = l
  BY DEF FrequentOfSize, FrequentSets
<1> HIDE DEF S, line, o
<1>4. IsFiniteSet(S)
  <2>1. IsFiniteSet(SUBSET Item)
    BY FiniteSets, FS_SUBSET
  <2>2. S \in SUBSET SUBSET Item
    BY DEF S, FrequentOfSize, Itemset
  <2> QED
    BY <2>1, <2>2, FS_Subset
<1>5. f \in Bijection(S, N)
  <2>1. \A X \in S : line(X) \in N
    BY <1>1, <1>2, <1>3 DEF LinesOf
  <2>2. \A y \in N : \E X \in S : line(X) = y
    BY <1>1, <1>2, <1>3 DEF LinesOf
  <2> HIDE DEF N
  <2>3. f \in [S -> N] /\ \A X \in S : f[X] = line(X)
    BY <2>1
  <2> HIDE DEF f
  <2>4. \A X, Y \in S : f[X] = f[Y] => X = Y
    BY <1>2, <2>3
  <2>5. \A y \in N : \E X \in S : f[X] = y
    BY <2>2, <2>3
  <2> QED
    BY <2>3, <2>4, <2>5 DEF Bijection, Injection, Surjection, IsInjective
<1> HIDE DEF f, N
<1>6. Cardinality(N) = Cardinality(S)
  BY <1>4, <1>5, FS_Bijection DEF ExistsBijection
<1> QED
  BY <1>6 DEF N, S, o

LEMMA SingleItems ==
  ASSUME InputInv
  PROVE  Cardinality(FrequentOfSize(db, epsilon, 1)) = Cardinality(F)
<1> DEFINE S == FrequentOfSize(db, epsilon, 1)
           f == [i \in F |-> {i}]
<1>1. F = {i \in Item : Frequent(db, epsilon, {i})}
  BY DEF InputInv
<1>2. \A i \in F : {i} \in S
  BY <1>1, FS_Singleton DEF FrequentOfSize, Itemset
<1>3. ASSUME NEW X \in S PROVE \E i \in F : {i} = X
  <2>1. X \in SUBSET Item /\ Cardinality(X) = 1 /\ Frequent(db, epsilon, X)
    BY DEF FrequentOfSize, Itemset
  <2>2. IsFiniteSet(X)
    BY <2>1, FiniteSets
  <2>3. PICK i : X = {i}
    BY <2>1, <2>2, FS_Singleton
  <2> QED
    BY <1>1, <2>1, <2>3
<1> HIDE DEF S
<1>4. f \in Bijection(F, S)
  <2>1. f \in [F -> S] /\ \A i \in F : f[i] = {i}
    BY <1>2
  <2> HIDE DEF f
  <2>2. \A i, j \in F : f[i] = f[j] => i = j
    BY <2>1
  <2>3. \A X \in S : \E i \in F : f[i] = X
    BY <1>3, <2>1
  <2> QED
    BY <2>1, <2>2, <2>3 DEF Bijection, Injection, Surjection, IsInjective
<1>5. IsFiniteSet(F)
  BY <1>1, FiniteSets, FS_Subset
<1> HIDE DEF f
<1> QED
  BY <1>4, <1>5, FS_Bijection DEF ExistsBijection, S

\* The numbers printed are those of the frequent itemsets of each length, if
\* none has more than 12 items: the factorial of 13 no longer fits an int.
THEOREM NumbersCorrect == Spec => [](ShortPatterns => NumbersExact)
<1>1. GrowthInv /\ NumbersRight => (ShortPatterns => NumbersExact)
  <2> SUFFICES ASSUME GrowthInv, NumbersInv, pc = "done" PROVE NumbersExact
    BY DEF NumbersRight, NumbersExact
  <2>1. InputInv /\ stack = << >> /\ Unfilled = 0 /\ out = Written(OwedByAll(stack, Unfilled))
    BY DEF GrowthInv, IInv, StackInv, OutInv, Unfilled
  <2>2. out = Written({})
    BY <2>1, NoCalls
  <2>3. {0, 1} \subseteq DOMAIN pattern_counts /\ pattern_counts[1] = Cardinality(F)
    BY DEF NumbersInv
  <2>4. ASSUME NEW l \in 1 .. NumItems
        PROVE  Cardinality(FrequentOfSize(db, epsilon, l)) = Number(l)
    <3>1. CASE l = 1
      BY <2>1, <2>3, <3>1, SingleItems DEF Number
    <3>2. CASE l # 1
      <4>1. l \in 2 .. NumItems /\ l \in Nat
        BY <3>2, SizesAssumption
      <4>2. Number(l) = Cardinality(LinesOf(DOMAIN out, l))
        BY <4>1 DEF NumbersInv
      <4> QED
        BY <2>1, <2>2, <4>1, <4>2, LinesAtEnd
    <3> QED
      BY <3>1, <3>2
  <2> QED
    BY <2>3, <2>4 DEF NumbersExact, Number
<1> QED
  BY <1>1, Invariance, NumbersInvariant, PTL

-----------------------------------------------------------------------------
(* The steps come to an end.                                               *)

\* What is left to do: the phases, the transactions to insert, what the calls
\* owe, the tree to fill and the calls to return from.
Phase == IF pc = "scan" THEN 2 ELSE IF pc = "done" THEN 0 ELSE 1

ToDo == <<Phase, NumTxn - tid, Cardinality(Owing), Unfilled, Len(stack)>>

LEMMA ToDoType ==
  ASSUME GrowthInv
  PROVE  /\ Phase \in Nat /\ NumTxn - tid \in Nat /\ Cardinality(Owing) \in Nat
         /\ Unfilled \in Nat /\ Len(stack) \in Nat
         /\ Owing \in SUBSET SUBSET Item
<1>1. Owing \in SUBSET SUBSET Item
  BY DEF Owing, OwedByAll, Owed, FrequentSets, Itemset
<1>2. Cardinality(Owing) \in Nat
  BY ONLY <1>1, FamilySize
<1>3. NumTxn - tid \in Nat
  BY SizesAssumption DEF GrowthInv, IInv, MainTreeInv
<1>4. Len(stack) \in Nat
  BY DEF GrowthInv
<1> QED
  BY <1>1, <1>2, <1>3, <1>4 DEF Phase, Unfilled

LEMMA ToDoFalls ==
  ASSUME GrowthInv, GrowthInv',
         \/ Phase' < Phase
         \/ Phase' = Phase /\ tid < tid'
         \/ Phase' = Phase /\ tid' = tid /\ Cardinality(Owing)' < Cardinality(Owing)
         \/ /\ Phase' = Phase /\ tid' = tid /\ Cardinality(Owing)' = Cardinality(Owing)
            /\ Unfilled' < Unfilled
         \/ /\ Phase' = Phase /\ tid' = tid /\ Cardinality(Owing)' = Cardinality(Owing)
            /\ Unfilled' = Unfilled /\ Len(stack)' < Len(stack)
  PROVE  Falls(5, ToDo, ToDo')
<1> DEFINE a == Phase
           t == tid
           b == NumTxn - t
           c == Cardinality(Owing)
           d == Unfilled
           e == Len(stack)
           a2 == Phase'
           t2 == tid'
           b2 == NumTxn - t2
           c2 == Cardinality(Owing)'
           d2 == Unfilled'
           e2 == Len(stack)'
<1>1. /\ a \in Nat /\ b \in Nat /\ c \in Nat /\ d \in Nat /\ e \in Nat
  BY ToDoType
<1>2. a2 \in Nat /\ d2 \in Nat
  BY DEF Phase, Unfilled
<1>3. e2 \in Nat
  BY DEF GrowthInv
<1>4. t \in 0 .. NumTxn /\ t2 \in 0 .. NumTxn /\ NumTxn \in Nat
  BY SizesAssumption DEF GrowthInv, IInv, MainTreeInv
<1>5. c2 \in Nat
  <2>1. Owing' \in SUBSET SUBSET Item
    BY DEF Owing, OwedByAll, Owed, FrequentSets, Itemset
  <2> QED
    BY ONLY <2>1, FamilySize
<1>6. \/ a2 < a
      \/ a2 = a /\ t < t2
      \/ a2 = a /\ t2 = t /\ c2 < c
      \/ a2 = a /\ t2 = t /\ c2 = c /\ d2 < d
      \/ a2 = a /\ t2 = t /\ c2 = c /\ d2 = d /\ e2 < e
  OBVIOUS
<1>7. ToDo = <<a, b, c, d, e>> /\ ToDo' = <<a2, b2, c2, d2, e2>>
  BY DEF ToDo
<1> HIDE DEF a, t, c, d, e, a2, t2, c2, d2, e2
<1>8. /\ b2 \in Nat
      /\ t < t2 => b2 < b
      /\ t2 = t => b2 = b
  BY ONLY <1>4
<1> HIDE DEF b, b2
<1>9. \/ a2 < a
      \/ a2 = a /\ b2 < b
      \/ a2 = a /\ b2 = b /\ c2 < c
      \/ a2 = a /\ b2 = b /\ c2 = c /\ d2 < d
      \/ a2 = a /\ b2 = b /\ c2 = c /\ d2 = d /\ e2 < e
  BY ONLY <1>6, <1>8
<1> QED
  BY <1>1, <1>2, <1>3, <1>5, <1>7, <1>8, <1>9, FallsFive

\* Each step leaves less to do, in the order of these numbers: no behaviour
\* grows trees for ever (FallsEnd), however deep the recursion.
THEOREM StepsRunOut == Spec => [][Falls(5, ToDo, ToDo')]_vars
<1>1. GrowthInv /\ GrowthInv' /\ [Next]_vars => [Falls(5, ToDo, ToDo')]_vars
  <2> SUFFICES ASSUME GrowthInv, GrowthInv', Next
               PROVE  Falls(5, ToDo, ToDo')
    OBVIOUS
  <2>1. CASE InsertTransaction
    <3>1. Phase' = Phase /\ tid < tid'
      BY <2>1, SizesAssumption DEF InsertTransaction, Phase, GrowthInv, IInv, MainTreeInv
    <3> QED
      BY <3>1, ToDoFalls
  <2>2. CASE OutputItems
    <3>1. Phase' < Phase
      BY <2>2 DEF OutputItems, Phase
    <3> QED
      BY <3>1, ToDoFalls
  <2>3. CASE PrintCounts
    <3>1. Phase' < Phase
      BY <2>3 DEF PrintCounts, Phase
    <3> QED
      BY <3>1, ToDoFalls
  <2>4. Owing \in SUBSET SUBSET Item
    BY ToDoType
  <2>5. CASE GrowSymbol
    <3>1. Owing' \in SUBSET Owing /\ Owing' # Owing
      BY <2>5, SymbolStep
    <3>2. Cardinality(Owing)' < Cardinality(Owing)
      BY ONLY <2>4, <3>1, FamilySize
    <3>3. Phase' = Phase /\ tid' = tid
      BY <2>5 DEF GrowSymbol, Phase
    <3> QED
      BY <3>2, <3>3, ToDoFalls
  <2>6. CASE GrowConditional
    <3>1. Cardinality(Owing)' = Cardinality(Owing)
      BY <2>6, ConditionalStep
    <3>2. Phase' = Phase /\ tid' = tid /\ Unfilled' < Unfilled
      BY <2>6 DEF GrowConditional, Phase, Unfilled
    <3> QED
      BY <3>1, <3>2, ToDoFalls
  <2>7. ASSUME pc = "grow", stack # << >>, stack' = Tail(stack), UNCHANGED <<tid, pc>>,
               Owing' \in SUBSET Owing
        PROVE  Falls(5, ToDo, ToDo')
    <3>1. Phase' = Phase /\ tid' = tid /\ Unfilled' = Unfilled
      BY <2>7 DEF Phase, Unfilled
    <3>2. Len(stack)' < Len(stack)
      <4>1. stack \in Seq(Frame)
        BY DEF GrowthInv
      <4> QED
        BY <2>7, <4>1
    <3>3. Cardinality(Owing)' <= Cardinality(Owing) /\ Cardinality(Owing)' \in Nat
      BY ONLY <2>4, <2>7, FamilySize
    <3>4. CASE Cardinality(Owing)' = Cardinality(Owing)
      BY <3>1, <3>2, <3>4, ToDoFalls
    <3>5. CASE Cardinality(Owing)' # Cardinality(Owing)
      <4>1. Cardinality(Owing)' < Cardinality(Owing)
        BY <3>3, <3>5, ToDoType
      <4> QED
        BY <3>1, <4>1, ToDoFalls
    <3> QED
      BY <3>4, <3>5
  <2>8. CASE GrowSinglePath
    <3>1. Owing' \in SUBSET Owing
      BY <2>8, SinglePathStep
    <3> QED
      BY <2>7, <2>8, <3>1 DEF GrowSinglePath
  <2>9. CASE ReturnFromGrowth
    <3>1. Owing' \in SUBSET Owing
      BY <2>9, ReturnStep
    <3> QED
      BY <2>7, <2>9, <3>1 DEF ReturnFromGrowth
  <2> QED
    BY <2>1, <2>2, <2>3, <2>5, <2>6, <2>8, <2>9 DEF Next
<1> QED
  BY <1>1, Invariance, PTL DEF Spec
=============================================================================
