--------------------------- MODULE ItemsetsProofs ---------------------------
(***************************************************************************)
(* What every miner relies on: supports are antitone, greater_freq is a    *)
(* strict total order, so every itemset has one last item, and an itemset  *)
(* has subsets of every smaller size.  Induction over finite sets is used  *)
(* in the form of a smallest counterexample.  At the end: what falls with  *)
(* every step, as vectors of numbers do in the order of the dictionary,    *)
(* takes finitely many steps.                                              *)
(***************************************************************************)
EXTENDS Itemsets, SequencesExt, FiniteSetTheorems, SequenceTheorems, TLAPS

\* Items, transactions and the sets of either are finite.
LEMMA FiniteSets ==
  /\ IsFiniteSet(Item)
  /\ IsFiniteSet(Tid)
  /\ \A X \in SUBSET Item : IsFiniteSet(X) /\ Cardinality(X) \in Nat
  /\ \A T \in SUBSET Tid : IsFiniteSet(T) /\ Cardinality(T) \in Nat
<1>1. IsFiniteSet(Item) /\ IsFiniteSet(Tid)
  BY SizesAssumption, FS_Interval DEF Item, Tid
<1>2. ASSUME NEW S, IsFiniteSet(S), NEW X \in SUBSET S
      PROVE  IsFiniteSet(X) /\ Cardinality(X) \in Nat
  BY <1>2, FS_Subset, FS_CardinalityType
<1> QED
  BY <1>1, <1>2

\* The support of an itemset is a natural number.
LEMMA SupportType ==
  ASSUME NEW db, NEW X
  PROVE  Support(db, X) \in Nat
  BY FiniteSets DEF Support, Tidset

\* A superset occurs in no more transactions (the ground of check_supports).
LEMMA SupportAntitone ==
  ASSUME NEW db, NEW X, NEW Y, X \subseteq Y
  PROVE  Support(db, Y) <= Support(db, X)
<1>1. Tidset(db, Y) \subseteq Tidset(db, X)
  BY DEF Tidset
<1>2. IsFiniteSet(Tidset(db, X))
  BY FiniteSets DEF Tidset
<1> QED
  BY <1>1, <1>2, FS_Subset DEF Support

\* Intersecting two tidlists gives the tidlist of the union.
LEMMA TidsetUnion ==
  ASSUME NEW db, NEW X, NEW Y
  PROVE  Tidset(db, X \cup Y) = Tidset(db, X) \cap Tidset(db, Y)
  BY DEF Tidset

\* greater_freq is a strict total order on the items.
LEMMA GreaterFreqOrder ==
  ASSUME NEW db
  PROVE  /\ \A i \in Item : ~ GreaterFreq(db, i, i)
         /\ \A i, j \in Item :
              i # j => GreaterFreq(db, i, j) \/ GreaterFreq(db, j, i)
         /\ \A i, j, l \in Item :
              GreaterFreq(db, i, j) /\ GreaterFreq(db, j, l)
                => GreaterFreq(db, i, l)
<1>1. \A i \in Item : Count(db, i) \in Nat /\ i \in Int
  BY SizesAssumption, SupportType DEF Count, Item
<1> QED
  BY <1>1 DEF GreaterFreq

\* A nonempty itemset has a last item.
LEMMA LastExists ==
  ASSUME NEW db, NEW X \in Itemset
  PROVE  \E a \in X : IsLast(db, a, X)
<1> DEFINE Bad == {Y \in SUBSET X : Y # {} /\ ~ \E a \in Y : IsLast(db, a, Y)}
           R == StrictSubsetOrdering(X)
           S == FiniteSubsetsOf(X)
<1>1. IsFiniteSet(X) /\ X \subseteq Item /\ X # {}
  BY FiniteSets DEF Itemset
<1>2. Bad \subseteq S
  BY <1>1, FS_Subset DEF FiniteSubsetsOf
<1>3. SUFFICES ASSUME Bad # {} PROVE FALSE
  BY <1>1
<1>4. PICK Y \in Bad : \A Z \in Bad : ~ (<<Z, Y>> \in R)
  <2>1. IsWellFoundedOn(R, S)
    BY FS_StrictSubsetOrderingWellFounded
  <2> HIDE DEF Bad, R, S
  <2> QED
    BY <1>2, <1>3, <2>1, WFMin
<1>5. PICK i \in Y : TRUE
  OBVIOUS
<1>6. Y \ {i} \notin Bad
  BY <1>4, <1>5 DEF StrictSubsetOrdering
<1>7. CASE Y \ {i} = {}
  BY <1>5, <1>7 DEF IsLast
<1>8. CASE Y \ {i} # {}
  <2>1. PICK a \in Y \ {i} : IsLast(db, a, Y \ {i})
    BY <1>6, <1>8
  <2>2. a \in Item /\ i \in Item /\ a # i
    BY <1>1, <2>1
  <2>3. CASE GreaterFreq(db, i, a)
    BY <2>1, <2>3 DEF IsLast
  <2>4. CASE GreaterFreq(db, a, i)
    <3>1. IsLast(db, i, Y)
      BY <1>1, <2>1, <2>2, <2>4, GreaterFreqOrder DEF IsLast
    <3> QED
      BY <3>1
  <2> QED
    BY <2>2, <2>3, <2>4, GreaterFreqOrder
<1> QED
  BY <1>7, <1>8

\* It has only one.
LEMMA LastUnique ==
  ASSUME NEW db, NEW X \in SUBSET Item, NEW a, NEW b,
         IsLast(db, a, X), IsLast(db, b, X)
  PROVE  a = b
  BY GreaterFreqOrder DEF IsLast

\* An itemset has a subset of every size up to its own.
LEMMA SubsetOfSize ==
  ASSUME NEW X \in SUBSET Item, NEW m \in Nat, m <= Cardinality(X)
  PROVE  \E Y \in SUBSET X : Cardinality(Y) = m
<1> DEFINE Large == {Y \in SUBSET X : Cardinality(Y) >= m}
           R == StrictSubsetOrdering(X)
           S == FiniteSubsetsOf(X)
<1>1. IsFiniteSet(X) /\ X \in Large
  BY FiniteSets
<1>2. Large \subseteq S
  BY <1>1, FS_Subset DEF FiniteSubsetsOf
<1>3. PICK Y \in Large : \A Z \in Large : ~ (<<Z, Y>> \in R)
  <2>1. IsWellFoundedOn(R, S)
    BY FS_StrictSubsetOrderingWellFounded
  <2> HIDE DEF Large, R, S
  <2> QED
    BY <1>1, <1>2, <2>1, WFMin
<1>4. IsFiniteSet(Y) /\ Cardinality(Y) \in Nat
  BY FiniteSets
<1>5. ASSUME Cardinality(Y) # m PROVE FALSE
  <2>1. Y # {}
    BY <1>5, <1>4, FS_EmptySet
  <2>2. PICK i \in Y : TRUE
    BY <2>1
  <2>3. Cardinality(Y \ {i}) = Cardinality(Y) - 1
    BY <1>4, <2>2, FS_RemoveElement
  <2>4. Y \ {i} \in Large
    BY <1>4, <1>5, <2>3
  <2>5. <<Y \ {i}, Y>> \in R
    BY <2>2 DEF StrictSubsetOrdering
  <2> QED
    BY <1>3, <2>4, <2>5
<1> QED
  BY <1>5
\* The size of an itemset.
LEMMA ItemsetSize ==
  ASSUME NEW X \in Itemset
  PROVE  /\ X \in SUBSET Item
         /\ IsFiniteSet(X)
         /\ Cardinality(X) \in Nat \ {0}
         /\ Cardinality(X) <= NumItems
<1>1. X \in SUBSET Item /\ X # {}
  BY DEF Itemset
<1>2. IsFiniteSet(X) /\ Cardinality(X) \in Nat /\ IsFiniteSet(Item)
  BY <1>1, FiniteSets
<1>3. Cardinality(X) # 0
  BY <1>1, <1>2, FS_EmptySet
<1>4. Cardinality(X) <= Cardinality(Item)
  BY <1>1, <1>2, FS_Subset
<1>5. Cardinality(Item) = NumItems
  BY SizesAssumption, FS_Interval DEF Item
<1> QED
  BY <1>1, <1>2, <1>3, <1>4, <1>5

-----------------------------------------------------------------------------
(* Facts about siblings: what the candidate walk joins. *)

\* Siblings have one size and join to an itemset of one item more, the one
\* discover() builds by merging the last item of y into x.
LEMMA SiblingsJoin ==
  ASSUME NEW db, NEW x \in Itemset, NEW y \in Itemset, Siblings(db, x, y)
  PROVE  /\ Siblings(db, y, x)
         /\ LastItem(db, y) \in y
         /\ \A i \in y : i \in x \/ i = LastItem(db, y)
         /\ x \cup y \in Itemset
         /\ x # y
         /\ Cardinality(y) = Cardinality(x)
         /\ Cardinality(x \cup y) = Cardinality(x) + 1
<1>1. PICK a \in x, b \in y :
        a # b /\ x \ {a} = y \ {b} /\ IsLast(db, a, x) /\ IsLast(db, b, y)
  BY DEF Siblings
<1>2. x \in SUBSET Item /\ y \in SUBSET Item /\ x \cup y \in Itemset
  BY DEF Itemset
<1>3. LastItem(db, y) = b
  <2>1. IsLast(db, LastItem(db, y), y)
    BY <1>1 DEF LastItem
  <2> QED
    BY <1>1, <1>2, <2>1, LastUnique
<1>4. b \notin x /\ x \cup y = x \cup {b}
  BY <1>1
<1>5. /\ IsFiniteSet(x)
      /\ IsFiniteSet(y)
      /\ Cardinality(x) \in Nat
      /\ Cardinality(y) \in Nat
  BY <1>2, FiniteSets
<1>6. Cardinality(x \cup {b}) = Cardinality(x) + 1
  BY <1>4, <1>5, FS_AddElement
<1>7. /\ Cardinality(x \ {a}) = Cardinality(x) - 1
      /\ Cardinality(y \ {b}) = Cardinality(y) - 1
  BY <1>1, <1>5, FS_RemoveElement
<1>8. Cardinality(x) = Cardinality(y)
  BY <1>1, <1>5, <1>7
<1>9. Siblings(db, y, x)
  BY <1>1 DEF Siblings
<1>10. b \in y /\ (\A i \in y : i \in x \/ i = b) /\ x # y
  BY <1>1, <1>4
<1>11. x \cup y \in Itemset /\ Cardinality(x \cup y) = Cardinality(x) + 1
  BY <1>2, <1>4, <1>6
<1> QED
  BY <1>3, <1>8, <1>9, <1>10, <1>11

\* A candidate has one pair of siblings: its subsets without the last and
\* without the last but one item.  So each candidate is generated once.
LEMMA CandidateUnique ==
  ASSUME NEW db, NEW x \in Itemset, NEW y \in Itemset, Siblings(db, x, y),
         NEW u \in Itemset, NEW v \in Itemset, Siblings(db, u, v),
         x \cup y = u \cup v
  PROVE  (u = x /\ v = y) \/ (u = y /\ v = x)
<1>1. PICK a \in x, b \in y :
        a # b /\ x \ {a} = y \ {b} /\ IsLast(db, a, x) /\ IsLast(db, b, y)
  BY DEF Siblings
<1>2. PICK c \in u, d \in v :
        c # d /\ u \ {c} = v \ {d} /\ IsLast(db, c, u) /\ IsLast(db, d, v)
  BY DEF Siblings
<1> DEFINE P == x \ {a}
           Q == u \ {c}
<1>3. /\ x = P \cup {a} /\ y = P \cup {b} /\ a \notin P /\ b \notin P
      /\ u = Q \cup {c} /\ v = Q \cup {d} /\ c \notin Q /\ d \notin Q
  BY <1>1, <1>2
<1>4. /\ \A p \in P : GreaterFreq(db, p, a) /\ GreaterFreq(db, p, b)
      /\ \A q \in Q : GreaterFreq(db, q, c) /\ GreaterFreq(db, q, d)
  BY <1>1, <1>2 DEF IsLast
<1>5. {a, b, c, d} \subseteq Item /\ P \subseteq Item /\ Q \subseteq Item
  BY <1>1, <1>2 DEF Itemset
<1> HIDE DEF P, Q
<1>6. \A p \in P : \A q \in {a, b} : p # q /\ ~ GreaterFreq(db, q, p)
  BY <1>3, <1>4, <1>5, GreaterFreqOrder
<1>7. \A q \in Q : \A p \in {c, d} : p # q /\ ~ GreaterFreq(db, p, q)
  BY <1>3, <1>4, <1>5, GreaterFreqOrder
<1>8. P \cup {a, b} = Q \cup {c, d}
  BY <1>3
<1>9. a \notin Q /\ b \notin Q
  <2>1. ASSUME NEW e \in {a, b}, e \in Q PROVE FALSE
    <3>1. GreaterFreq(db, e, c) /\ GreaterFreq(db, e, d)
      BY <1>4, <2>1
    <3>2. c \notin P /\ d \notin P
      BY <1>6, <2>1, <3>1
    <3>3. c \in {a, b} /\ d \in {a, b} /\ e # c /\ e # d
      BY <1>7, <1>8, <2>1, <3>2
    <3> QED
      BY <1>2, <2>1, <3>3
  <2> QED
    BY <2>1
<1>10. {a, b} = {c, d}
  BY <1>1, <1>2, <1>8, <1>9
<1>11. P = Q
  BY <1>3, <1>8, <1>9, <1>10
<1> QED
  BY <1>1, <1>2, <1>3, <1>10, <1>11

\* One pair of siblings has a given union.
LEMMA PairUnique ==
  ASSUME NEW db, NEW S \in SUBSET Itemset, NEW p \in SiblingPairs(db, S), NEW T \in SUBSET Itemset,
         NEW q \in SiblingPairs(db, T), UNION p = UNION q
  PROVE  p = q
<1>1. PICK x, y \in p : p = {x, y} /\ Siblings(db, x, y)
  BY DEF SiblingPairs
<1>2. PICK u, v \in q : q = {u, v} /\ Siblings(db, u, v)
  BY DEF SiblingPairs
<1>3. x \in Itemset /\ y \in Itemset /\ u \in Itemset /\ v \in Itemset
  BY DEF SiblingPairs
<1>4. x \cup y = u \cup v
  BY <1>1, <1>2
<1>5. (u = x /\ v = y) \/ (u = y /\ v = x)
  BY <1>1, <1>2, <1>3, <1>4, CandidateUnique
<1> QED
  BY <1>1, <1>2, <1>5

\* An itemset of two items or more without its last and without its last but
\* one item: two siblings.
LEMMA LastTwo ==
  ASSUME NEW db, NEW X \in Itemset, Cardinality(X) >= 2
  PROVE  \E a, b \in X :
           /\ a # b
           /\ X \ {a} \in Itemset /\ Cardinality(X \ {a}) = Cardinality(X) - 1
           /\ X \ {b} \in Itemset /\ Cardinality(X \ {b}) = Cardinality(X) - 1
           /\ Siblings(db, X \ {a}, X \ {b})
<1>1. X \in SUBSET Item /\ IsFiniteSet(X) /\ Cardinality(X) \in Nat
  BY FiniteSets DEF Itemset
<1>2. PICK a \in X : IsLast(db, a, X)
  BY LastExists
<1>3. Cardinality(X \ {a}) = Cardinality(X) - 1 /\ IsFiniteSet(X \ {a})
  BY <1>1, <1>2, FS_RemoveElement
<1>4. X \ {a} \in Itemset
  <2>1. X \ {a} # {}
    BY <1>1, <1>3, FS_EmptySet
  <2> QED
    BY <1>1, <2>1 DEF Itemset
<1>5. PICK b \in X \ {a} : IsLast(db, b, X \ {a})
  BY <1>4, LastExists
<1>6. Cardinality(X \ {b}) = Cardinality(X) - 1
  BY <1>1, <1>5, FS_RemoveElement
<1>7. X \ {b} \in Itemset
  BY <1>1, <1>2, <1>5 DEF Itemset
<1>8. IsLast(db, a, X \ {b})
  BY <1>2, <1>5 DEF IsLast
<1>9. Siblings(db, X \ {a}, X \ {b})
  <2>1. (X \ {a}) \ {b} = (X \ {b}) \ {a}
    OBVIOUS
  <2> QED
    BY <1>2, <1>5, <1>8, <2>1 DEF Siblings
<1> QED
  BY <1>3, <1>4, <1>5, <1>6, <1>7, <1>9

\* Every itemset of two items or more is the join of two siblings.
LEMMA JoinCovers ==
  ASSUME NEW db, NEW X \in Itemset, Cardinality(X) >= 2
  PROVE  \E x, y \in Itemset :
           /\ Siblings(db, x, y)
           /\ x \cup y = X
           /\ Cardinality(x) = Cardinality(X) - 1
           /\ Cardinality(y) = Cardinality(X) - 1
<1>1. PICK a, b \in X :
        /\ a # b
        /\ X \ {a} \in Itemset /\ Cardinality(X \ {a}) = Cardinality(X) - 1
        /\ X \ {b} \in Itemset /\ Cardinality(X \ {b}) = Cardinality(X) - 1
        /\ Siblings(db, X \ {a}, X \ {b})
  BY LastTwo
<1>2. (X \ {a}) \cup (X \ {b}) = X
  BY <1>1
<1> QED
  BY <1>1, <1>2

\* The subsets with one item less of a frequent itemset are frequent.
LEMMA FrequentSubsets ==
  ASSUME NEW d, NEW s, NEW n \in Nat \ {0},
         NEW X \in FrequentOfSize(d, s, n + 1), NEW i \in X, s \in Nat
  PROVE  X \ {i} \in FrequentOfSize(d, s, n)
<1>1. /\ X \in Itemset /\ X \in SUBSET Item
      /\ Cardinality(X) = n + 1 /\ Support(d, X) >= s
  BY DEF FrequentOfSize, Frequent, Itemset
<1>2. IsFiniteSet(X)
  BY <1>1, FiniteSets
<1>3. Cardinality(X \ {i}) = n /\ IsFiniteSet(X \ {i})
  BY <1>1, <1>2, FS_RemoveElement
<1>4. X \ {i} # {}
  BY <1>3, FS_EmptySet
<1>5. Support(d, X \ {i}) >= s
  BY <1>1, SupportAntitone, SupportType
<1> QED
  BY <1>1, <1>3, <1>4, <1>5 DEF FrequentOfSize, Frequent, Itemset

\* LastItem yields an item of the sibling.
LEMMA LastItemType ==
  ASSUME NEW db, NEW y \in Itemset
  PROVE  LastItem(db, y) \in y /\ LastItem(db, y) \in Item
<1>1. IsLast(db, LastItem(db, y), y)
  BY LastExists DEF LastItem
<1> QED
  BY <1>1 DEF IsLast, Itemset

-----------------------------------------------------------------------------
(* Induction over data: along an interval, with the set of the numbers     *)
(* that have a property in place of the property.                          *)

\* A nonempty set of naturals has a least element.
LEMMA LeastNatural ==
  ASSUME NEW S \in SUBSET Nat, S # {}
  PROVE  \E m \in S : \A n \in S : m <= n
<1> DEFINE R == {p \in Nat \X Nat : p[1] < p[2]}
<1>1. IsWellFoundedOn(R, Nat)
  <2>1. OpToRel(<, Nat) = R
    BY DEF OpToRel
  <2> QED
    BY <2>1, NatLessThanWellFounded
<1>2. \A x, y \in Nat : <<x, y>> \in R <=> x < y
  OBVIOUS
<1> HIDE DEF R
<1>3. PICK m \in S : \A n \in S : ~ (<<n, m>> \in R)
  BY <1>1, WFMin
<1>4. ASSUME NEW n \in S PROVE m <= n
  <2>1. m \in Nat /\ n \in Nat /\ ~ n < m
    BY <1>2, <1>3
  <2> QED
    BY <2>1
<1> QED
  BY <1>4

\* Induction along an interval, for a set instead of a predicate.
LEMMA IntervalInduction ==
  ASSUME NEW a \in Nat, NEW n \in Nat, NEW T,
         a \in T, \A i \in a .. n - 1 : i \in T => i + 1 \in T
  PROVE  \A i \in a .. n : i \in T
<1> DEFINE S == (a .. n) \ T
<1>1. SUFFICES ASSUME S # {} PROVE FALSE
  OBVIOUS
<1>2. S \in SUBSET Nat
  OBVIOUS
<1>3. PICK m \in S : \A i \in S : m <= i
  <2> HIDE DEF S
  <2> QED
    BY <1>1, <1>2, LeastNatural
<1>4. m - 1 \in a .. n - 1
  BY <1>3
<1>5. m - 1 \in T /\ (m - 1) + 1 = m
  BY <1>3, <1>4
<1> QED
  BY <1>3, <1>4, <1>5

\* What a recursion along an interval defines exists.
Follows(f, n, v, G) ==
  f[0] = v /\ \A i \in 1 .. n : f[i] = G[<<i, f[i - 1]>>]

LEMMA RecursionExists ==
  ASSUME NEW n \in Nat, NEW V, NEW v \in V,
         NEW G \in [(0 .. n) \X V -> V]
  PROVE  \E f \in [0 .. n -> V] : Follows(f, n, v, G)
<1> DEFINE Up(m, f) == Follows(f, m, v, G)
           T == {m \in 0 .. n : \E f \in [0 .. m -> V] : Up(m, f)}
<1>1. 0 \in T
  <2> DEFINE f == [i \in 0 .. 0 |-> v]
  <2>1. f \in [0 .. 0 -> V] /\ f[0] = v
    OBVIOUS
  <2>2. \A i \in 1 .. 0 : FALSE
    OBVIOUS
  <2> HIDE DEF f
  <2>3. Up(0, f)
    BY <2>1, <2>2 DEF Follows
  <2> QED
    BY <2>1, <2>3
<1>2. ASSUME NEW m \in 0 .. n - 1, m \in T PROVE m + 1 \in T
  <2>1. PICK f \in [0 .. m -> V] : Up(m, f)
    BY <1>2
  <2> DEFINE w == G[<<m + 1, f[m]>>]
             g == [i \in 0 .. m + 1 |-> IF i = m + 1 THEN w ELSE f[i]]
  <2>2. f[m] \in V /\ <<m + 1, f[m]>> \in (0 .. n) \X V /\ w \in V
    OBVIOUS
  <2> HIDE DEF w
  <2>3. g \in [0 .. m + 1 -> V]
    BY <2>2
  <2>4. g[0] = v
    BY <2>1 DEF Follows
  <2>5. ASSUME NEW i \in 1 .. m + 1 PROVE g[i] = G[<<i, g[i - 1]>>]
    <3>1. i - 1 \in 0 .. m /\ g[i - 1] = f[i - 1]
      OBVIOUS
    <3>2. CASE i = m + 1
      <4>1. i - 1 = m /\ g[i] = w
        BY <3>2
      <4> QED
        BY <3>1, <3>2, <4>1 DEF w
    <3>3. CASE i # m + 1
      <4>1. i \in 1 .. m /\ g[i] = f[i]
        BY <3>3
      <4> QED
        BY <2>1, <3>1, <4>1 DEF Follows
    <3> QED
      BY <3>2, <3>3
  <2>6. Up(m + 1, g) /\ m + 1 \in 0 .. n
    <3> HIDE DEF g
    <3> QED
      BY <2>4, <2>5 DEF Follows
  <2> QED
    BY <2>3, <2>6
<1> HIDE DEF Up
<1>3. \A i \in 0 .. n : i \in T
  <2> HIDE DEF T
  <2> QED
    BY <1>1, <1>2, 0 \in Nat, IntervalInduction
<1>4. n \in T
  BY <1>3
<1> QED
  BY <1>4 DEF Up

-----------------------------------------------------------------------------
(* Vectors of numbers in the order of the dictionary: what falls in it with *)
(* each step takes finitely many steps.                                    *)

Falls(n, v, w) ==
  /\ v \in [1 .. n -> Nat] /\ w \in [1 .. n -> Nat]
  /\ \E i \in 1 .. n : w[i] < v[i] /\ \A j \in 1 .. i - 1 : w[j] = v[j]

\* From some time on the first entries stay: each in turn can only fall, and
\* falls to its least value.  When all stay, the next step does not fall.
THEOREM FallsEnd ==
  ASSUME NEW n \in Nat, NEW f, \A t \in Nat : Falls(n, f[t], f[t + 1])
  PROVE  FALSE
<1> DEFINE Stays(i, T) == \A t \in Nat : t >= T => \A j \in 1 .. i : f[t][j] = f[T][j]
           S == {i \in 0 .. n : \E T \in Nat : Stays(i, T)}
<1>1. \A t \in Nat : f[t] \in [1 .. n -> Nat]
  <2> TAKE t \in Nat
  <2>1. Falls(n, f[t], f[t + 1])
    OBVIOUS
  <2>2. f[t] \in [1 .. n -> Nat]
    BY ONLY <2>1 DEF Falls
  <2> QED
    BY ONLY <2>2
<1>2. 0 \in S
  <2>1. Stays(0, 0) /\ 0 \in Nat
    OBVIOUS
  <2> HIDE DEF Stays
  <2> QED
    BY <2>1
<1>3. ASSUME NEW i \in 0 .. n - 1, i \in S PROVE i + 1 \in S
  <2>1. PICK T \in Nat : Stays(i, T)
    BY <1>3
  <2> DEFINE e == i + 1
             V == {f[t][e] : t \in {t \in Nat : t >= T}}
  <2>2. e \in 1 .. n /\ e \in 0 .. n
    OBVIOUS
  <2>3. ASSUME NEW t \in Nat, t >= T PROVE f[t + 1][e] <= f[t][e]
    <3>1. PICK d \in 1 .. n : /\ f[t + 1][d] < f[t][d]
                              /\ \A j \in 1 .. d - 1 : f[t + 1][j] = f[t][j]
      BY DEF Falls
    <3>2. d \notin 1 .. i
      <4>1. SUFFICES ASSUME d \in 1 .. i PROVE FALSE
        OBVIOUS
      <4>2. t + 1 \in Nat /\ t + 1 >= T
        BY <2>3
      <4>3. f[t][d] = f[T][d] /\ f[t + 1][d] = f[T][d]
        BY <2>1, <2>3, <4>1, <4>2
      <4>4. f[t][d] \in Nat
        BY <1>1
      <4> QED
        BY <3>1, <4>3, <4>4
    <3>3. f[t][e] \in Nat /\ f[t + 1][e] \in Nat
      <4>1. t + 1 \in Nat
        BY ONLY t \in Nat
      <4> QED
        BY ONLY <1>1, <2>2, <4>1, t \in Nat
    <3>4. CASE d = e
      BY <3>1, <3>3, <3>4
    <3>5. CASE d # e
      <4>1. e \in 1 .. d - 1
        BY <2>2, <3>2, <3>5
      <4> QED
        BY <3>1, <3>3, <4>1
    <3> QED
      BY <3>4, <3>5
  <2>4. V \in SUBSET Nat /\ V # {}
    <3>1. \A t \in Nat : f[t][e] \in Nat
      BY <1>1, <2>2
    <3>2. f[T][e] \in V
      OBVIOUS
    <3> QED
      BY <3>1, <3>2
  <2>5. PICK m \in V : \A x \in V : m <= x
    <3> HIDE DEF V
    <3> QED
      BY <2>4, LeastNatural
  <2>6. PICK U \in Nat : U >= T /\ m = f[U][e]
    OBVIOUS
  <2> HIDE DEF e
  <2>7. ASSUME NEW t \in Nat, t >= U PROVE f[t][e] = m
    <3> DEFINE W == {u \in U .. t : f[u][e] = m}
    <3>1. U \in W
      BY <2>6, <2>7
    <3>2. ASSUME NEW u \in U .. t - 1, u \in W PROVE u + 1 \in W
      <4>1. u \in Nat /\ u >= T /\ u + 1 \in Nat /\ u + 1 >= T /\ u + 1 \in U .. t
        BY <2>6
      <4>2. f[u + 1][e] <= m
        BY <2>3, <3>2, <4>1
      <4>3. m <= f[u + 1][e]
        BY <2>5, <4>1
      <4>4. m \in Nat /\ f[u + 1][e] \in Nat
        BY <2>4, <4>1
      <4> QED
        BY <4>1, <4>2, <4>3, <4>4
    <3> HIDE DEF W
    <3>3. \A u \in U .. t : u \in W
      BY <3>1, <3>2, IntervalInduction
    <3>4. t \in U .. t
      BY <2>7
    <3> QED
      BY <3>3, <3>4 DEF W
  <2>8. Stays(e, U)
    <3>1. ASSUME NEW t \in Nat, t >= U, NEW j \in 1 .. e PROVE f[t][j] = f[U][j]
      <4>1. CASE j = e
        BY <2>6, <2>7, <3>1, <4>1
      <4>2. CASE j # e
        <5>1. j \in 1 .. i /\ t >= T
          BY <2>6, <3>1, <4>2 DEF e
        <5> QED
          BY <2>1, <2>6, <3>1, <5>1
      <4> QED
        BY <4>1, <4>2
    <3> QED
      BY <3>1
  <2> HIDE DEF Stays
  <2> QED
    BY <2>2, <2>8 DEF e
<1>4. n \in S
  <2> HIDE DEF S
  <2>1. \A i \in 0 .. n : i \in S
    BY <1>2, <1>3, 0 \in Nat, IntervalInduction
  <2> QED
    BY <2>1
<1>5. PICK T \in Nat : Stays(n, T)
  BY <1>4
<1>6. PICK d \in 1 .. n : f[T + 1][d] < f[T][d]
  BY DEF Falls
<1>7. f[T + 1][d] = f[T][d] /\ f[T][d] \in Nat
  <2>1. T + 1 \in Nat /\ T + 1 >= T
    OBVIOUS
  <2> QED
    BY <1>1, <1>5, <2>1
<1> QED
  BY <1>6, <1>7

\* What makes vectors of five numbers fall.
LEMMA FallsFive ==
  ASSUME NEW a \in Nat, NEW b \in Nat, NEW c \in Nat, NEW d \in Nat, NEW e \in Nat,
         NEW a2 \in Nat, NEW b2 \in Nat, NEW c2 \in Nat, NEW d2 \in Nat, NEW e2 \in Nat,
         \/ a2 < a
         \/ a2 = a /\ b2 < b
         \/ a2 = a /\ b2 = b /\ c2 < c
         \/ a2 = a /\ b2 = b /\ c2 = c /\ d2 < d
         \/ a2 = a /\ b2 = b /\ c2 = c /\ d2 = d /\ e2 < e
  PROVE  Falls(5, <<a, b, c, d, e>>, <<a2, b2, c2, d2, e2>>)
<1> DEFINE v == <<a, b, c, d, e>>
           w == <<a2, b2, c2, d2, e2>>
<1>1. v \in [1 .. 5 -> Nat] /\ w \in [1 .. 5 -> Nat]
  OBVIOUS
<1>2. /\ v[1] = a /\ v[2] = b /\ v[3] = c /\ v[4] = d /\ v[5] = e
      /\ w[1] = a2 /\ w[2] = b2 /\ w[3] = c2 /\ w[4] = d2 /\ w[5] = e2
  OBVIOUS
<1> HIDE DEF v, w
<1>3. \E i \in 1 .. 5 : w[i] < v[i] /\ \A j \in 1 .. i - 1 : w[j] = v[j]
  <2>1. CASE a2 < a
    <3>1. \A j \in 1 .. 1 - 1 : w[j] = v[j]
      OBVIOUS
    <3> QED
      BY <1>2, <2>1, <3>1
  <2>2. CASE a2 = a /\ b2 < b
    <3>1. \A j \in 1 .. 2 - 1 : w[j] = v[j]
      BY <1>2, <2>2
    <3> QED
      BY <1>2, <2>2, <3>1
  <2>3. CASE a2 = a /\ b2 = b /\ c2 < c
    <3>1. \A j \in 1 .. 3 - 1 : w[j] = v[j]
      BY <1>2, <2>3
    <3> QED
      BY <1>2, <2>3, <3>1
  <2>4. CASE a2 = a /\ b2 = b /\ c2 = c /\ d2 < d
    <3>1. \A j \in 1 .. 4 - 1 : w[j] = v[j]
      BY <1>2, <2>4
    <3> QED
      BY <1>2, <2>4, <3>1
  <2>5. CASE a2 = a /\ b2 = b /\ c2 = c /\ d2 = d /\ e2 < e
    <3>1. \A j \in 1 .. 5 - 1 : w[j] = v[j]
      BY <1>2, <2>5
    <3> QED
      BY <1>2, <2>5, <3>1
  <2> QED
    BY <2>1, <2>2, <2>3, <2>4, <2>5
<1> QED
  BY <1>1, <1>3 DEF Falls, v, w

\* The same for two numbers, and for three.
LEMMA FallsTwo ==
  ASSUME NEW a \in Nat, NEW b \in Nat, NEW a2 \in Nat, NEW b2 \in Nat,
         a2 < a \/ (a2 = a /\ b2 < b)
  PROVE  Falls(2, <<a, b>>, <<a2, b2>>)
<1> DEFINE v == <<a, b>>
           w == <<a2, b2>>
<1>1. v \in [1 .. 2 -> Nat] /\ w \in [1 .. 2 -> Nat]
  OBVIOUS
<1>2. v[1] = a /\ v[2] = b /\ w[1] = a2 /\ w[2] = b2
  OBVIOUS
<1> HIDE DEF v, w
<1>3. \E i \in 1 .. 2 : w[i] < v[i] /\ \A j \in 1 .. i - 1 : w[j] = v[j]
  <2>1. CASE a2 < a
    <3>1. \A j \in 1 .. 1 - 1 : w[j] = v[j]
      OBVIOUS
    <3> QED
      BY <1>2, <2>1, <3>1
  <2>2. CASE a2 = a /\ b2 < b
    <3>1. \A j \in 1 .. 2 - 1 : w[j] = v[j]
      BY <1>2, <2>2
    <3> QED
      BY <1>2, <2>2, <3>1
  <2> QED
    BY <2>1, <2>2
<1> QED
  BY <1>1, <1>3 DEF Falls, v, w

LEMMA FallsThree ==
  ASSUME NEW a \in Nat, NEW b \in Nat, NEW c \in Nat,
         NEW a2 \in Nat, NEW b2 \in Nat, NEW c2 \in Nat,
         \/ a2 < a
         \/ a2 = a /\ b2 < b
         \/ a2 = a /\ b2 = b /\ c2 < c
  PROVE  Falls(3, <<a, b, c>>, <<a2, b2, c2>>)
<1> DEFINE v == <<a, b, c>>
           w == <<a2, b2, c2>>
<1>1. v \in [1 .. 3 -> Nat] /\ w \in [1 .. 3 -> Nat]
  OBVIOUS
<1>2. v[1] = a /\ v[2] = b /\ v[3] = c /\ w[1] = a2 /\ w[2] = b2 /\ w[3] = c2
  OBVIOUS
<1> HIDE DEF v, w
<1>3. \E i \in 1 .. 3 : w[i] < v[i] /\ \A j \in 1 .. i - 1 : w[j] = v[j]
  <2>1. CASE a2 < a
    <3>1. \A j \in 1 .. 1 - 1 : w[j] = v[j]
      OBVIOUS
    <3> QED
      BY <1>2, <2>1, <3>1
  <2>2. CASE a2 = a /\ b2 < b
    <3>1. \A j \in 1 .. 2 - 1 : w[j] = v[j]
      BY <1>2, <2>2
    <3> QED
      BY <1>2, <2>2, <3>1
  <2>3. CASE a2 = a /\ b2 = b /\ c2 < c
    <3>1. \A j \in 1 .. 3 - 1 : w[j] = v[j]
      BY <1>2, <2>3
    <3> QED
      BY <1>2, <2>3, <3>1
  <2> QED
    BY <2>1, <2>2, <2>3
<1> QED
  BY <1>1, <1>3 DEF Falls, v, w

\* Sets of itemsets are finite, and smaller without one of theirs.
LEMMA FamilySize ==
  ASSUME NEW S \in SUBSET SUBSET Item
  PROVE  /\ IsFiniteSet(S) /\ Cardinality(S) \in Nat
         /\ \A T \in SUBSET S : /\ IsFiniteSet(T) /\ Cardinality(T) \in Nat
                                /\ Cardinality(T) <= Cardinality(S)
                                /\ T # S => Cardinality(T) < Cardinality(S)
<1>1. IsFiniteSet(SUBSET Item)
  BY FiniteSets, FS_SUBSET
<1>2. IsFiniteSet(S) /\ Cardinality(S) \in Nat
  BY <1>1, FS_Subset, FS_CardinalityType
<1>3. ASSUME NEW T \in SUBSET S
      PROVE  /\ IsFiniteSet(T) /\ Cardinality(T) \in Nat
             /\ Cardinality(T) <= Cardinality(S)
             /\ T # S => Cardinality(T) < Cardinality(S)
  <2>1. /\ IsFiniteSet(T) /\ Cardinality(T) <= Cardinality(S)
        /\ Cardinality(S) = Cardinality(T) => S = T
    BY <1>2, FS_Subset
  <2>2. Cardinality(T) \in Nat
    BY <2>1, FS_CardinalityType
  <2> QED
    BY <1>2, <2>1, <2>2
<1> QED
  BY <1>2, <1>3

-----------------------------------------------------------------------------
(* Sequences.                                                              *)

\* A prefix of a sequence has its elements, and prefixes of a prefix are prefixes.
LEMMA PrefixType ==
  ASSUME NEW S, NEW s \in Seq(S), NEW n \in 0 .. Len(s)
  PROVE  /\ SubSeq(s, 1, n) \in Seq(S)
         /\ Len(SubSeq(s, 1, n)) = n
         /\ \A i \in 1 .. n : SubSeq(s, 1, n)[i] = s[i]
         /\ \A l \in 0 .. n : SubSeq(SubSeq(s, 1, n), 1, l) = SubSeq(s, 1, l)
<1>1. \A i \in 1 .. n : s[i] \in S
  OBVIOUS
<1>2. n \in Nat /\ n <= Len(s)
  OBVIOUS
<1>3. /\ SubSeq(s, 1, n) \in Seq(S)
      /\ Len(SubSeq(s, 1, n)) = n
      /\ \A i \in 1 .. n : SubSeq(s, 1, n)[i] = s[i]
  BY <1>1, <1>2
<1>4. ASSUME NEW l \in 0 .. n
      PROVE  SubSeq(SubSeq(s, 1, n), 1, l) = SubSeq(s, 1, l)
  BY <1>1, <1>2, <1>3
<1> QED
  BY <1>3, <1>4

\* A prefix grows by the next element.
LEMMA AppendPrefix ==
  ASSUME NEW S, NEW s \in Seq(S), NEW n \in 0 .. Len(s) - 1
  PROVE  Append(SubSeq(s, 1, n), s[n + 1]) = SubSeq(s, 1, n + 1)
<1>1. /\ n \in 0 .. Len(s) /\ n + 1 \in 0 .. Len(s) /\ s[n + 1] \in S
  OBVIOUS
<1>2. /\ SubSeq(s, 1, n) \in Seq(S) /\ Len(SubSeq(s, 1, n)) = n
      /\ SubSeq(s, 1, n + 1) \in Seq(S) /\ Len(SubSeq(s, 1, n + 1)) = n + 1
      /\ \A i \in 1 .. n : SubSeq(s, 1, n)[i] = s[i]
      /\ \A i \in 1 .. n + 1 : SubSeq(s, 1, n + 1)[i] = s[i]
  BY <1>1, PrefixType
<1> DEFINE p == Append(SubSeq(s, 1, n), s[n + 1])
<1>3. /\ p \in Seq(S) /\ Len(p) = n + 1
      /\ \A i \in 1 .. n : p[i] = SubSeq(s, 1, n)[i]
      /\ p[n + 1] = s[n + 1]
  BY <1>1, <1>2
<1>4. \A i \in 1 .. Len(p) : p[i] = SubSeq(s, 1, n + 1)[i]
  BY <1>1, <1>2, <1>3
<1> QED
  BY <1>2, <1>3, <1>4, SeqEqual

\* Front undoes Append.
LEMMA FrontAppend ==
  ASSUME NEW S, NEW s \in Seq(S), NEW a \in S
  PROVE  /\ Append(s, a) \in Seq(S) /\ Len(Append(s, a)) = Len(s) + 1
         /\ Append(s, a) # << >>
         /\ \A i \in 1 .. Len(s) : Append(s, a)[i] = s[i]
         /\ Append(s, a)[Len(s) + 1] = a
         /\ Last(Append(s, a)) = a
         /\ \A l \in 0 .. Len(s) : SubSeq(Append(s, a), 1, l) = SubSeq(s, 1, l)
         /\ Front(Append(s, a)) = s
<1>1. /\ Append(s, a) \in Seq(S) /\ Len(Append(s, a)) = Len(s) + 1
      /\ Append(s, a) # << >>
      /\ \A i \in 1 .. Len(s) : Append(s, a)[i] = s[i]
      /\ Append(s, a)[Len(s) + 1] = a
  OBVIOUS
<1>2. Last(Append(s, a)) = a
  BY <1>1 DEF Last
<1>3. ASSUME NEW l \in 0 .. Len(s)
      PROVE  SubSeq(Append(s, a), 1, l) = SubSeq(s, 1, l)
  <2>1. l \in 0 .. Len(Append(s, a))
    BY <1>1
  <2>2. /\ SubSeq(s, 1, l) \in Seq(S) /\ Len(SubSeq(s, 1, l)) = l
        /\ SubSeq(Append(s, a), 1, l) \in Seq(S)
        /\ Len(SubSeq(Append(s, a), 1, l)) = l
        /\ \A i \in 1 .. l : SubSeq(s, 1, l)[i] = s[i]
        /\ \A i \in 1 .. l : SubSeq(Append(s, a), 1, l)[i] = Append(s, a)[i]
    BY <1>1, <2>1, PrefixType
  <2>3. \A i \in 1 .. l : SubSeq(Append(s, a), 1, l)[i] = SubSeq(s, 1, l)[i]
    BY <1>1, <2>2
  <2> QED
    BY <2>2, <2>3, SeqEqual
<1>4. Front(Append(s, a)) = s
  <2>1. Front(Append(s, a)) = SubSeq(Append(s, a), 1, Len(s))
    BY <1>1 DEF Front
  <2>2. Len(s) \in 0 .. Len(s)
    OBVIOUS
  <2> QED
    BY <1>3, <2>1, <2>2, SubSeqFull
<1> QED
  BY <1>1, <1>2, <1>3, <1>4

\* The front of a sequence is a prefix of it.
LEMMA FrontType ==
  ASSUME NEW S, NEW s \in Seq(S), s # << >>
  PROVE  /\ Len(s) \in Nat \ {0}
         /\ Front(s) = SubSeq(s, 1, Len(s) - 1)
         /\ Front(s) \in Seq(S) /\ Len(Front(s)) = Len(s) - 1
         /\ \A i \in 1 .. Len(s) - 1 : Front(s)[i] = s[i]
         /\ \A l \in 0 .. Len(s) - 1 : SubSeq(Front(s), 1, l) = SubSeq(s, 1, l)
<1>1. Len(s) \in Nat \ {0}
  OBVIOUS
<1> DEFINE n == Len(s) - 1
<1>2. n \in 0 .. Len(s)
  BY <1>1
<1>3. Front(s) = SubSeq(s, 1, n)
  BY DEF Front
<1> HIDE DEF n
<1>4. /\ Front(s) \in Seq(S) /\ Len(Front(s)) = n
      /\ \A i \in 1 .. n : Front(s)[i] = s[i]
      /\ \A l \in 0 .. n : SubSeq(Front(s), 1, l) = SubSeq(s, 1, l)
  BY <1>2, <1>3, PrefixType
<1> QED
  BY <1>1, <1>3, <1>4 DEF n

-----------------------------------------------------------------------------
(* Ranks.                                                                  *)

\* In a strict total order every rank is taken.
LEMMA RankTaken ==
  ASSUME NEW S, IsFiniteSet(S), NEW R,
         \A x \in S : <<x, x>> \notin R,
         \A x, y \in S : x # y => <<x, y>> \in R \/ <<y, x>> \in R,
         \A x, y, z \in S : <<x, y>> \in R /\ <<y, z>> \in R => <<x, z>> \in R
  PROVE  /\ Cardinality(S) \in Nat
         /\ \A u \in 0 .. Cardinality(S) - 1 : \E x \in S, U \in SUBSET S :
              /\ Cardinality(U) = u
              /\ \A y \in S : y \in U <=> <<y, x>> \in R
<1> DEFINE Under(x) == {y \in S : <<y, x>> \in R}
<1>1. Cardinality(S) \in Nat
  BY FS_CardinalityType
<1>2. \A x : IsFiniteSet(Under(x)) /\ Cardinality(Under(x)) \in Nat
  <2> TAKE x
  <2>1. IsFiniteSet(Under(x))
    BY FS_Subset
  <2> QED
    BY <2>1, FS_CardinalityType
<1>3. ASSUME NEW T, NEW U \in SUBSET T, NEW n \in T, n \notin U, IsFiniteSet(T)
      PROVE  Cardinality(U) < Cardinality(T)
  <2>1. Cardinality(U) <= Cardinality(T)
        /\ (Cardinality(T) = Cardinality(U) => T = U) /\ IsFiniteSet(U)
    BY <1>3, FS_Subset
  <2>2. Cardinality(T) \in Nat /\ Cardinality(U) \in Nat
    BY <1>3, <2>1, FS_CardinalityType
  <2> QED
    BY <1>3, <2>1, <2>2
<1>4. \A x \in S : Cardinality(Under(x)) \in 0 .. Cardinality(S) - 1
  <2> TAKE x \in S
  <2>1. Under(x) \in SUBSET S /\ x \notin Under(x)
    OBVIOUS
  <2>2. Cardinality(Under(x)) < Cardinality(S)
    BY <1>3, <2>1
  <2>3. Cardinality(Under(x)) \in Nat
    BY <1>2
  <2> DEFINE c == Cardinality(S)
             n == Cardinality(Under(x))
  <2>4. c \in Nat /\ n \in Nat /\ n < c
    BY <1>1, <2>2, <2>3
  <2> HIDE DEF c, n
  <2>5. n \in 0 .. c - 1
    BY <2>4
  <2> QED
    BY <2>5 DEF c, n
<1>5. ASSUME NEW x \in S, NEW y \in S, <<x, y>> \in R
      PROVE  Cardinality(Under(x)) < Cardinality(Under(y))
  <2>1. x \in Under(y) /\ x \notin Under(x)
    BY <1>5
  <2>2. Under(x) \in SUBSET Under(y)
    BY <1>5
  <2> QED
    BY <1>2, <1>3, <2>1, <2>2
<1> DEFINE T == 0 .. Cardinality(S) - 1
           f == [x \in S |-> Cardinality(Under(x))]
<1>6. IsFiniteSet(T) /\ Cardinality(T) = Cardinality(S)
  <2> DEFINE c == Cardinality(S)
  <2>1. c \in Nat /\ 0 \in Int /\ c - 1 \in Int
    BY <1>1
  <2> HIDE DEF c
  <2>2. /\ IsFiniteSet(0 .. c - 1)
        /\ Cardinality(0 .. c - 1) = IF 0 > c - 1 THEN 0 ELSE c - 1 - 0 + 1
    BY <2>1, FS_Interval
  <2>3. (IF 0 > c - 1 THEN 0 ELSE c - 1 - 0 + 1) = c
    BY <2>1
  <2> QED
    BY <2>2, <2>3 DEF c
<1>7. f \in [S -> T]
  BY <1>4
<1>8. \A x, y \in S : f[x] = f[y] => x = y
  <2> SUFFICES ASSUME NEW x \in S, NEW y \in S, f[x] = f[y], x # y
               PROVE  FALSE
    OBVIOUS
  <2>1. Cardinality(Under(x)) = Cardinality(Under(y)) /\ Cardinality(Under(x)) \in Nat
    BY <1>2
  <2>2. CASE <<x, y>> \in R
    BY <1>5, <2>1, <2>2
  <2>3. CASE <<y, x>> \in R
    BY <1>5, <2>1, <2>3
  <2> QED
    BY <2>2, <2>3
<1>9. f \in Surjection(S, T)
  <2>1. f \in Injection(S, T)
    BY <1>7, <1>8 DEF Injection, IsInjective
  <2> QED
    BY <1>6, <2>1, FS_Injection
<1>10. ASSUME NEW u \in T
       PROVE  \E x \in S, U \in SUBSET S :
                /\ Cardinality(U) = u
                /\ \A y \in S : y \in U <=> <<y, x>> \in R
  <2>1. PICK x \in S : f[x] = u
    BY <1>9 DEF Surjection
  <2>2. /\ Under(x) \in SUBSET S /\ Cardinality(Under(x)) = u
        /\ \A y \in S : y \in Under(x) <=> <<y, x>> \in R
    BY <2>1
  <2> QED
    BY <2>2
<1> QED
  BY <1>1, <1>10

\* A vector that has at each place the element of that rank lists the set once,
\* in order.
LEMMA RanksListed ==
  ASSUME NEW S, IsFiniteSet(S), NEW R,
         \A x \in S : <<x, x>> \notin R,
         \A x, y \in S : x # y => <<x, y>> \in R \/ <<y, x>> \in R,
         \A x, y, z \in S : <<x, y>> \in R /\ <<y, z>> \in R => <<x, z>> \in R,
         NEW q \in [1 .. Cardinality(S) -> S],
         \A n \in 1 .. Cardinality(S) : \E U \in SUBSET S :
           /\ Cardinality(U) = n - 1
           /\ \A y \in S : y \in U <=> <<y, q[n]>> \in R
  PROVE  /\ \A m, n \in DOMAIN q : m < n => <<q[m], q[n]>> \in R
         /\ \A m, n \in DOMAIN q : q[m] = q[n] => m = n
         /\ \A x \in S : \E n \in DOMAIN q : q[n] = x
<1> DEFINE T == 1 .. Cardinality(S)
<1>1. Cardinality(S) \in Nat /\ DOMAIN q = T
  BY FS_CardinalityType
<1>2. ASSUME NEW m \in T, NEW n \in T, m < n
      PROVE  <<q[m], q[n]>> \in R
  <2>1. PICK U \in SUBSET S :
          Cardinality(U) = m - 1 /\ \A y \in S : y \in U <=> <<y, q[m]>> \in R
    OBVIOUS
  <2>2. PICK V \in SUBSET S :
          Cardinality(V) = n - 1 /\ \A y \in S : y \in V <=> <<y, q[n]>> \in R
    OBVIOUS
  <2>3. q[m] \in S /\ q[n] \in S /\ m \in Int /\ n \in Int
    OBVIOUS
  <2>4. V \notin SUBSET U
    <3>1. ASSUME V \in SUBSET U PROVE Cardinality(V) <= Cardinality(U)
      BY <3>1, FS_Subset
    <3> QED
      BY <1>2, <2>1, <2>2, <2>3, <3>1
  <2>5. q[m] # q[n]
    BY <2>1, <2>2, <2>4
  <2>6. <<q[n], q[m]>> \notin R
    BY <2>1, <2>2, <2>3, <2>4
  <2> QED
    BY <2>3, <2>5, <2>6
<1>3. \A m, n \in T : q[m] = q[n] => m = n
  <2> SUFFICES ASSUME NEW m \in T, NEW n \in T, q[m] = q[n], m # n
               PROVE  FALSE
    OBVIOUS
  <2>1. m < n \/ n < m
    OBVIOUS
  <2>2. q[m] \in S
    OBVIOUS
  <2> QED
    BY <1>2, <2>1, <2>2
<1>4. \A x \in S : \E n \in T : q[n] = x
  <2>1. q \in Injection(T, S)
    BY <1>3 DEF Injection, IsInjective
  <2>2. IsFiniteSet(T) /\ Cardinality(T) = Cardinality(S)
    <3> DEFINE c == Cardinality(S)
    <3>1. c \in Nat
      BY <1>1
    <3> HIDE DEF c
    <3>2. /\ IsFiniteSet(1 .. c)
          /\ Cardinality(1 .. c) = IF 1 > c THEN 0 ELSE c - 1 + 1
      BY <3>1, FS_Interval
    <3>3. (IF 1 > c THEN 0 ELSE c - 1 + 1) = c
      BY <3>1
    <3> QED
      BY <3>2, <3>3 DEF c
  <2>3. q \in Surjection(T, S)
    BY <2>1, <2>2, FS_Injection
  <2> QED
    BY <2>3 DEF Surjection
<1> QED
  BY <1>1, <1>2, <1>3, <1>4

LEMMA LeastExists ==
  ASSUME NEW n \in Nat, NEW I \in SUBSET (1 .. n), I # {}
  PROVE  \E m \in I : \A y \in I : m <= y
<1> DEFINE R == {p \in I \X I : p[1] < p[2]}
<1>1. I \subseteq Nat /\ IsFiniteSet(I)
  <2>1. IsFiniteSet(1 .. n)
    BY FS_Interval
  <2>2. I \subseteq Nat
    OBVIOUS
  <2> QED
    BY <2>1, <2>2, FS_Subset
<1>2. \A x, y \in I : <<x, y>> \in R <=> x < y
  OBVIOUS
<1> HIDE DEF R
<1>3. /\ Cardinality(I) \in Nat
      /\ \A u \in 0 .. Cardinality(I) - 1 : \E x \in I, U \in SUBSET I :
           /\ Cardinality(U) = u
           /\ \A y \in I : y \in U <=> <<y, x>> \in R
  <2>1. \A x \in I : <<x, x>> \notin R
    BY <1>1, <1>2
  <2>2. \A x, y \in I : x # y => <<x, y>> \in R \/ <<y, x>> \in R
    BY <1>1, <1>2
  <2>3. \A x, y, z \in I : <<x, y>> \in R /\ <<y, z>> \in R => <<x, z>> \in R
    BY <1>1, <1>2
  <2> QED
    BY <1>1, <2>1, <2>2, <2>3, RankTaken
<1>4. 0 \in 0 .. Cardinality(I) - 1
  <2>1. Cardinality(I) # 0
    BY <1>1, FS_EmptySet
  <2> QED
    BY <1>3, <2>1
<1>5. PICK x \in I, U \in SUBSET I :
        Cardinality(U) = 0 /\ \A y \in I : y \in U <=> <<y, x>> \in R
  BY <1>3, <1>4
<1>6. U = {}
  BY <1>1, <1>5, FS_Subset, FS_EmptySet
<1>7. \A y \in I : ~ y < x
  BY <1>2, <1>5, <1>6
<1> QED
  BY <1>1, <1>7
=============================================================================
