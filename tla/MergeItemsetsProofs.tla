------------------------ MODULE MergeItemsetsProofs ------------------------
(***************************************************************************)
(* merge_itemsets finds every frequent itemset with items in both parts,   *)
(* for every number of items and transactions, every database, support,    *)
(* division of the items and start level: what MCMergeItemsets checks on   *)
(* small instances, proved.                                                *)
(***************************************************************************)
EXTENDS MergeItemsets, ItemsetsProofs

-----------------------------------------------------------------------------
(* Facts about the two parts. *)

\* The items of a frequent itemset are frequent, so it lies in F1_1 and F1_2.
LEMMA FrequentItems ==
  ASSUME NEW X \in Itemset, Frequent(db, support, X), support \in Nat
  PROVE  X \subseteq F1_1 \cup F1_2
<1> SUFFICES ASSUME NEW i \in X PROVE i \in F
  BY DEF F1_1, F1_2
<1>1. Support(db, {i}) >= Support(db, X)
  BY SupportAntitone
<1>2. Support(db, {i}) >= support
  BY <1>1, SupportType DEF Frequent
<1> QED
  BY <1>2 DEF F, Count, Itemset

\* What is left of a frequent itemset in a part was mined there.
LEMMA ShareMined ==
  ASSUME NEW X \in Itemset, Frequent(db, support, X), support \in Nat,
         NEW S, X \cap S # {}
  PROVE  X \cap S \in Mined(S)
<1>1. Support(db, X \cap S) >= Support(db, X)
  BY SupportAntitone
<1> QED
  BY <1>1, SupportType DEF Mined, Frequent

\* An itemset in both parts without item i still is if its part has another.
LEMMA StaysInBothParts ==
  ASSUME NEW X, InBothParts(X), NEW i \in X,
         X \cap F1_1 # {i}, X \cap F1_2 # {i}
  PROVE  InBothParts(X \ {i})
  BY DEF InBothParts

\* The cross subsets with one item less of a frequent itemset are frequent.
LEMMA CrossSubset ==
  ASSUME NEW n \in Nat \ {0}, NEW X \in CrossFrequent(n + 1), NEW i \in X,
         support \in Nat, InBothParts(X \ {i})
  PROVE  X \ {i} \in CrossFrequent(n)
  BY FrequentSubsets DEF CrossFrequent

\* A frequent cross itemset has one of every smaller size from 2 on: why the
\* merge may stop at the first level that has none.
LEMMA CrossOfSize ==
  ASSUME NEW X \in Itemset, InBothParts(X), Frequent(db, support, X),
         support \in Nat, NEW n \in Nat \ {0, 1}, n <= Cardinality(X)
  PROVE  CrossFrequent(n) # {}
<1>1. PICK i \in X \cap F1_1, j \in X \cap F1_2 : TRUE
  BY DEF InBothParts
<1>2. i # j /\ X \in SUBSET Item /\ IsFiniteSet(X) /\ Cardinality(X) \in Nat
  BY <1>1, FiniteSets DEF F1_1, F1_2, Itemset
<1>3. Cardinality(X \ {i}) = Cardinality(X) - 1 /\ IsFiniteSet(X \ {i})
  BY <1>2, FS_RemoveElement
<1>4. Cardinality((X \ {i}) \ {j}) = Cardinality(X) - 2
  <2>1. Cardinality((X \ {i}) \ {j}) = Cardinality(X \ {i}) - 1
    BY <1>1, <1>2, <1>3, FS_RemoveElement
  <2> QED
    BY <1>2, <1>3, <2>1
<1>5. PICK Y \in SUBSET ((X \ {i}) \ {j}) : Cardinality(Y) = n - 2
  <2>1. (X \ {i}) \ {j} \in SUBSET Item
    BY <1>2
  <2>2. n - 2 \in Nat /\ n - 2 <= Cardinality((X \ {i}) \ {j})
    BY <1>2, <1>4
  <2> QED
    BY <2>1, <2>2, SubsetOfSize
<1> DEFINE Z == (Y \cup {i}) \cup {j}
<1>6. Y \subseteq X /\ i \notin Y /\ j \notin Y /\ IsFiniteSet(Y)
  BY <1>2, <1>5, FiniteSets
<1>7. Cardinality(Y \cup {i}) = n - 1 /\ IsFiniteSet(Y \cup {i})
  <2>1. Cardinality(Y \cup {i}) = Cardinality(Y) + 1 /\ IsFiniteSet(Y \cup {i})
    BY <1>6, FS_AddElement
  <2> QED
    BY <1>5, <2>1
<1>8. Cardinality(Z) = n
  <2>1. Cardinality(Z) = Cardinality(Y \cup {i}) + 1
    BY <1>2, <1>6, <1>7, FS_AddElement
  <2> QED
    BY <1>7, <2>1
<1>9. Z \subseteq X /\ Z \in Itemset /\ InBothParts(Z)
  BY <1>1, <1>2, <1>6 DEF InBothParts, Itemset
<1>10. Frequent(db, support, Z)
  BY <1>9, SupportAntitone, SupportType DEF Frequent
<1> QED
  BY <1>8, <1>9, <1>10 DEF CrossFrequent, FrequentOfSize

-----------------------------------------------------------------------------
(* What a level's joins cover. *)

\* The level the joins start from: the cross itemsets of k-1 items.
AtJoin ==
  /\ TypeOK /\ PartsMined
  /\ k > 2
  /\ freq_prev = CrossFrequent(k - 1)

\* The cross subsets of a frequent candidate are in freq_prev.
LEMMA SubsetsInPrev ==
  ASSUME AtJoin, NEW X \in CrossFrequent(k), NEW i \in X, InBothParts(X \ {i})
  PROVE  X \ {i} \in freq_prev
<1>1. k - 1 \in Nat \ {0} /\ (k - 1) + 1 = k /\ support \in Nat
  BY DEF AtJoin, TypeOK
<1>2. X \in CrossFrequent((k - 1) + 1)
  BY <1>1
<1>3. X \ {i} \in CrossFrequent(k - 1)
  BY <1>1, <1>2, CrossSubset
<1> QED
  BY <1>3 DEF AtJoin

\* A frequent candidate with two items or more in each part is joined from
\* two siblings of freq_prev and pruned by none of the tests.
LEMMA PlainJoinCovers ==
  ASSUME AtJoin, NEW X \in CrossFrequent(k),
         \A i \in X : X \cap F1_1 # {i} /\ X \cap F1_2 # {i}
  PROVE  X \in {UNION p : p \in JoinPairs}
<1>1. /\ X \in Itemset /\ InBothParts(X) /\ Frequent(db, support, X)
      /\ Cardinality(X) = k /\ support \in Nat /\ k \in Nat
  BY DEF CrossFrequent, FrequentOfSize, AtJoin, TypeOK
<1>2. \A i \in X : X \ {i} \in freq_prev
  BY <1>1, StaysInBothParts, SubsetsInPrev
<1>3. PICK a, b \in X : a # b /\ Siblings(db, X \ {a}, X \ {b})
  <2>1. Cardinality(X) >= 2
    BY <1>1 DEF AtJoin
  <2> QED
    BY <1>1, <2>1, LastTwo
<1> DEFINE p == {X \ {a}, X \ {b}}
<1>4. UNION p = X
  BY <1>3
<1>5. Accepted(X)
  <2>1. X \cap F1_1 \in freq1 /\ X \cap F1_2 \in freq2
    BY <1>1, ShareMined DEF AtJoin, PartsMined, InBothParts
  <2> QED
    BY <1>1, <1>2, <2>1 DEF Accepted, Present, CheckSupports
<1>6. p \in SiblingPairs(db, freq_prev)
  <2>1. p \in SUBSET freq_prev /\ X \ {a} \in p /\ X \ {b} \in p
    BY <1>2
  <2> QED
    BY <1>3, <2>1 DEF SiblingPairs
<1> HIDE DEF p
<1>7. Accepted(UNION p)
  BY <1>4, <1>5
<1>8. p \in JoinPairs
  BY <1>6, <1>7 DEF JoinPairs
<1> QED
  BY <1>4, <1>8

\* A frequent candidate with one item in a part is joined in the conditional
\* trie of that item.
LEMMA CondJoinCovers ==
  ASSUME AtJoin, NEW part, NEW other, NEW patterns, patterns = Mined(other),
         NEW X \in CrossFrequent(k), NEW i \in X, i \in part,
         X \cap part = {i}, X \ {i} \subseteq other,
         \A Y : Y \cap part # {} /\ Y \cap other # {} => InBothParts(Y)
  PROVE  X \in {{c[1]} \cup UNION c[2] : c \in CondPairs(part, patterns)}
<1>1. /\ X \in Itemset /\ InBothParts(X) /\ Frequent(db, support, X)
      /\ Cardinality(X) = k /\ support \in Nat /\ k \in Nat /\ k > 2
      /\ IsFiniteSet(X) /\ X \in SUBSET Item
  BY FiniteSets DEF CrossFrequent, FrequentOfSize, AtJoin, TypeOK, Itemset
<1> DEFINE B == X \ {i}
<1>2. B \in Itemset /\ Cardinality(B) = k - 1 /\ Cardinality(B) >= 2
  <2>1. Cardinality(B) = k - 1 /\ IsFiniteSet(B)
    BY <1>1, FS_RemoveElement
  <2>2. B # {}
    BY <1>1, <2>1, FS_EmptySet
  <2> QED
    BY <1>1, <2>1, <2>2 DEF Itemset
<1>3. PICK a, b \in B : /\ a # b
                        /\ B \ {a} \in Itemset /\ B \ {b} \in Itemset
                        /\ Siblings(db, B \ {a}, B \ {b})
  <2> HIDE DEF B
  <2> QED
    BY <1>2, LastTwo
<1>4. ASSUME NEW e \in B, B \ {e} \in Itemset
      PROVE  B \ {e} \in FreqCond(i, part)
  <2>1. InBothParts(X \ {e})
    <3>1. (X \ {e}) \cap part # {} /\ (X \ {e}) \cap other # {}
      BY <1>4 DEF Itemset
    <3> QED
      BY <3>1
  <2>2. X \ {e} \in freq_prev
    BY <2>1, SubsetsInPrev
  <2>3. (X \ {e}) \cap part = {i} /\ B \ {e} = (X \ {e}) \ {i}
    BY <1>4
  <2> QED
    BY <2>2, <2>3 DEF FreqCond
<1> DEFINE c == <<i, {B \ {a}, B \ {b}}>>
<1>5. UNION c[2] = B /\ {c[1]} \cup UNION c[2] = X
  BY <1>3
<1>6. Present(B, patterns)
  <2>1. Support(db, B) >= Support(db, X)
    BY SupportAntitone
  <2>2. B \in Mined(other)
    BY <1>1, <1>2, <2>1, SupportType DEF Mined, Frequent, Itemset
  <2> QED
    BY <2>2 DEF Present
<1>7. CheckMergeSupports(X)
  BY SubsetsInPrev DEF CheckMergeSupports
<1>8. c[2] \in SiblingPairs(db, FreqCond(i, part))
  <2>1. B \ {a} \in FreqCond(i, part) /\ B \ {b} \in FreqCond(i, part)
    BY <1>3, <1>4
  <2> HIDE DEF B
  <2>2. c[2] \in SUBSET FreqCond(i, part) /\ B \ {a} \in c[2] /\ B \ {b} \in c[2]
    BY <2>1
  <2> QED
    BY <1>3, <2>2 DEF SiblingPairs
<1>9. c \in {i} \X SiblingPairs(db, FreqCond(i, part))
  BY <1>8
<1> HIDE DEF c, B
<1>10. Present(UNION c[2], patterns) /\ CheckMergeSupports({c[1]} \cup UNION c[2])
  BY <1>5, <1>6, <1>7
<1>11. c \in CondPairs(part, patterns)
  BY <1>9, <1>10 DEF CondPairs
<1> QED
  BY <1>5, <1>11

\* The three joins together cover the level.
LEMMA JoinsCover ==
  ASSUME AtJoin, NEW X \in CrossFrequent(k),
         X \notin {UNION p : p \in JoinPairs}
  PROVE  \E c \in CondPairs(F1_1, freq2) \cup CondPairs(F1_2, freq1) :
           X = {c[1]} \cup UNION c[2]
<1>1. /\ X \in Itemset /\ X \subseteq F1_1 \cup F1_2
  BY FrequentItems DEF CrossFrequent, FrequentOfSize, AtJoin, TypeOK
<1>2. PICK i \in X : X \cap F1_1 = {i} \/ X \cap F1_2 = {i}
  BY PlainJoinCovers
<1>3. \A Y : Y \cap F1_1 # {} /\ Y \cap F1_2 # {} => InBothParts(Y)
  BY DEF InBothParts
<1>4. CASE X \cap F1_1 = {i}
  <2>1. i \in F1_1 /\ X \ {i} \subseteq F1_2 /\ freq2 = Mined(F1_2)
    BY <1>1, <1>4 DEF AtJoin, PartsMined
  <2>2. X \in {{c[1]} \cup UNION c[2] : c \in CondPairs(F1_1, freq2)}
    BY <1>3, <1>4, <2>1, CondJoinCovers
  <2> QED
    BY <2>2
<1>5. CASE X \cap F1_2 = {i}
  <2>1. i \in F1_2 /\ X \ {i} \subseteq F1_1 /\ freq1 = Mined(F1_1)
    BY <1>1, <1>5 DEF AtJoin, PartsMined
  <2>2. X \in {{c[1]} \cup UNION c[2] : c \in CondPairs(F1_2, freq1)}
    BY <1>3, <1>5, <2>1, CondJoinCovers
  <2> QED
    BY <2>2
<1> QED
  BY <1>2, <1>4, <1>5

-----------------------------------------------------------------------------
(* What a level's joins yield. *)

\* A plain candidate has one item more than the siblings it is joined from.
LEMMA PlainCandidate ==
  ASSUME AtJoin, NEW p \in JoinPairs
  PROVE  /\ UNION p \in Itemset
         /\ Cardinality(UNION p) = k
         /\ InBothParts(UNION p)
<1>1. PICK x, y \in p : p = {x, y} /\ Siblings(db, x, y)
  BY DEF JoinPairs, SiblingPairs
<1>2. x \in freq_prev /\ y \in freq_prev /\ UNION p = x \cup y
  BY <1>1 DEF JoinPairs, SiblingPairs
<1>3. x \in Itemset /\ y \in Itemset /\ Cardinality(x) = k - 1 /\ k \in Nat
  BY <1>2 DEF AtJoin, TypeOK, CrossFrequent, FrequentOfSize
<1>4. x \cup y \in Itemset /\ Cardinality(x \cup y) = Cardinality(x) + 1
  BY <1>1, <1>3, SiblingsJoin
<1>5. InBothParts(UNION p)
  BY DEF JoinPairs, Accepted
<1>6. Cardinality(x \cup y) = k
  BY <1>3, <1>4
<1>7. UNION p \in Itemset /\ Cardinality(UNION p) = k
  BY <1>2, <1>4, <1>6
<1> QED
  BY <1>5, <1>7

\* So has a conditional candidate: the item is in none of the siblings.
LEMMA CondCandidate ==
  ASSUME AtJoin, NEW part \in SUBSET Item, NEW patterns, NEW c \in CondPairs(part, patterns)
  PROVE  /\ {c[1]} \cup UNION c[2] \in Itemset
         /\ Cardinality({c[1]} \cup UNION c[2]) = k
         /\ InBothParts({c[1]} \cup UNION c[2])
<1>1. /\ c[1] \in part
      /\ c[2] \in SiblingPairs(db, FreqCond(c[1], part))
  BY DEF CondPairs
<1>2. PICK x, y \in c[2] : c[2] = {x, y} /\ Siblings(db, x, y)
  BY <1>1 DEF SiblingPairs
<1>3. /\ x \in FreqCond(c[1], part)
      /\ y \in FreqCond(c[1], part)
      /\ UNION c[2] = x \cup y
  BY <1>1, <1>2 DEF SiblingPairs
<1>4. PICK u, v \in freq_prev : /\ u \cap part = {c[1]} /\ x = u \ {c[1]}
                                /\ v \cap part = {c[1]} /\ y = v \ {c[1]}
  BY <1>3 DEF FreqCond
<1>5. /\ u \in Itemset /\ v \in Itemset /\ Cardinality(u) = k - 1
      /\ Cardinality(v) = k - 1 /\ InBothParts(u)
      /\ k \in Nat /\ k > 2 /\ c[1] \in u /\ c[1] \in v
      /\ IsFiniteSet(u) /\ IsFiniteSet(v)
  BY <1>4, FiniteSets DEF AtJoin, TypeOK, CrossFrequent, FrequentOfSize, Itemset
<1>6. /\ Cardinality(x) = k - 2 /\ IsFiniteSet(x)
      /\ Cardinality(y) = k - 2 /\ IsFiniteSet(y)
  <2>1. ASSUME NEW w, IsFiniteSet(w), c[1] \in w, Cardinality(w) = k - 1
        PROVE  Cardinality(w \ {c[1]}) = k - 2 /\ IsFiniteSet(w \ {c[1]})
    <3>1. /\ Cardinality(w \ {c[1]}) = Cardinality(w) - 1
          /\ IsFiniteSet(w \ {c[1]})
      BY <2>1, FS_RemoveElement
    <3> QED
      BY <1>5, <2>1, <3>1
  <2> QED
    BY <1>4, <1>5, <2>1
<1>7. x \in Itemset /\ y \in Itemset
  <2>1. x # {} /\ y # {}
    BY <1>5, <1>6, FS_EmptySet
  <2> QED
    BY <1>4, <1>5, <2>1 DEF Itemset
<1>8. x \cup y \in Itemset /\ Cardinality(x \cup y) = k - 1
  <2>1. x \cup y \in Itemset /\ Cardinality(x \cup y) = Cardinality(x) + 1
    BY <1>2, <1>7, SiblingsJoin
  <2> QED
    BY <1>5, <1>6, <2>1
<1>9. c[1] \notin x \cup y /\ IsFiniteSet(x \cup y)
  BY <1>4, <1>8, FiniteSets DEF Itemset
<1>10. Cardinality((x \cup y) \cup {c[1]}) = k
  <2>1. Cardinality((x \cup y) \cup {c[1]}) = Cardinality(x \cup y) + 1
    BY <1>9, FS_AddElement
  <2> QED
    BY <1>5, <1>8, <2>1
<1>11. {c[1]} \cup UNION c[2] = (x \cup y) \cup {c[1]}
  BY <1>3
<1>12. (x \cup y) \cup {c[1]} \in Itemset /\ InBothParts((x \cup y) \cup {c[1]})
  BY <1>1, <1>4, <1>5, <1>8 DEF Itemset, InBothParts
<1> QED
  BY <1>10, <1>11, <1>12

\* The joins are finite, so that num_candidates counts something.
LEMMA FiniteJoins ==
  ASSUME TypeOK
  PROVE  /\ F1_1 \in SUBSET Item /\ IsFiniteSet(F1_1) /\ Cardinality(F1_1) \in Nat
         /\ F1_2 \in SUBSET Item /\ IsFiniteSet(F1_2) /\ Cardinality(F1_2) \in Nat
         /\ IsFiniteSet(JoinPairs)
         /\ IsFiniteSet(CondPairs(F1_1, freq2) \cup CondPairs(F1_2, freq1))
<1>1. F1_1 \in SUBSET Item /\ F1_2 \in SUBSET Item
  BY DEF F1_1, F1_2, F
<1>2. IsFiniteSet(SUBSET SUBSET Item) /\ IsFiniteSet(Item)
  BY FiniteSets, FS_SUBSET
<1>3. JoinPairs \in SUBSET (SUBSET SUBSET Item)
  BY DEF JoinPairs, SiblingPairs, TypeOK, Itemset
<1>4. CondPairs(F1_1, freq2) \cup CondPairs(F1_2, freq1)
        \in SUBSET (Item \X SUBSET SUBSET Item)
  <2>1. ASSUME NEW part \in SUBSET Item, NEW patterns
        PROVE  CondPairs(part, patterns) \in SUBSET (Item \X SUBSET SUBSET Item)
    <3>1. ASSUME NEW i \in part
          PROVE  SiblingPairs(db, FreqCond(i, part)) \subseteq SUBSET SUBSET Item
      BY DEF SiblingPairs, FreqCond, TypeOK, Itemset
    <3> QED
      BY <3>1 DEF CondPairs
  <2> QED
    BY <1>1, <2>1
<1>5. IsFiniteSet(Item \X SUBSET SUBSET Item)
  BY <1>2, FS_Product
<1> QED
  BY <1>1, <1>2, <1>3, <1>4, <1>5, FiniteSets, FS_Subset

-----------------------------------------------------------------------------
(* The invariant. *)

\* The merge starts in a state of its invariant.
LEMMA MergeInit == Init => MergeInv
<1> SUFFICES ASSUME Init PROVE MergeInv
  OBVIOUS
<1>1. /\ db \in Database /\ support \in Nat \ {0} /\ part1 \in SUBSET Item
      /\ start \in Nat \ {0, 1}
  BY MergeAssumption DEF Init
<1>2. TypeOK
  BY <1>1 DEF Init, TypeOK, Mined, F1_1, F1_2, F, Itemset, Pc, FrequentOfSize
<1>3. PartsMined /\ LevelInv /\ CountInv /\ MergeSound
  BY <1>1 DEF Init, PartsMined, LevelInv, CountInv, MergeSound, CrossFrequent
<1>4. ReportedCross
  <2>1. \A X \in Itemset : Cardinality(X) \in Nat
    BY FiniteSets DEF Itemset
  <2> QED
    BY <1>1, <2>1 DEF Init, ReportedCross
<1> QED
  BY <1>2, <1>3, <1>4 DEF MergeInv

\* What the steps inside a level leave alone.
LEMMA SameLevel ==
  ASSUME MergeInv, UNCHANGED <<inputs, k, freq_prev, out>>, pc # "done", pc' # "done"
  PROVE  PartsMined' /\ ReportedCross' /\ MergeSound'
<1> USE DEF inputs
<1>1. PartsMined'
  BY DEF MergeInv, PartsMined, Mined, F1_1, F1_2, F
<1>2. ReportedCross'
  BY DEF MergeInv, ReportedCross, Reported, InBothParts, F1_1, F1_2, F
<1>3. MergeSound'
  BY DEF MergeInv, MergeSound, InBothParts, F1_1, F1_2, F
<1> QED
  BY <1>1, <1>2, <1>3

\* At level 2 the cross product covers the frequent pairs across the parts.
LEMMA MergeCrossProduct ==
  ASSUME MergeInv, CrossProduct
  PROVE  MergeInv'
<1> USE DEF inputs
<1>1. /\ pc = "level" /\ pc' = "count" /\ k = 2 /\ k' = 2
      /\ candidates' = {{i, j} : i \in F1_1, j \in F1_2}
      /\ num_candidates' = Cardinality(F1_1) * Cardinality(F1_2)
      /\ UNCHANGED <<inputs, k, freq_prev, out>>
  BY DEF CrossProduct
<1>2. PartsMined' /\ ReportedCross' /\ MergeSound'
  BY <1>1, SameLevel
<1>3. ASSUME NEW c \in candidates'
      PROVE  c \in Itemset /\ Cardinality(c) = 2 /\ InBothParts(c)
  <2>1. PICK i \in F1_1, j \in F1_2 : c = {i, j}
    BY <1>1, <1>3
  <2>2. i # j /\ i \in Item /\ j \in Item
    BY DEF F1_1, F1_2, F
  <2>3. IsFiniteSet({i}) /\ Cardinality({i}) = 1
    BY FS_Singleton
  <2>4. Cardinality({i} \cup {j}) = 2
    <3>1. Cardinality({i} \cup {j}) = Cardinality({i}) + 1
      BY <2>2, <2>3, FS_AddElement
    <3> QED
      BY <2>3, <3>1
  <2>5. c = {i} \cup {j}
    BY <2>1
  <2> QED
    BY <2>1, <2>2, <2>4, <2>5 DEF Itemset, InBothParts
<1>4. TypeOK'
  <2>1. candidates' \subseteq Itemset
    BY <1>3
  <2>2. num_candidates' \in Nat
    BY <1>1, FiniteJoins DEF MergeInv
  <2> QED
    BY <1>1, <2>1, <2>2 DEF MergeInv, TypeOK, Pc
<1>5. LevelInv'
  BY <1>1 DEF MergeInv, LevelInv
<1>6. ASSUME NEW X \in CrossFrequent(2) PROVE X \in candidates'
  <2>1. /\ X \in Itemset /\ InBothParts(X) /\ Cardinality(X) = 2
        /\ X \in SUBSET Item /\ IsFiniteSet(X)
    BY FiniteSets DEF CrossFrequent, FrequentOfSize, Itemset
  <2>2. PICK i \in X \cap F1_1, j \in X \cap F1_2 : i # j
    BY <2>1 DEF InBothParts, F1_1, F1_2
  <2>3. Cardinality(X \ {i}) = 1 /\ IsFiniteSet(X \ {i})
    BY <2>1, <2>2, FS_RemoveElement
  <2>4. Cardinality((X \ {i}) \ {j}) = 0 /\ IsFiniteSet((X \ {i}) \ {j})
    <3>1. j \in X \ {i}
      BY <2>2
    <3>2. /\ Cardinality((X \ {i}) \ {j}) = Cardinality(X \ {i}) - 1
          /\ IsFiniteSet((X \ {i}) \ {j})
      BY <2>3, <3>1, FS_RemoveElement
    <3> QED
      BY <2>3, <3>2
  <2>5. (X \ {i}) \ {j} = {}
    BY <2>4, FS_EmptySet
  <2>6. X = {i, j}
    BY <2>2, <2>5
  <2>7. i \in F1_1 /\ j \in F1_2
    BY <2>2
  <2> QED
    BY <1>1, <2>6, <2>7
<1>7. CountInv'
  BY <1>1, <1>3, <1>6 DEF CountInv, CrossFrequent, InBothParts, F1_1, F1_2, F
<1> QED
  BY <1>2, <1>4, <1>5, <1>7 DEF MergeInv

\* The plain join leaves the level's plain candidates.
LEMMA MergeJoin ==
  ASSUME MergeInv, Join
  PROVE  MergeInv'
<1> USE DEF inputs
<1>1. /\ pc = "level" /\ pc' = "joined" /\ k > 2
      /\ candidates' = {UNION p : p \in JoinPairs}
      /\ num_candidates' = Cardinality(JoinPairs)
      /\ UNCHANGED <<inputs, k, freq_prev, out>>
  BY DEF Join
<1>2. PartsMined' /\ ReportedCross' /\ MergeSound'
  BY <1>1, SameLevel
<1>3. AtJoin
  BY <1>1 DEF AtJoin, MergeInv, LevelInv
<1>4. TypeOK'
  <2>1. candidates' \subseteq Itemset
    BY <1>1, <1>3, PlainCandidate
  <2>2. num_candidates' \in Nat
    BY <1>1, FiniteJoins, FS_CardinalityType DEF MergeInv
  <2> QED
    BY <1>1, <2>1, <2>2 DEF MergeInv, TypeOK, Pc
<1>5. JoinPairs' = JoinPairs
  BY <1>1 DEF JoinPairs, SiblingPairs, Siblings, Accepted, Present, CheckSupports,
     InBothParts, F1_1, F1_2, F
<1>6. CrossFrequent(k - 1)' = CrossFrequent(k - 1)
  BY <1>1 DEF CrossFrequent, InBothParts, F1_1, F1_2, F
<1>7. LevelInv'
  BY <1>1, <1>5, <1>6 DEF MergeInv, LevelInv
<1>8. CountInv'
  BY <1>1 DEF CountInv
<1> QED
  BY <1>2, <1>4, <1>7, <1>8 DEF MergeInv

\* With the conditional ones they cover the level.
LEMMA MergeJoinConditional ==
  ASSUME MergeInv, JoinConditional
  PROVE  MergeInv'
<1> USE DEF inputs
<1> DEFINE pairs == CondPairs(F1_1, freq2) \cup CondPairs(F1_2, freq1)
<1>1. /\ pc = "joined" /\ pc' = "count"
      /\ candidates' = candidates \cup {{c[1]} \cup UNION c[2] : c \in pairs}
      /\ num_candidates' = num_candidates + Cardinality(pairs)
      /\ UNCHANGED <<inputs, k, freq_prev, out>>
  BY DEF JoinConditional
<1>2. PartsMined' /\ ReportedCross' /\ MergeSound'
  BY <1>1, SameLevel
<1>3. AtJoin /\ candidates = {UNION p : p \in JoinPairs}
  BY <1>1 DEF AtJoin, MergeInv, LevelInv
<1>4. F1_1 \in SUBSET Item /\ F1_2 \in SUBSET Item /\ IsFiniteSet(pairs)
  BY FiniteJoins DEF MergeInv
<1>5. ASSUME NEW X \in candidates'
      PROVE  X \in Itemset /\ Cardinality(X) = k /\ InBothParts(X)
  <2>1. CASE X \in candidates
    BY <1>3, <2>1, PlainCandidate
  <2>2. CASE X \in {{c[1]} \cup UNION c[2] : c \in pairs}
    <3>1. PICK c \in pairs : X = {c[1]} \cup UNION c[2]
      BY <2>2
    <3>2. c \in CondPairs(F1_1, freq2) \/ c \in CondPairs(F1_2, freq1)
      BY <3>1
    <3> QED
      BY <1>3, <1>4, <3>1, <3>2, CondCandidate
  <2> HIDE DEF pairs
  <2> QED
    BY <1>1, <1>5, <2>1, <2>2
<1>6. ASSUME NEW X \in CrossFrequent(k) PROVE X \in candidates'
  <2>1. CASE X \in {UNION p : p \in JoinPairs}
    BY <1>1, <1>3, <2>1
  <2>2. CASE X \notin {UNION p : p \in JoinPairs}
    <3>1. \E c \in pairs : X = {c[1]} \cup UNION c[2]
      BY <1>3, <2>2, JoinsCover
    <3> HIDE DEF pairs
    <3> QED
      BY <1>1, <3>1
  <2> QED
    BY <2>1, <2>2
<1>7. TypeOK'
  <2>1. candidates' \subseteq Itemset
    BY <1>5
  <2>2. num_candidates' \in Nat
    <3> HIDE DEF pairs
    <3>1. Cardinality(pairs) \in Nat /\ num_candidates \in Nat
      BY <1>4, FS_CardinalityType DEF MergeInv, TypeOK
    <3> QED
      BY <1>1, <3>1
  <2> QED
    BY <1>1, <2>1, <2>2 DEF MergeInv, TypeOK, Pc
<1>8. LevelInv'
  BY <1>1 DEF MergeInv, LevelInv
<1>9. CountInv'
  <2>1. CrossFrequent(k)' = CrossFrequent(k)
    BY <1>1 DEF CrossFrequent, InBothParts, F1_1, F1_2, F
  <2>2. \A X : InBothParts(X)' <=> InBothParts(X)
    BY <1>1 DEF InBothParts, F1_1, F1_2, F
  <2> HIDE DEF pairs
  <2> QED
    BY <1>1, <1>5, <1>6, <2>1, <2>2 DEF CountInv
<1> QED
  BY <1>2, <1>7, <1>8, <1>9 DEF MergeInv

\* Counting leaves exactly the frequent candidates and goes on to the next level.
LEMMA MergeCount ==
  ASSUME MergeInv, CountCandidates
  PROVE  MergeInv'
<1> USE DEF inputs
<1>1. /\ pc = "count" /\ pc' = "level" /\ k' = k + 1
      /\ freq_prev' = {X \in candidates : Frequent(db, support, X)}
      /\ out' = out \cup {Pattern(X, Support(db, X)) : X \in freq_prev'}
      /\ candidates' = {} /\ num_candidates' = 0
      /\ UNCHANGED inputs
  BY DEF CountCandidates
<1>2. /\ k \in Nat \ {0, 1} /\ start \in Nat /\ k >= start
      /\ candidates \subseteq Itemset
      /\ \A c \in candidates : Cardinality(c) = k /\ InBothParts(c)
      /\ CrossFrequent(k) \subseteq candidates
  BY <1>1 DEF MergeInv, TypeOK, LevelInv, CountInv
<1>3. freq_prev' = CrossFrequent(k)
  BY <1>1, <1>2 DEF CrossFrequent, FrequentOfSize
<1>4. \A n : CrossFrequent(n)' = CrossFrequent(n)
  BY <1>1 DEF CrossFrequent, InBothParts, F1_1, F1_2, F
<1>5. \A X : InBothParts(X)' <=> InBothParts(X)
  BY <1>1 DEF InBothParts, F1_1, F1_2, F
<1>6. \A X \in Itemset : Pattern(X, Support(db, X)) \in [items : Itemset, count : Nat]
  BY SupportType DEF Pattern
<1>7. TypeOK'
  <2>1. freq_prev' \subseteq Itemset
    BY <1>1, <1>2
  <2>2. out' \subseteq [items : Itemset, count : Nat]
    BY <1>1, <1>6, <2>1 DEF MergeInv, TypeOK
  <2> QED
    BY <1>1, <1>2, <2>1, <2>2 DEF MergeInv, TypeOK, Pc
<1>8. PartsMined'
  BY <1>1 DEF MergeInv, PartsMined, Mined, F1_1, F1_2, F
<1>9. LevelInv'
  <2>1. k' - 1 = k /\ k' >= start
    BY <1>1, <1>2
  <2> QED
    BY <1>1, <1>3, <1>4, <2>1 DEF LevelInv
<1>10. CountInv'
  BY <1>1 DEF CountInv
<1>11. Reported' = Reported \cup freq_prev'
  <2>1. \A X : Pattern(X, Support(db, X)).items = X
    BY DEF Pattern
  <2> QED
    BY <1>1, <2>1 DEF Reported
<1>12. ReportedCross'
  <2> SUFFICES ASSUME NEW X \in Itemset, InBothParts(X), Frequent(db, support, X),
                      start <= Cardinality(X), Cardinality(X) < k + 1
               PROVE  X \in Reported'
    BY <1>1, <1>5 DEF ReportedCross
  <2>1. Cardinality(X) \in Nat
    BY FiniteSets DEF Itemset
  <2>2. CASE Cardinality(X) < k
    BY <1>11, <2>2 DEF MergeInv, ReportedCross
  <2>3. CASE Cardinality(X) = k
    BY <1>3, <1>11, <2>3 DEF CrossFrequent, FrequentOfSize
  <2> QED
    BY <1>2, <2>1, <2>2, <2>3
<1>13. MergeSound'
  <2> SUFFICES ASSUME NEW p \in out'
               PROVE  /\ InBothParts(p.items) /\ Cardinality(p.items) >= start
                      /\ Frequent(db, support, p.items)
                      /\ p.count = Support(db, p.items)
    BY <1>1, <1>5 DEF MergeSound
  <2>1. CASE p \in out
    BY <2>1 DEF MergeInv, MergeSound
  <2>2. CASE p \notin out
    <3>1. PICK X \in freq_prev' : p = Pattern(X, Support(db, X))
      BY <1>1, <2>2
    <3>2. p.items = X /\ p.count = Support(db, X)
      BY <3>1 DEF Pattern
    <3>3. InBothParts(X) /\ Cardinality(X) = k /\ Frequent(db, support, X)
      BY <1>1, <1>2, <3>1
    <3> QED
      BY <1>2, <3>2, <3>3
  <2> QED
    BY <2>1, <2>2
<1> QED
  BY <1>7, <1>8, <1>9, <1>10, <1>12, <1>13 DEF MergeInv

\* The loop stops where no frequent cross itemset is left.
LEMMA MergeExhausted ==
  ASSUME MergeInv, Exhausted
  PROVE  MergeInv'
<1> USE DEF inputs
<1>1. /\ \/ pc = "count" /\ candidates = {}
         \/ pc = "level" /\ freq_prev = {} /\ k # 2
      /\ pc' = "done"
      /\ UNCHANGED <<inputs, k, freq_prev, candidates, num_candidates, out>>
  BY DEF Exhausted
<1>2. TypeOK'
  BY <1>1 DEF MergeInv, TypeOK, Pc
<1>3. PartsMined'
  BY <1>1 DEF MergeInv, PartsMined, Mined, F1_1, F1_2, F
<1>4. MergeSound'
  BY <1>1 DEF MergeInv, MergeSound, InBothParts, F1_1, F1_2, F
<1>5. LevelInv' /\ CountInv'
  BY <1>1 DEF MergeInv, LevelInv, CountInv
<1>6. ReportedCross'
  <2>1. \A X : InBothParts(X)' <=> InBothParts(X)
    BY <1>1 DEF InBothParts, F1_1, F1_2, F
  <2>2. ASSUME NEW X \in Itemset, InBothParts(X), Frequent(db, support, X),
               start <= Cardinality(X)
        PROVE  X \in Reported
    <3>1. Cardinality(X) \in Nat /\ k \in Nat \ {0, 1} /\ support \in Nat
      BY FiniteSets DEF Itemset, MergeInv, TypeOK
    <3>2. SUFFICES ASSUME k <= Cardinality(X) PROVE FALSE
      BY <1>1, <2>2, <3>1 DEF MergeInv, ReportedCross
    <3>3. CASE pc = "count"
      <4>1. CrossFrequent(k) = {}
        BY <1>1, <3>3 DEF MergeInv, CountInv
      <4> QED
        BY <2>2, <3>1, <3>2, <4>1, CrossOfSize
    <3>4. CASE pc = "level"
      <4>1. CrossFrequent(k - 1) = {}
        BY <1>1, <3>4 DEF MergeInv, LevelInv
      <4>2. k - 1 \in Nat \ {0, 1} /\ k - 1 <= Cardinality(X)
        BY <1>1, <3>1, <3>2, <3>4
      <4> QED
        BY <2>2, <3>1, <4>1, <4>2, CrossOfSize
    <3> QED
      BY <1>1, <3>3, <3>4
  <2> QED
    BY <1>1, <2>1, <2>2 DEF ReportedCross, Reported
<1> QED
  BY <1>2, <1>3, <1>4, <1>5, <1>6 DEF MergeInv

\* Each step of merge_itemsets preserves the invariant.
LEMMA MergeNext == MergeInv /\ [Next]_vars => MergeInv'
<1> SUFFICES ASSUME MergeInv, [Next]_vars PROVE MergeInv'
  OBVIOUS
<1>1. CASE UNCHANGED vars
  <2> USE <1>1 DEF MergeInv, vars
  <2>1. TypeOK'
    BY DEF TypeOK
  <2>2. PartsMined'
    BY DEF PartsMined, Mined, F1_1, F1_2, F
  <2>3. LevelInv'
    <3>1. JoinPairs' = JoinPairs
      BY DEF JoinPairs, SiblingPairs, Siblings, Accepted, Present, CheckSupports,
         InBothParts, F1_1, F1_2, F
    <3>2. CrossFrequent(k - 1)' = CrossFrequent(k - 1)
      BY DEF CrossFrequent, InBothParts, F1_1, F1_2, F
    <3> QED
      BY <3>1, <3>2 DEF LevelInv
  <2>4. CountInv'
    BY DEF CountInv, CrossFrequent, InBothParts, F1_1, F1_2, F
  <2>5. ReportedCross'
    BY DEF ReportedCross, Reported, InBothParts, F1_1, F1_2, F
  <2>6. MergeSound'
    BY DEF MergeSound, InBothParts, F1_1, F1_2, F
  <2> QED
    BY <2>1, <2>2, <2>3, <2>4, <2>5, <2>6
<1> QED
  BY <1>1, MergeCrossProduct, MergeJoin, MergeJoinConditional, MergeCount,
     MergeExhausted DEF Next

\* What merge_itemsets maintains around its loop, in every behaviour.
THEOREM MergeInvariance == Spec => []MergeInv
<1> QED
  BY MergeInit, MergeNext, PTL DEF Spec

\* The sets and levels of the merge keep their types: freq_prev, the
\* candidates and the patterns written name itemsets only.
THEOREM MergeTypeCorrect == Spec => []TypeOK
<1>1. MergeInv => TypeOK
  BY DEF MergeInv
<1> QED
  BY <1>1, MergeInvariance, PTL

\* The merge writes frequent itemsets in both parts with exact supports.
THEOREM MergeIsSound == Spec => []MergeSound
<1>1. MergeInv => MergeSound
  BY DEF MergeInv
<1> QED
  BY <1>1, MergeInvariance, PTL

\* freq_prev holds the frequent cross itemsets of k-1 items at every level.
THEOREM MergeLevelsExact == Spec => []CrossLevelExact
<1>1. MergeInv => CrossLevelExact
  BY DEF MergeInv, LevelInv, CrossFrequent, CrossLevelExact
<1> QED
  BY <1>1, MergeInvariance, PTL

\* Mining the parts apart and merging loses no frequent itemset.
THEOREM MergeIsComplete == Spec => []MergeComplete
<1>1. MergeInv => MergeComplete
  <2> SUFFICES ASSUME MergeInv, pc = "done", NEW X \in Itemset, Frequent(db, support, X)
               PROVE  X \in freq1 \cup freq2 \cup Reported \/ Cardinality(X) < start
    BY DEF MergeComplete
  <2>1. /\ X \subseteq F1_1 \cup F1_2 /\ X # {} /\ support \in Nat
        /\ Cardinality(X) \in Nat /\ start \in Nat
    BY FrequentItems, FiniteSets DEF MergeInv, TypeOK, Itemset
  <2>2. CASE InBothParts(X)
    BY <2>1, <2>2 DEF MergeInv, ReportedCross
  <2>3. CASE X \cap F1_1 = {}
    <3>1. X \cap F1_2 = X
      BY <2>1, <2>3
    <3>2. X \in Mined(F1_2)
      BY <2>1, <3>1, ShareMined
    <3> QED
      BY <3>2 DEF MergeInv, PartsMined
  <2>4. CASE X \cap F1_2 = {}
    <3>1. X \cap F1_1 = X
      BY <2>1, <2>4
    <3>2. X \in Mined(F1_1)
      BY <2>1, <3>1, ShareMined
    <3> QED
      BY <3>2 DEF MergeInv, PartsMined
  <2> QED
    BY <2>2, <2>3, <2>4 DEF InBothParts
<1> QED
  BY <1>1, MergeInvariance, PTL

-----------------------------------------------------------------------------
(* Every candidate is generated once. *)

\* A one-to-one function takes as many values as it has arguments.
LEMMA ImageCardinality ==
  ASSUME NEW S, IsFiniteSet(S), NEW T, NEW f \in [S -> T],
         \A s, t \in S : f[s] = f[t] => s = t,
         \A t \in T : \E s \in S : f[s] = t
  PROVE  IsFiniteSet(T) /\ Cardinality(T) = Cardinality(S)
<1>1. f \in Bijection(S, T)
  BY DEF Bijection, Injection, Surjection, IsInjective
<1>2. ExistsBijection(S, T)
  BY <1>1 DEF ExistsBijection
<1> QED
  BY <1>2, FS_Bijection

\* The plain join makes as many candidates as it finds pairs.
LEMMA PlainOnce ==
  ASSUME AtJoin
  PROVE  Cardinality({UNION p : p \in JoinPairs}) = Cardinality(JoinPairs)
<1> DEFINE T == {UNION p : p \in JoinPairs}
           f == [p \in JoinPairs |-> UNION p]
<1>1. IsFiniteSet(JoinPairs) /\ freq_prev \in SUBSET Itemset
  BY FiniteJoins DEF AtJoin, TypeOK
<1>2. \A p \in JoinPairs : p \in SiblingPairs(db, freq_prev)
  BY DEF JoinPairs
<1>3. \A p, q \in JoinPairs : f[p] = f[q] => p = q
  BY <1>1, <1>2, PairUnique
<1>4. f \in [JoinPairs -> T] /\ \A t \in T : \E p \in JoinPairs : f[p] = t
  OBVIOUS
<1> HIDE DEF T, f
<1>5. Cardinality(T) = Cardinality(JoinPairs)
  BY <1>1, <1>3, <1>4, ImageCardinality
<1> QED
  BY <1>5 DEF T

\* A conditional candidate has the item of its trie, and no other, in the part.
LEMMA CondShare ==
  ASSUME AtJoin, NEW part, NEW patterns, NEW c \in CondPairs(part, patterns)
  PROVE  /\ ({c[1]} \cup UNION c[2]) \cap part = {c[1]}
         /\ c[1] \notin UNION c[2]
         /\ c[2] \in SiblingPairs(db, FreqCond(c[1], part))
         /\ c = <<c[1], c[2]>>
<1>1. /\ c[1] \in part
      /\ c[2] \in SiblingPairs(db, FreqCond(c[1], part))
      /\ c = <<c[1], c[2]>>
  BY DEF CondPairs
<1>2. \A x \in c[2] : \E u : u \cap part = {c[1]} /\ x = u \ {c[1]}
  BY <1>1 DEF SiblingPairs, FreqCond
<1>3. (UNION c[2]) \cap part = {} /\ c[1] \notin UNION c[2]
  BY <1>2
<1> QED
  BY <1>1, <1>3

\* What is left of an itemset in both parts without its only item in a part is
\* an itemset still.
LEMMA CondType ==
  ASSUME AtJoin, NEW i, NEW part
  PROVE  FreqCond(i, part) \in SUBSET Itemset
<1> SUFFICES ASSUME NEW x \in FreqCond(i, part) PROVE x \in Itemset
  OBVIOUS
<1>1. PICK u \in freq_prev : u \cap part = {i} /\ x = u \ {i}
  BY DEF FreqCond
<1>2. u \in Itemset /\ InBothParts(u)
  BY DEF AtJoin, TypeOK, CrossFrequent
<1>3. u # {i}
  BY <1>2 DEF InBothParts, F1_1, F1_2
<1> QED
  BY <1>1, <1>2, <1>3 DEF Itemset

\* Two conditional joins of whatever part never make the same candidate.
LEMMA CondUnique ==
  ASSUME AtJoin,
         NEW c \in CondPairs(F1_1, freq2) \cup CondPairs(F1_2, freq1),
         NEW d \in CondPairs(F1_1, freq2) \cup CondPairs(F1_2, freq1),
         {c[1]} \cup UNION c[2] = {d[1]} \cup UNION d[2]
  PROVE  c = d
<1> DEFINE C == {c[1]} \cup UNION c[2]
<1>1. ASSUME NEW part, NEW patterns, c \in CondPairs(part, patterns),
             d \in CondPairs(part, patterns)
      PROVE  c = d
  <2>1. /\ C \cap part = {c[1]} /\ C \cap part = {d[1]}
        /\ c[1] \notin UNION c[2] /\ d[1] \notin UNION d[2]
        /\ c[2] \in SiblingPairs(db, FreqCond(c[1], part))
        /\ d[2] \in SiblingPairs(db, FreqCond(d[1], part))
        /\ c = <<c[1], c[2]>> /\ d = <<d[1], d[2]>>
    BY <1>1, CondShare
  <2>2. c[1] = d[1]
    BY <2>1
  <2>3. UNION c[2] = C \ {c[1]} /\ UNION d[2] = C \ {d[1]}
    BY <2>1
  <2>4. UNION c[2] = UNION d[2]
    BY <2>2, <2>3
  <2>5. FreqCond(c[1], part) \in SUBSET Itemset /\ FreqCond(d[1], part) \in SUBSET Itemset
    BY CondType
  <2>6. c[2] = d[2]
    BY <2>1, <2>4, <2>5, PairUnique
  <2> QED
    BY <2>1, <2>2, <2>6
<1>2. ASSUME NEW a \in CondPairs(F1_1, freq2), NEW b \in CondPairs(F1_2, freq1),
             {a[1]} \cup UNION a[2] = {b[1]} \cup UNION b[2]
      PROVE  FALSE
  <2> DEFINE A == {a[1]} \cup UNION a[2]
  <2>1. F1_1 \in SUBSET Item /\ k > 2 /\ k \in Nat /\ support \in Nat
    BY FiniteJoins DEF AtJoin, TypeOK
  <2>2. A \in Itemset /\ Cardinality(A) = k
    BY <2>1, CondCandidate
  <2>3. A \cap F1_1 = {a[1]} /\ A \cap F1_2 = {b[1]}
    BY <1>2, CondShare
  <2>4. A \subseteq F1_1 \cup F1_2
    <3>1. PICK x \in freq_prev : x \cap F1_1 = {a[1]}
      <4>1. a[2] \in SiblingPairs(db, FreqCond(a[1], F1_1))
        BY CondShare
      <4>2. PICK y \in a[2] : y \in FreqCond(a[1], F1_1)
        BY <4>1 DEF SiblingPairs
      <4> QED
        BY <4>2 DEF FreqCond
    <3>2. \A x1 \in freq_prev : x1 \subseteq F1_1 \cup F1_2
      BY <2>1, FrequentItems DEF AtJoin, CrossFrequent, FrequentOfSize
    <3>3. \A y \in a[2] : \E u \in freq_prev : y \subseteq u
      <4>1. a[2] \in SiblingPairs(db, FreqCond(a[1], F1_1))
        BY CondShare
      <4>2. \A y \in a[2] : y \in FreqCond(a[1], F1_1)
        BY <4>1 DEF SiblingPairs
      <4> QED
        BY <4>2 DEF FreqCond
    <3>4. a[1] \in F1_1
      BY <2>3
    <3> QED
      BY <3>2, <3>3, <3>4
  <2>5. A \subseteq {a[1], b[1]}
    BY <2>3, <2>4
  <2>6. Cardinality(A) <= 2
    <3>1. IsFiniteSet({a[1]}) /\ Cardinality({a[1]}) = 1
      BY FS_Singleton
    <3>2. /\ IsFiniteSet({a[1]} \cup {b[1]})
          /\ Cardinality({a[1]} \cup {b[1]}) \in {1, 2}
      <4>1. /\ IsFiniteSet({a[1]} \cup {b[1]})
            /\ Cardinality({a[1]} \cup {b[1]})
                 = IF b[1] \in {a[1]} THEN Cardinality({a[1]}) ELSE Cardinality({a[1]}) + 1
        BY <3>1, FS_AddElement
      <4> QED
        BY <3>1, <4>1
    <3>3. A \subseteq {a[1]} \cup {b[1]}
      BY <2>5
    <3>4. Cardinality(A) <= Cardinality({a[1]} \cup {b[1]})
      BY <3>2, <3>3, FS_Subset
    <3> QED
      BY <2>1, <2>2, <3>2, <3>4
  <2> QED
    BY <2>1, <2>2, <2>6
<1> QED
  BY <1>1, <1>2

\* So the conditional joins make as many candidates as they find pairs.
LEMMA CondOnce ==
  ASSUME AtJoin
  PROVE  LET pairs == CondPairs(F1_1, freq2) \cup CondPairs(F1_2, freq1)
             T == {{c[1]} \cup UNION c[2] : c \in pairs}
         IN IsFiniteSet(T) /\ Cardinality(T) = Cardinality(pairs)
<1> DEFINE pairs == CondPairs(F1_1, freq2) \cup CondPairs(F1_2, freq1)
           T == {{c[1]} \cup UNION c[2] : c \in pairs}
           f == [c \in pairs |-> {c[1]} \cup UNION c[2]]
<1>1. IsFiniteSet(pairs)
  BY FiniteJoins DEF AtJoin
<1>2. \A c, d \in pairs : f[c] = f[d] => c = d
  BY CondUnique
<1>3. f \in [pairs -> T] /\ \A t \in T : \E c \in pairs : f[c] = t
  <2> HIDE DEF pairs
  <2> QED
    OBVIOUS
<1> HIDE DEF pairs, T, f
<1>4. IsFiniteSet(T) /\ Cardinality(T) = Cardinality(pairs)
  BY <1>1, <1>2, <1>3, ImageCardinality
<1> QED
  BY <1>4 DEF T, pairs

\* And none of them is a plain candidate: check_supports accepts an itemset
\* only if each part has two items of it.
LEMMA CondNotPlain ==
  ASSUME AtJoin,
         NEW c \in CondPairs(F1_1, freq2) \cup CondPairs(F1_2, freq1)
  PROVE  {c[1]} \cup UNION c[2] \notin {UNION p : p \in JoinPairs}
<1> DEFINE C == {c[1]} \cup UNION c[2]
<1>1. SUFFICES ASSUME NEW p \in JoinPairs, UNION p = C PROVE FALSE
  OBVIOUS
<1>2. C \cap F1_1 = {c[1]} \/ C \cap F1_2 = {c[1]}
  BY CondShare
<1>3. CheckSupports(UNION p)
  BY DEF JoinPairs, Accepted
<1>4. C \ {c[1]} \in freq_prev
  BY <1>1, <1>3 DEF CheckSupports
<1>5. InBothParts(C \ {c[1]})
  BY <1>4 DEF AtJoin, CrossFrequent
<1> QED
  BY <1>2, <1>5 DEF InBothParts

\* num_candidates counts the candidates of a level, step by step.
LEMMA OnceNext == MergeInv /\ MergeGeneratedOnce /\ [Next]_vars => MergeGeneratedOnce'
<1> SUFFICES ASSUME MergeInv, MergeGeneratedOnce, [Next]_vars
             PROVE  num_candidates' = Cardinality(candidates')
  BY DEF MergeGeneratedOnce
<1>1. CASE CrossProduct
  <2> DEFINE T == {{i, j} : i \in F1_1, j \in F1_2}
             f == [c \in F1_1 \X F1_2 |-> {c[1], c[2]}]
  <2>1. IsFiniteSet(F1_1 \X F1_2)
        /\ Cardinality(F1_1 \X F1_2) = Cardinality(F1_1) * Cardinality(F1_2)
    BY FiniteJoins, FS_Product DEF MergeInv
  <2>2. F1_1 \cap F1_2 = {}
    BY DEF F1_1, F1_2
  <2>3. \A c, d \in F1_1 \X F1_2 : f[c] = f[d] => c = d
    <3> SUFFICES ASSUME NEW c1 \in F1_1, NEW c2 \in F1_2, NEW d1 \in F1_1, NEW d2 \in F1_2,
                        {c1, c2} = {d1, d2}
                 PROVE  c1 = d1 /\ c2 = d2
      OBVIOUS
    <3> QED
      BY <2>2
  <2>4. f \in [F1_1 \X F1_2 -> T]
    <3>1. ASSUME NEW c \in F1_1 \X F1_2 PROVE {c[1], c[2]} \in T
      <4>1. c[1] \in F1_1 /\ c[2] \in F1_2
        BY <3>1
      <4> QED
        BY <4>1
    <3> QED
      BY <3>1
  <2>5. \A t \in T : \E c \in F1_1 \X F1_2 : f[c] = t
    <3> HIDE DEF T, f
    <3> SUFFICES ASSUME NEW t \in T PROVE \E c \in F1_1 \X F1_2 : f[c] = t
      OBVIOUS
    <3>1. PICK i \in F1_1, j \in F1_2 : t = {i, j}
      BY DEF T
    <3>2. <<i, j>> \in F1_1 \X F1_2 /\ f[<<i, j>>] = {i, j}
      BY DEF f
    <3> QED
      BY <3>1, <3>2
  <2> HIDE DEF T, f
  <2>6. Cardinality(T) = Cardinality(F1_1) * Cardinality(F1_2)
    BY <2>1, <2>3, <2>4, <2>5, ImageCardinality
  <2> QED
    BY <1>1, <2>6 DEF CrossProduct, T
<1>2. CASE Join
  <2>1. AtJoin
    BY <1>2 DEF Join, AtJoin, MergeInv, LevelInv
  <2> QED
    BY <1>2, <2>1, PlainOnce DEF Join
<1>3. CASE JoinConditional
  <2> DEFINE pairs == CondPairs(F1_1, freq2) \cup CondPairs(F1_2, freq1)
             T == {{c[1]} \cup UNION c[2] : c \in pairs}
  <2>1. AtJoin /\ candidates = {UNION p : p \in JoinPairs}
    BY <1>3 DEF JoinConditional, AtJoin, MergeInv, LevelInv
  <2>2. IsFiniteSet(T) /\ Cardinality(T) = Cardinality(pairs)
    BY <2>1, CondOnce
  <2>3. candidates \cap T = {}
    BY <2>1, CondNotPlain
  <2>4. candidates' = candidates \cup T /\ num_candidates' = num_candidates + Cardinality(pairs)
    BY <1>3 DEF JoinConditional
  <2>5. IsFiniteSet(candidates) /\ Cardinality(candidates) \in Nat
    <3>1. IsFiniteSet(SUBSET Item) /\ candidates \subseteq SUBSET Item
      BY FiniteSets, FS_SUBSET DEF MergeInv, TypeOK, Itemset
    <3> QED
      BY <3>1, FS_Subset, FS_CardinalityType
  <2> HIDE DEF T, pairs
  <2>6. Cardinality(candidates \cup T) = Cardinality(candidates) + Cardinality(T)
    <3>1. Cardinality(T) \in Nat /\ Cardinality(candidates \cap T) = 0
      BY <2>2, <2>3, FS_CardinalityType, FS_EmptySet
    <3>2. Cardinality(candidates \cup T)
            = Cardinality(candidates) + Cardinality(T) - Cardinality(candidates \cap T)
      BY <2>2, <2>5, FS_Union
    <3> QED
      BY <2>5, <3>1, <3>2
  <2> QED
    BY <2>2, <2>4, <2>6 DEF MergeGeneratedOnce
<1>4. CASE CountCandidates
  BY <1>4, FS_EmptySet DEF CountCandidates
<1>5. CASE Exhausted \/ UNCHANGED vars
  BY <1>5 DEF Exhausted, vars, MergeGeneratedOnce
<1> QED
  BY <1>1, <1>2, <1>3, <1>4, <1>5 DEF Next

\* No candidate is generated twice, neither within a join nor by two of them.
THEOREM MergeOnce == Spec => []MergeGeneratedOnce
<1>1. Init => MergeGeneratedOnce
  BY FS_EmptySet DEF Init, MergeGeneratedOnce
<1> QED
  BY <1>1, OnceNext, MergeInvariance, PTL DEF Spec

-----------------------------------------------------------------------------
(* The steps come to an end.                                               *)

\* No level is merged above the number of items: a level has candidates.
LevelBound == k <= NumItems + 1

LEMMA LevelBounded == Spec => []LevelBound
<1>1. ASSUME Init PROVE LevelBound
  <2>1. start \in Nat \ {0, 1} /\ FrequentOfSize(db, support, start - 1) # {} /\ k = start
    BY <1>1, MergeAssumption DEF Init
  <2>2. PICK X \in Itemset : Cardinality(X) = start - 1
    BY <2>1 DEF FrequentOfSize
  <2>3. Cardinality(X) <= NumItems /\ NumItems \in Nat
    BY ItemsetSize, SizesAssumption
  <2> QED
    BY <2>1, <2>2, <2>3 DEF LevelBound
<1>2. ASSUME MergeInv, LevelBound, [Next]_vars PROVE LevelBound'
  <2>1. CASE CountCandidates
    <3>1. PICK c \in candidates : TRUE
      BY <2>1 DEF CountCandidates
    <3>2. c \in Itemset /\ Cardinality(c) = k /\ k \in Nat
      BY <1>2, <2>1, <3>1 DEF CountCandidates, MergeInv, TypeOK, CountInv
    <3>3. Cardinality(c) <= NumItems /\ NumItems \in Nat
      BY <3>2, ItemsetSize, SizesAssumption
    <3>4. k' = k + 1
      BY <2>1 DEF CountCandidates
    <3> QED
      BY <3>2, <3>3, <3>4 DEF LevelBound
  <2>2. CASE CrossProduct \/ Join \/ JoinConditional \/ Exhausted \/ UNCHANGED vars
    <3>1. k' = k
      BY <2>2 DEF CrossProduct, Join, JoinConditional, Exhausted, vars
    <3> QED
      BY <1>2, <3>1 DEF LevelBound
  <2> QED
    BY <1>2, <2>1, <2>2 DEF Next
<1> QED
  BY <1>1, <1>2, MergeInvariance, PTL DEF Spec

\* What is left to do: the return, the levels and the joins of a level.
Phase == IF pc = "done" THEN 0 ELSE 1

JoinsLeft == IF pc = "level" THEN 2 ELSE IF pc = "joined" THEN 1 ELSE 0

ToDo == <<Phase, NumItems + 1 - k, JoinsLeft>>

LEMMA ToDoFalls ==
  ASSUME TypeOK, LevelBound, TypeOK', LevelBound',
         \/ Phase' < Phase
         \/ Phase' = Phase /\ k < k'
         \/ Phase' = Phase /\ k' = k /\ JoinsLeft' < JoinsLeft
  PROVE  Falls(3, ToDo, ToDo')
<1> DEFINE a == Phase
           n == k
           b == NumItems + 1 - n
           c == JoinsLeft
           a2 == Phase'
           n2 == k'
           b2 == NumItems + 1 - n2
           c2 == JoinsLeft'
<1>1. a \in Nat /\ c \in Nat /\ a2 \in Nat /\ c2 \in Nat
  BY DEF Phase, JoinsLeft
<1>2. /\ n \in Nat /\ n <= NumItems + 1
      /\ n2 \in Nat /\ n2 <= NumItems + 1 /\ NumItems \in Nat
  BY SizesAssumption DEF TypeOK, LevelBound
<1>3. \/ a2 < a
      \/ a2 = a /\ n < n2
      \/ a2 = a /\ n2 = n /\ c2 < c
  OBVIOUS
<1>4. ToDo = <<a, b, c>> /\ ToDo' = <<a2, b2, c2>>
  BY DEF ToDo
<1> HIDE DEF a, n, c, a2, n2, c2
<1>5. /\ b \in Nat /\ b2 \in Nat
      /\ n < n2 => b2 < b
      /\ n2 = n => b2 = b
  BY ONLY <1>2
<1> HIDE DEF b, b2
<1>6. \/ a2 < a
      \/ a2 = a /\ b2 < b
      \/ a2 = a /\ b2 = b /\ c2 < c
  BY ONLY <1>3, <1>5
<1> QED
  BY <1>1, <1>4, <1>5, <1>6, FallsThree

\* Each step leaves less to do, in the order of these numbers: the merge does
\* not go on for ever (FallsEnd), however many itemsets there are.
THEOREM MergeStepsRunOut == Spec => [][Falls(3, ToDo, ToDo')]_vars
<1>1. /\ MergeInv /\ LevelBound /\ MergeInv' /\ LevelBound' /\ [Next]_vars
      => [Falls(3, ToDo, ToDo')]_vars
  <2> SUFFICES ASSUME MergeInv, LevelBound, MergeInv', LevelBound', Next
               PROVE  Falls(3, ToDo, ToDo')
    OBVIOUS
  <2>1. TypeOK /\ TypeOK' /\ k \in Nat
    BY DEF MergeInv, TypeOK
  <2>2. CASE CrossProduct
    <3>1. Phase' = Phase /\ k' = k /\ JoinsLeft' < JoinsLeft
      BY <2>2 DEF CrossProduct, Phase, JoinsLeft
    <3> QED
      BY <2>1, <3>1, ToDoFalls
  <2>3. CASE Join
    <3>1. Phase' = Phase /\ k' = k /\ JoinsLeft' < JoinsLeft
      BY <2>3 DEF Join, Phase, JoinsLeft
    <3> QED
      BY <2>1, <3>1, ToDoFalls
  <2>4. CASE JoinConditional
    <3>1. Phase' = Phase /\ k' = k /\ JoinsLeft' < JoinsLeft
      BY <2>4 DEF JoinConditional, Phase, JoinsLeft
    <3> QED
      BY <2>1, <3>1, ToDoFalls
  <2>5. CASE CountCandidates
    <3>1. Phase' = Phase /\ k < k'
      BY <2>1, <2>5 DEF CountCandidates, Phase
    <3> QED
      BY <2>1, <3>1, ToDoFalls
  <2>6. CASE Exhausted
    <3>1. Phase' < Phase
      BY <2>6 DEF Exhausted, Phase
    <3> QED
      BY <2>1, <3>1, ToDoFalls
  <2> QED
    BY <2>2, <2>3, <2>4, <2>5, <2>6 DEF Next
<1> QED
  BY <1>1, MergeInvariance, LevelBounded, PTL DEF Spec
=============================================================================
