--------------------------- MODULE CandMinerProofs ---------------------------
(***************************************************************************)
(* What CandMiner promises holds for all sizes: the candidates generated   *)
(* from given patterns are exactly the itemsets made of them, and every    *)
(* route finds those that are frequent.                                    *)
(***************************************************************************)
EXTENDS CandMiner, ItemsetsProofs

-----------------------------------------------------------------------------
(* Itemsets made of given patterns.                                        *)

\* An itemset without one of its items.
LEMMA WithoutItem ==
  ASSUME NEW X \in Itemset, NEW i \in X
  PROVE  /\ Cardinality(X \ {i}) = Cardinality(X) - 1
         /\ Cardinality(X) # 1 => X \ {i} \in Itemset
<1>1. /\ X \in SUBSET Item /\ IsFiniteSet(X) /\ Cardinality(X) \in Nat \ {0}
  BY ItemsetSize
<1>2. Cardinality(X \ {i}) = Cardinality(X) - 1
  BY <1>1, FS_RemoveElement
<1>3. Cardinality(X) # 1 => X \ {i} # {}
  BY <1>1, <1>2, FS_EmptySet
<1> QED
  BY <1>1, <1>2, <1>3 DEF Itemset

\* A subset of an itemset is no larger.
LEMMA SmallerSubset ==
  ASSUME NEW X \in Itemset, NEW Y \in SUBSET X
  PROVE  /\ Cardinality(Y) \in Nat /\ Cardinality(Y) <= Cardinality(X)
         /\ Cardinality(Y) = Cardinality(X) => Y = X
<1>1. IsFiniteSet(X) /\ Cardinality(X) \in Nat /\ X \in SUBSET Item
  BY ItemsetSize
<1>2. Y \in SUBSET Item /\ Cardinality(Y) \in Nat
  BY <1>1, FiniteSets
<1>3. Cardinality(Y) <= Cardinality(X) /\ (Cardinality(Y) = Cardinality(X) => Y = X)
  BY <1>1, FS_Subset
<1> QED
  BY <1>2, <1>3

\* What the walk of a level and its candidate walks yield after pruning is
\* every itemset of one item more all of whose parents are in the level.
LEMMA JoinOfLevel ==
  ASSUME NEW d, NEW n \in Nat \ {0}, NEW S \in SUBSET Itemset,
         \A X \in S : Cardinality(X) = n
  PROVE  \A X : (\A i \in X : X \ {i} \in S) =>
           (X \in {UNION p : p \in SiblingPairs(d, S)}
              <=> X \in Itemset /\ Cardinality(X) = n + 1)
<1> DEFINE C == {UNION p : p \in SiblingPairs(d, S)}
           J == {X \in Itemset : Cardinality(X) = n + 1 /\ \A i \in X : X \ {i} \in S}
<1>1. ASSUME NEW c \in C
      PROVE  c \in Itemset /\ Cardinality(c) = n + 1
  <2>1. PICK p \in SiblingPairs(d, S) : c = UNION p
    OBVIOUS
  <2>2. p \in SUBSET S
    BY <2>1 DEF SiblingPairs
  <2>3. PICK x, y \in p : p = {x, y} /\ Siblings(d, x, y)
    BY <2>1 DEF SiblingPairs
  <2>4. x \in Itemset /\ y \in Itemset /\ Cardinality(x) = n
    BY <2>2
  <2>5. c = x \cup y
    BY <2>1, <2>3
  <2> QED
    BY <2>3, <2>4, <2>5, SiblingsJoin
<1>2. ASSUME NEW X \in J
      PROVE  X \in C
  <2>1. X \in Itemset /\ Cardinality(X) >= 2
    OBVIOUS
  <2>2. PICK a, b \in X : a # b /\ Siblings(d, X \ {a}, X \ {b})
    BY <2>1, LastTwo
  <2> DEFINE p == {X \ {a}, X \ {b}}
  <2>3. p \in SUBSET S
    OBVIOUS
  <2>4. p \in SiblingPairs(d, S)
    BY <2>2, <2>3 DEF SiblingPairs
  <2>5. X = UNION p
    BY <2>2
  <2> QED
    BY <2>4, <2>5
<1> QED
  BY <1>1, <1>2

\* All larger itemsets made of given patterns have their parents made of them,
\* and the other way round: one level of pruning is as good as all.
LEMMA MadeOfParents ==
  ASSUME NEW d, NEW m, NEW g \in Nat \ {0}, NEW X \in Itemset, g < Cardinality(X)
  PROVE  Made(d, m, g, X) <=> \A i \in X : Made(d, m, g, X \ {i})
<1>1. ASSUME Made(d, m, g, X), NEW i \in X
      PROVE  Made(d, m, g, X \ {i})
  BY <1>1 DEF Made
<1>2. ASSUME \A i \in X : Made(d, m, g, X \ {i})
      PROVE  Made(d, m, g, X)
  <2> SUFFICES ASSUME NEW Y \in SUBSET X, Cardinality(Y) = g
               PROVE  Frequent(d, m, Y)
    BY DEF Made
  <2>1. Y # X
    OBVIOUS
  <2>2. PICK i \in X : i \notin Y
    BY <2>1
  <2>3. Y \in SUBSET (X \ {i})
    BY <2>2
  <2> QED
    BY <1>2, <2>3 DEF Made
<1> QED
  BY <1>1, <1>2

\* The next level of generated candidates.
LEMMA NextLevel ==
  ASSUME NEW d, NEW m, NEW g \in Nat \ {0}, NEW n \in Nat, g <= n
  PROVE  {X \in Itemset : /\ Cardinality(X) = n + 1
                          /\ \A i \in X : X \ {i} \in Level(d, m, g, n)}
           = Level(d, m, g, n + 1)
<1>1. ASSUME NEW X \in Itemset, Cardinality(X) = n + 1
      PROVE  (\A i \in X : X \ {i} \in Level(d, m, g, n)) <=> Made(d, m, g, X)
  <2>1. \A i \in X : X \ {i} \in Itemset /\ Cardinality(X \ {i}) = n
    BY <1>1, WithoutItem
  <2>2. Made(d, m, g, X) <=> \A i \in X : Made(d, m, g, X \ {i})
    BY <1>1, MadeOfParents
  <2> QED
    BY <2>1, <2>2 DEF Level
<1> QED
  BY <1>1 DEF Level

\* An itemset made of given patterns has subsets of each size made of them.
LEMMA MadeSubset ==
  ASSUME NEW d, NEW m, NEW g \in Nat \ {0}, NEW X \in Itemset, Made(d, m, g, X),
         NEW n \in Nat \ {0}, n <= Cardinality(X)
  PROVE  \E Z \in SUBSET X : Z \in Itemset /\ Cardinality(Z) = n /\ Made(d, m, g, Z)
<1>1. X \in SUBSET Item
  BY ItemsetSize
<1>2. PICK Z \in SUBSET X : Cardinality(Z) = n
  BY <1>1, SubsetOfSize
<1>3. Z # {}
  BY <1>2, FS_EmptySet
<1>4. Z \in Itemset
  BY <1>1, <1>3 DEF Itemset
<1>5. Made(d, m, g, Z)
  BY DEF Made
<1> QED
  BY <1>2, <1>4, <1>5

\* Once a level is empty no larger itemset is made of the given patterns.
LEMMA EmptyLevel ==
  ASSUME NEW d, NEW m, NEW g \in Nat \ {0}, NEW n \in Nat \ {0},
         Level(d, m, g, n) = {}, NEW X \in Itemset, Made(d, m, g, X)
  PROVE  Cardinality(X) < n
<1> SUFFICES ASSUME n <= Cardinality(X)
             PROVE  FALSE
  BY ItemsetSize
<1> QED
  BY MadeSubset DEF Level

\* The itemsets below a level and those of the level.
LEMMA BelowNext ==
  ASSUME NEW d, NEW m, NEW g \in Nat, NEW n \in Nat, g < n
  PROVE  Below(d, m, g, n + 1) = Below(d, m, g, n) \cup Level(d, m, g, n)
<1>1. ASSUME NEW X \in Itemset
      PROVE  X \in Below(d, m, g, n + 1) <=>
               X \in Below(d, m, g, n) \/ X \in Level(d, m, g, n)
  <2>1. Cardinality(X) \in Nat
    BY ItemsetSize
  <2>2. Cardinality(X) < n + 1 <=> Cardinality(X) < n \/ Cardinality(X) = n
    BY <2>1
  <2>3. Cardinality(X) = n => g < Cardinality(X)
    OBVIOUS
  <2> QED
    BY <2>2, <2>3 DEF Below, Level
<1>2. /\ Below(d, m, g, n + 1) \subseteq Itemset
      /\ Below(d, m, g, n) \subseteq Itemset
      /\ Level(d, m, g, n) \subseteq Itemset
  BY DEF Below, Level
<1> QED
  BY <1>1, <1>2

\* Items of an itemset made of patterns of support m have that support.
LEMMA MadeItems ==
  ASSUME NEW d, NEW m \in Nat, NEW g \in Nat \ {0},
         NEW X \in Itemset, Made(d, m, g, X), g <= Cardinality(X), NEW i \in X
  PROVE  Count(d, i) >= m
<1>1. X \in SUBSET Item /\ X \ {i} \in SUBSET Item
  BY ItemsetSize
<1>2. Cardinality(X \ {i}) = Cardinality(X) - 1 /\ Cardinality(X) \in Nat
  BY ItemsetSize, WithoutItem
<1>3. PICK Y \in SUBSET (X \ {i}) : Cardinality(Y) = g - 1
  <2>1. g - 1 \in Nat /\ g - 1 <= Cardinality(X \ {i})
    BY <1>2
  <2> QED
    BY <1>1, <2>1, SubsetOfSize
<1>4. IsFiniteSet(Y) /\ i \notin Y
  BY <1>1, <1>3, FiniteSets
<1>5. Cardinality(Y \cup {i}) = g
  <2>1. Cardinality(Y \cup {i}) = Cardinality(Y) + 1
    BY <1>4, FS_AddElement
  <2> QED
    BY <1>3, <2>1
<1>6. Support(d, Y \cup {i}) >= m
  BY <1>3, <1>5 DEF Made, Frequent
<1>7. Support(d, Y \cup {i}) <= Support(d, {i})
  BY SupportAntitone
<1>8. Support(d, Y \cup {i}) \in Nat /\ Support(d, {i}) \in Nat
  BY SupportType
<1> QED
  BY <1>6, <1>7, <1>8 DEF Count

\* Subsets of frequent itemsets are frequent.
LEMMA FrequentParents ==
  ASSUME NEW d, NEW s \in Nat, NEW X, Frequent(d, s, X), NEW Y \in SUBSET X
  PROVE  Frequent(d, s, Y)
<1>1. Support(d, X) <= Support(d, Y)
  BY SupportAntitone
<1> QED
  BY <1>1, SupportType DEF Frequent

-----------------------------------------------------------------------------
(* The candidates as the miners read them.                                 *)

\* A bounded set of numbers has a largest one.
LEMMA LargestOf ==
  ASSUME NEW N \in Nat, NEW S \in SUBSET (0 .. N), S # {}
  PROVE  \E n \in S : \A l \in S : l <= n
<1> DEFINE Gaps == {m \in Nat : \E n \in S : m = N - n}
           R == OpToRel(<, Nat)
<1>1. PICK m \in Gaps : \A n \in Nat : <<n, m>> \in R => n \notin Gaps
  <2>1. PICK n \in S : TRUE
    OBVIOUS
  <2>2. N - n \in Gaps
    BY <2>1
  <2>3. Gaps # {} /\ Gaps \subseteq Nat
    BY <2>2
  <2>4. IsWellFoundedOn(R, Nat)
    BY NatLessThanWellFounded
  <2> HIDE DEF Gaps, R
  <2> QED
    BY <2>3, <2>4, WFMin
<1>2. PICK n \in S : m = N - n
  BY <1>1
<1>3. \A l \in S : l <= n
  <2> SUFFICES ASSUME NEW l \in S, l > n
               PROVE  FALSE
    OBVIOUS
  <2>1. N - l \in Gaps /\ N - l \in Nat /\ m \in Nat /\ N - l < m
    BY <1>2
  <2>2. <<N - l, m>> \in R
    BY <2>1 DEF OpToRel
  <2> QED
    BY <1>1, <2>1, <2>2
<1> QED
  BY <1>3

\* The candidates have every length from the first after the given patterns
\* to the longest: the miners find the first level to mine and the last.
LEMMA CandidateLengths ==
  ASSUME TypeOK, candidates = Limited(db, mined, given, gen_level), candidates # {}
  PROVE  /\ Longest \in Nat /\ given < Longest
         /\ \A X \in candidates : Cardinality(X) <= Longest
         /\ \A n \in given + 1 .. Longest : OfSize(n) # {}
         /\ (CHOOSE n \in {Cardinality(X) : X \in candidates} : OfSize(n - 1) = {})
              = given + 1
<1> DEFINE Sizes == {Cardinality(X) : X \in candidates}
<1>1. given \in Nat \ {0} /\ gen_level \in Nat
  BY DEF TypeOK
<1>2. \A X \in candidates :
        /\ X \in Itemset /\ Made(db, mined, given, X)
        /\ Cardinality(X) \in Nat /\ Cardinality(X) <= NumItems
        /\ given < Cardinality(X) /\ ~ Beyond(gen_level, Cardinality(X))
  BY ItemsetSize DEF Limited
<1>3. \A X \in candidates : \A n \in given + 1 .. Cardinality(X) : OfSize(n) # {}
  <2> SUFFICES ASSUME NEW X \in candidates, NEW n \in given + 1 .. Cardinality(X)
               PROVE  \E Z \in candidates : Cardinality(Z) = n
    BY DEF OfSize
  <2>1. n \in Nat \ {0} /\ n <= Cardinality(X) /\ given < n
    BY <1>1, <1>2
  <2>2. PICK Z \in SUBSET X :
          Z \in Itemset /\ Cardinality(Z) = n /\ Made(db, mined, given, Z)
    BY <1>1, <1>2, <2>1, MadeSubset
  <2>3. ~ Beyond(gen_level, n)
    BY <1>1, <1>2, <2>1 DEF Beyond
  <2> QED
    BY <2>1, <2>2, <2>3 DEF Limited
<1>4. Sizes \subseteq given + 1 .. NumItems /\ Sizes # {}
  BY <1>1, <1>2, SizesAssumption
<1>5. PICK last \in Sizes : \A n \in Sizes : n <= last
  <2>1. Sizes \in SUBSET (0 .. NumItems) /\ NumItems \in Nat
    BY <1>1, <1>4, SizesAssumption
  <2> HIDE DEF Sizes
  <2> QED
    BY <1>4, <2>1, LargestOf
<1>6. \A n \in Sizes : OfSize(n + 1) = {} <=> n = last
  <2> SUFFICES ASSUME NEW n \in Sizes
               PROVE  OfSize(n + 1) = {} <=> n = last
    OBVIOUS
  <2>1. n \in Nat /\ last \in Nat /\ n <= last /\ given < n
    BY <1>1, <1>4, <1>5
  <2>2. ASSUME n # last
        PROVE  OfSize(n + 1) # {}
    <3>1. PICK X \in candidates : last = Cardinality(X)
      BY <1>5
    <3>2. n + 1 \in given + 1 .. Cardinality(X)
      BY <1>1, <2>1, <2>2, <3>1
    <3> QED
      BY <1>3, <3>2
  <2>3. OfSize(last + 1) = {}
    <3> SUFFICES ASSUME NEW X \in candidates, Cardinality(X) = last + 1
                 PROVE  FALSE
      BY DEF OfSize
    <3>1. Cardinality(X) \in Sizes
      OBVIOUS
    <3> QED
      BY <1>5, <2>1, <3>1
  <2> QED
    BY <2>2, <2>3
<1>7. Longest = last
  <2>1. \E n \in Sizes : OfSize(n + 1) = {}
    BY <1>5, <1>6
  <2>2. Longest \in Sizes /\ OfSize(Longest + 1) = {}
    BY <2>1 DEF Longest
  <2> QED
    BY <1>6, <2>2
<1>8. PICK longest \in candidates : Cardinality(longest) = last
  BY <1>5
<1>9. \A n \in given + 1 .. last : OfSize(n) # {}
  BY <1>3, <1>8
<1>10. \A n \in Sizes : OfSize(n - 1) = {} <=> n = given + 1
  <2> SUFFICES ASSUME NEW n \in Sizes
               PROVE  OfSize(n - 1) = {} <=> n = given + 1
    OBVIOUS
  <2>1. n \in Nat /\ last \in Nat /\ n <= last /\ given < n
    BY <1>1, <1>4, <1>5
  <2>2. n # given + 1 => OfSize(n - 1) # {}
    <3>1. n # given + 1 => n - 1 \in given + 1 .. last
      BY <1>1, <2>1
    <3> QED
      BY <1>9, <3>1
  <2>3. OfSize(given) = {}
    BY <1>1, <1>2 DEF OfSize
  <2>4. n = given + 1 => n - 1 = given
    BY <1>1, <2>1
  <2> QED
    BY <2>2, <2>3, <2>4
<1>11. given + 1 \in Sizes
  <2>1. given + 1 \in given + 1 .. last
    BY <1>1, <1>4, <1>5
  <2>2. PICK X \in candidates : Cardinality(X) = given + 1
    BY <1>9, <2>1 DEF OfSize
  <2> QED
    BY <2>2
<1>12. (CHOOSE n \in Sizes : OfSize(n - 1) = {}) = given + 1
  <2> HIDE DEF Sizes
  <2> QED
    BY <1>10, <1>11
<1>13. \A X \in candidates : Cardinality(X) <= last
  BY <1>5
<1>14. last \in Nat /\ given < last
  BY <1>1, <1>4, <1>5
<1> QED
  BY <1>7, <1>9, <1>12, <1>13, <1>14

\* With a support no higher than that of the given patterns, each item of a
\* candidate has a tidlist.
LEMMA CandidateItems ==
  ASSUME TypeOK, candidates = Limited(db, mined, given, gen_level), support <= mined
  PROVE  \A n \in Nat : UNION OfSize(n) \subseteq F
<1> SUFFICES ASSUME NEW X \in candidates, NEW x \in X
             PROVE  x \in F
  BY DEF OfSize
<1>1. given \in Nat \ {0} /\ mined \in Nat /\ support \in Nat
  BY DEF TypeOK
<1>2. /\ X \in Itemset /\ Made(db, mined, given, X) /\ given < Cardinality(X)
      /\ X \in SUBSET Item /\ Cardinality(X) \in Nat
  BY ItemsetSize DEF Limited
<1>3. Count(db, x) >= mined
  BY <1>1, <1>2, MadeItems
<1>4. Count(db, x) \in Nat
  BY SupportType DEF Count
<1> QED
  BY <1>1, <1>2, <1>3, <1>4 DEF F

\* Covered in the terms of these lemmas.
LEMMA CoveredMade ==
  \A X : Covered(X) <=> Cardinality(X) > given /\ Made(db, mined, given, X)
BY DEF Covered, Made

\* The join of a level whose itemsets have n items.
LEMMA JoinedLevel ==
  ASSUME NEW n \in Nat \ {0}, freq \in SUBSET Itemset,
         \A X \in freq : Cardinality(X) = n
  PROVE  Joined = {X \in Itemset : /\ Cardinality(X) = n + 1
                                   /\ \A i \in X : X \ {i} \in freq}
<1>1. \A X : (\A i \in X : X \ {i} \in freq) =>
        (X \in {UNION p : p \in SiblingPairs(db, freq)}
           <=> X \in Itemset /\ Cardinality(X) = n + 1)
  BY JoinOfLevel, Zenon
<1> QED
  BY <1>1 DEF Joined, CheckSupports

\* The patterns of a union.
LEMMA FoundUnion ==
  /\ Found({}) = {}
  /\ \A A, B : Found(A \cup B) = Found(A) \cup Found(B)
BY DEF Found

-----------------------------------------------------------------------------
(* The invariant holds at first.                                           *)

\* The given patterns have a length.
LEMMA GivenLength ==
  ASSUME NEW d, NEW m \in Nat, NEW first \in Nat \ {0},
         FrequentOfSize(d, m, 1) # {}
  PROVE  \E n \in 1 .. first :
           /\ FrequentOfSize(d, m, n) # {}
           /\ n = first \/ FrequentOfSize(d, m, n + 1) = {}
<1> DEFINE S == {n \in 1 .. first : FrequentOfSize(d, m, n) # {}}
<1>1. 1 \in S
  OBVIOUS
<1>2. PICK n \in S : \A l \in S : l <= n
  <2>1. S \in SUBSET (0 .. first) /\ S # {} /\ first \in Nat
    BY <1>1
  <2> HIDE DEF S
  <2> QED
    BY <2>1, LargestOf
<1>3. n = first \/ FrequentOfSize(d, m, n + 1) = {}
  <2> SUFFICES ASSUME n # first, FrequentOfSize(d, m, n + 1) # {}
               PROVE  FALSE
    OBVIOUS
  <2>1. n + 1 \in S
    OBVIOUS
  <2> QED
    BY <1>2, <2>1
<1> QED
  BY <1>2, <1>3

LEMMA InitInvariant == Init => CandInv
<1> SUFFICES ASSUME Init
             PROVE  CandInv
  OBVIOUS
<1>1. db \in Database /\ support \in Nat \ {0} /\ mined \in Nat \ {0}
  BY InputAssumption DEF Init
<1>2. given \in Nat \ {0}
  <2>1. PICK first \in FirstLevels :
          given = CHOOSE n \in 1 .. first :
                    /\ FrequentOfSize(db, mined, n) # {}
                    /\ n = first \/ FrequentOfSize(db, mined, n + 1) = {}
    BY DEF Init
  <2>2. first \in Nat \ {0} /\ mined \in Nat /\ FrequentOfSize(db, mined, 1) # {}
    BY <1>1, FirstLevelsAssumption DEF Init
  <2>3. \E n \in 1 .. first :
          /\ FrequentOfSize(db, mined, n) # {}
          /\ n = first \/ FrequentOfSize(db, mined, n + 1) = {}
    BY <2>2, GivenLength
  <2>4. given \in 1 .. first
    BY <2>1, <2>3
  <2> QED
    BY <2>4
<1>3. /\ route \in Routes /\ gen_level \in Nat /\ max_level \in Nat
      /\ k = given + 1 /\ freq = FrequentOfSize(db, mined, given)
      /\ candidates = {} /\ out = {} /\ num_transactions = NumTxn
      /\ pc = IF route = "resume" THEN "resume" ELSE "gen"
  BY InputAssumption DEF Init
<1>4. freq \subseteq Itemset
  BY <1>3 DEF FrequentOfSize
<1>5. TypeOK
  BY <1>1, <1>2, <1>3, <1>4, SizesAssumption DEF TypeOK, Pc, Routes
<1>6. freq = Level(db, mined, given, given)
  <2>1. ASSUME NEW X \in Itemset, Cardinality(X) = given
        PROVE  Made(db, mined, given, X) <=> Frequent(db, mined, X)
    BY <2>1, SmallerSubset DEF Made
  <2> QED
    BY <1>3, <2>1 DEF FrequentOfSize, Level
<1>7. Below(db, mined, given, k) = {}
  <2>1. \A X \in Itemset : ~ (given < Cardinality(X) /\ Cardinality(X) < given + 1)
    BY <1>2, ItemsetSize
  <2> QED
    BY <1>3, <2>1 DEF Below
<1>8. k - 1 = given /\ given < k
  BY <1>2, <1>3
<1>9. RouteInv
  BY <1>3 DEF RouteInv, Routes
<1>10. GenerateInv
  BY <1>3, <1>6, <1>7, <1>8 DEF GenerateInv
<1>11. CandidatesInv /\ CountInv /\ FoundExact /\ UndefinedOnly
  BY <1>3 DEF CandidatesInv, CountInv, FoundExact,
              UndefinedOnly, MinerUndefinedOnly, CountUnknownOnly
<1>12. ResumeInv
  BY <1>3, <1>6, <1>7, <1>8 DEF ResumeInv, Found, FrequentAmong
<1> QED
  BY <1>5, <1>8, <1>9, <1>10, <1>11, <1>12 DEF CandInv

-----------------------------------------------------------------------------
(* The steps keep it.                                                      *)

\* One turn of the loop of gen_candidates adds the next level.
LEMMA GenerateLevelStep ==
  ASSUME CandInv, GenerateLevel
  PROVE  CandInv'
<1>1. /\ pc = "gen" /\ pc' = "gen" /\ freq' = Joined /\ k' = k + 1
      /\ candidates' = candidates \cup Joined
      /\ ~ Beyond(gen_level, k)
      /\ UNCHANGED <<db, support, mined, given, route, gen_level, max_level, out,
                     num_transactions>>
  BY DEF GenerateLevel, inputs
<1>2. /\ given \in Nat \ {0} /\ k \in Nat /\ given < k
      /\ freq = Level(db, mined, given, k - 1)
      /\ candidates = Below(db, mined, given, k)
  BY <1>1 DEF CandInv, TypeOK, GenerateInv
<1>3. Joined = Level(db, mined, given, k)
  <2>1. freq \in SUBSET Itemset /\ \A X \in freq : Cardinality(X) = k - 1
    BY <1>2 DEF Level
  <2>2. k - 1 \in Nat \ {0} /\ k - 1 \in Nat /\ given <= k - 1 /\ (k - 1) + 1 = k
    BY <1>2
  <2>4. Joined = {X \in Itemset : Cardinality(X) = k /\ \A i \in X : X \ {i} \in freq}
    <3> DEFINE n == k - 1
    <3>1. n \in Nat \ {0} /\ \A X \in freq : Cardinality(X) = n
      BY <2>1, <2>2
    <3>2. n + 1 = k
      BY <2>2
    <3> HIDE DEF n
    <3> QED
      BY <2>1, <3>1, <3>2, JoinedLevel
  <2> QED
    BY <1>2, <2>2, <2>4, NextLevel
<1>4. candidates' = Below(db, mined, given, k + 1)
  BY <1>1, <1>2, <1>3, BelowNext
<1>5. k' - 1 = k /\ k' \in Nat \ {0, 1} /\ given < k'
  BY <1>1, <1>2
<1>6. TypeOK'
  <2>1. freq' \subseteq Itemset /\ candidates' \subseteq Itemset
    BY <1>1, <1>3, <1>4 DEF Level, Below
  <2> QED
    BY <1>1, <1>5, <2>1 DEF CandInv, TypeOK
<1>7. GenerateInv'
  BY <1>1, <1>3, <1>4, <1>5 DEF GenerateInv
<1>8. RouteInv'
  BY <1>1 DEF CandInv, RouteInv
<1>9. (CandidatesInv /\ CountInv /\ ResumeInv /\ FoundExact /\ UndefinedOnly)'
  BY <1>1 DEF CandInv, CandidatesInv, CountInv, ResumeInv, FoundExact,
              UndefinedOnly, MinerUndefinedOnly, CountUnknownOnly
<1> QED
  BY <1>1, <1>5, <1>6, <1>7, <1>8, <1>9 DEF CandInv

\* gen_candidates stops with every candidate within its level.
LEMMA GeneratedStep ==
  ASSUME CandInv, Generated
  PROVE  CandInv'
<1>1. /\ pc = "gen" /\ pc' = "read"
      /\ freq = {} \/ Beyond(gen_level, k)
      /\ UNCHANGED <<db, support, mined, given, route, gen_level, max_level, k,
                     freq, candidates, out, num_transactions>>
  BY DEF Generated, inputs
<1>2. /\ given \in Nat \ {0} /\ k \in Nat /\ given < k /\ gen_level \in Nat
      /\ freq = Level(db, mined, given, k - 1)
      /\ candidates = Below(db, mined, given, k)
      /\ k = given + 1 \/ ~ Beyond(gen_level, k - 1)
  BY <1>1 DEF CandInv, TypeOK, GenerateInv
<1>3. candidates = Limited(db, mined, given, gen_level)
  <2>1. ASSUME NEW X \in Itemset, given < Cardinality(X), Made(db, mined, given, X)
        PROVE  Cardinality(X) < k <=> ~ Beyond(gen_level, Cardinality(X))
    <3>1. Cardinality(X) \in Nat
      BY ItemsetSize
    <3>2. ASSUME Cardinality(X) < k
          PROVE  ~ Beyond(gen_level, Cardinality(X))
      BY <1>2, <2>1, <3>1, <3>2 DEF Beyond
    <3>3. ASSUME ~ Beyond(gen_level, Cardinality(X))
          PROVE  Cardinality(X) < k
      <4>1. CASE freq = {}
        <5>1. k - 1 \in Nat \ {0}
          BY <1>2
        <5>2. Cardinality(X) < k - 1
          BY <1>2, <2>1, <4>1, <5>1, EmptyLevel
        <5> QED
          BY <1>2, <3>1, <5>2
      <4>2. CASE Beyond(gen_level, k)
        BY <1>2, <3>1, <3>3, <4>2 DEF Beyond
      <4> QED
        BY <1>1, <4>1, <4>2
    <3> QED
      BY <3>2, <3>3
  <2> QED
    BY <1>2, <2>1 DEF Below, Limited
<1>4. TypeOK' /\ (given < k)'
  BY <1>1 DEF CandInv, TypeOK, Pc
<1>5. CandidatesInv'
  BY <1>1, <1>3 DEF CandidatesInv
<1>6. RouteInv'
  BY <1>1 DEF CandInv, RouteInv
<1>7. (GenerateInv /\ CountInv /\ ResumeInv /\ FoundExact /\ UndefinedOnly)'
  BY <1>1 DEF CandInv, GenerateInv, CountInv, ResumeInv, FoundExact,
              UndefinedOnly, MinerUndefinedOnly, CountUnknownOnly
<1> QED
  BY <1>4, <1>5, <1>6, <1>7 DEF CandInv

\* Without candidates min_length has no meaning.
LEMMA ReadNothingStep ==
  ASSUME CandInv, ReadNothing
  PROVE  CandInv'
<1>1. /\ pc = "read" /\ pc' = "undefined" /\ candidates = {}
      /\ UNCHANGED <<db, support, mined, given, route, gen_level, max_level, k,
                     freq, candidates, out>>
      /\ num_transactions' \in Int
  BY UnsetAssumption DEF ReadNothing, ReadCount, inputs
<1>2. TypeOK' /\ (given < k)'
  BY <1>1 DEF CandInv, TypeOK, Pc
<1>3. route \in {"cand", "serial"}
  BY <1>1 DEF CandInv, RouteInv
<1>4. UndefinedOnly'
  BY <1>1, <1>3 DEF UndefinedOnly, MinerUndefinedOnly, CountUnknownOnly
<1>5. (RouteInv /\ GenerateInv /\ CandidatesInv /\ CountInv /\ ResumeInv /\ FoundExact)'
  BY <1>1 DEF RouteInv, GenerateInv, CandidatesInv, CountInv, ResumeInv, FoundExact
<1> QED
  BY <1>2, <1>4, <1>5 DEF CandInv

\* The miners start at the level after the given patterns.
LEMMA ReadCandidatesStep ==
  ASSUME CandInv, ReadCandidates
  PROVE  CandInv'
<1> DEFINE limit == CASE max_level = 0 -> Longest
                      [] route = "cand" /\ Longest < max_level -> Longest
                      [] OTHER -> max_level
<1>1. /\ pc = "read" /\ candidates # {} /\ pc' = route /\ freq' = {}
      /\ k' = CHOOSE n \in {Cardinality(X) : X \in candidates} : OfSize(n - 1) = {}
      /\ max_level' = limit
      /\ UNCHANGED <<db, support, mined, given, route, gen_level, candidates, out>>
      /\ num_transactions' \in Int
  BY UnsetAssumption DEF ReadCandidates, ReadCount, inputs
<1>2. /\ TypeOK /\ given \in Nat \ {0} /\ max_level \in Nat
      /\ candidates = Limited(db, mined, given, gen_level)
      /\ route \in {"cand", "serial"} /\ out = {}
  BY <1>1 DEF CandInv, TypeOK, CandidatesInv, RouteInv
<1>3. /\ Longest \in Nat /\ given < Longest
      /\ k' = given + 1
  BY <1>1, <1>2, CandidateLengths
<1>4. /\ limit \in Nat /\ limit # 0
      /\ route = "cand" => limit <= Longest
  BY <1>2, <1>3
<1>5. Longest' = Longest
  BY <1>1 DEF Longest, OfSize
<1>6. TypeOK' /\ (given < k)'
  <2> HIDE DEF limit
  <2>1. k' \in Nat \ {0, 1} /\ given' < k'
    <3>1. given' = given
      BY <1>1
    <3>2. given \in Nat \ {0} /\ k' = given + 1
      BY <1>2, <1>3
    <3> QED
      BY <3>1, <3>2
  <2>2. pc' \in Pc
    BY <1>1, <1>2 DEF Pc
  <2> QED
    BY <1>1, <1>2, <1>4, <2>1, <2>2 DEF TypeOK
<1>7. RouteInv' /\ CandidatesInv'
  BY <1>1, <1>2 DEF RouteInv, CandidatesInv
<1>8. CountInv'
  <2> HIDE DEF limit
  <2>1. {X \in FrequentAmong(candidates) : Cardinality(X) < given + 1} = {}
    <3>1. \A X \in candidates : ~ Cardinality(X) < given + 1
      BY <1>2, ItemsetSize DEF Limited
    <3> QED
      BY <3>1 DEF FrequentAmong
  <2>2. {X \in FrequentAmong(candidates)' : Cardinality(X) < k'} = {}
    BY <1>1, <1>3, <2>1 DEF FrequentAmong
  <2>3. out' = Found({X \in FrequentAmong(candidates) : Cardinality(X) < k})'
    BY <1>1, <1>2, <2>2 DEF Found
  <2> QED
    BY <1>1, <1>2, <1>3, <1>4, <1>5, <2>3 DEF CountInv
<1>9. (GenerateInv /\ ResumeInv /\ FoundExact /\ UndefinedOnly)'
  BY <1>1, <1>2 DEF CandInv, GenerateInv, ResumeInv, FoundExact,
                    UndefinedOnly, MinerUndefinedOnly, CountUnknownOnly
<1> QED
  BY <1>6, <1>7, <1>8, <1>9 DEF CandInv

\* A level of candidates is counted.
LEMMA CountLevelStep ==
  ASSUME CandInv, CountLevel
  PROVE  CandInv'
<1>1. /\ \/ pc = "cand" /\ k <= max_level /\ pc' = "cand"
         \/ pc = "serial" /\ pc' = "next"
      /\ freq' = FrequentAmong(OfSize(k))
      /\ out' = out \cup Found(freq')
      /\ k' = k + 1
      /\ UNCHANGED <<db, support, mined, given, route, gen_level, max_level,
                     candidates, num_transactions>>
  BY DEF CountLevel, inputs
<1>2. /\ TypeOK /\ given \in Nat \ {0} /\ max_level \in Nat /\ k \in Nat /\ given < k
      /\ candidates = Limited(db, mined, given, gen_level) /\ candidates # {}
      /\ max_level # 0
      /\ out = Found({X \in FrequentAmong(candidates) : Cardinality(X) < k})
      /\ pc = "cand" => max_level <= Longest
      /\ pc = "serial" => k = given + 1
  BY <1>1 DEF CandInv, TypeOK, CandidatesInv, CountInv
<1>3. freq' = {X \in FrequentAmong(candidates) : Cardinality(X) = k}
  BY <1>1 DEF FrequentAmong, OfSize
<1>4. \A X \in candidates : X \in Itemset /\ Cardinality(X) \in Nat
  BY <1>2, ItemsetSize DEF Limited
<1>5. out' = Found({X \in FrequentAmong(candidates) : Cardinality(X) < k + 1})
  <2>1. {X \in FrequentAmong(candidates) : Cardinality(X) < k + 1}
          = {X \in FrequentAmong(candidates) : Cardinality(X) < k}
              \cup {X \in FrequentAmong(candidates) : Cardinality(X) = k}
    <3>1. \A X \in candidates :
            Cardinality(X) < k + 1 <=> Cardinality(X) < k \/ Cardinality(X) = k
      BY <1>2, <1>4
    <3> QED
      BY <3>1 DEF FrequentAmong
  <2>2. out' = Found({X \in FrequentAmong(candidates) : Cardinality(X) < k})
                 \cup Found({X \in FrequentAmong(candidates) : Cardinality(X) = k})
    BY <1>1, <1>2, <1>3
  <2> QED
    BY <2>1, <2>2, FoundUnion
<1>6. out' = Found({X \in FrequentAmong(candidates) : Cardinality(X) < k})'
  BY <1>1, <1>5 DEF Found, FrequentAmong
<1>7. FrequentAmong(candidates)' = FrequentAmong(candidates)
      /\ Longest' = Longest
  BY <1>1 DEF FrequentAmong, Longest, OfSize
<1>8. k' \in Nat \ {0, 1} /\ given' < k' /\ k' - 1 = k
  BY <1>1, <1>2
<1>9. TypeOK'
  <2>1. freq' \subseteq Itemset
    BY <1>3, <1>4 DEF FrequentAmong
  <2>2. out' \subseteq [items : Itemset, count : Nat]
    <3>1. \A X : Support(db, X) \in Nat
      BY SupportType
    <3>2. Found(freq') \subseteq [items : Itemset, count : Nat]
      BY <2>1, <3>1 DEF Found, Pattern
    <3> QED
      BY <1>1, <1>2, <3>2 DEF TypeOK
  <2>3. pc' \in Pc
    BY <1>1 DEF Pc
  <2> QED
    BY <1>1, <1>2, <1>8, <2>1, <2>2, <2>3 DEF TypeOK
<1>10. CountInv'
  <2>1. pc' = "cand" => max_level <= Longest /\ k <= max_level
    BY <1>1, <1>2
  <2>2. pc' = "next" => k = given + 1
    BY <1>1, <1>2
  <2>3. k' = given' + 1 \/ k' - 1 <= max_level' \/ pc' # "cand"
    BY <1>1, <1>8, <2>1
  <2>4. pc' = "next" => k' > given' + 1 /\ k' = given' + 2
    BY <1>1, <1>2, <2>2
  <2>5. pc' # "serial"
    BY <1>1
  <2>6. freq' = {X \in FrequentAmong(candidates)' : Cardinality(X) = k' - 1}
    BY <1>3, <1>7, <1>8
  <2> QED
    BY <1>1, <1>2, <1>6, <1>7, <2>1, <2>3, <2>4, <2>5, <2>6 DEF CountInv
<1>11. RouteInv' /\ CandidatesInv'
  BY <1>1, <1>2 DEF CandInv, RouteInv, CandidatesInv
<1>12. (GenerateInv /\ ResumeInv /\ FoundExact /\ UndefinedOnly)'
  BY <1>1 DEF CandInv, GenerateInv, ResumeInv, FoundExact,
              UndefinedOnly, MinerUndefinedOnly, CountUnknownOnly
<1> QED
  BY <1>8, <1>9, <1>10, <1>11, <1>12 DEF CandInv

\* A level cannot be walked only for want of tidlists: discover_cand finds
\* candidates at each level up to the longest.
LEMMA CountUndefinedStep ==
  ASSUME CandInv, CountUndefined
  PROVE  CandInv'
<1>1. /\ \/ pc = "cand" /\ k <= max_level
         \/ pc = "serial"
      /\ ~ Walkable(OfSize(k)) /\ pc' = "undefined"
      /\ UNCHANGED <<db, support, mined, given, route, gen_level, max_level, k,
                     freq, candidates, out, num_transactions>>
  BY DEF CountUndefined, inputs
<1>2. /\ TypeOK /\ given \in Nat \ {0} /\ max_level \in Nat /\ k \in Nat /\ given < k
      /\ candidates = Limited(db, mined, given, gen_level) /\ candidates # {}
      /\ pc = "cand" => max_level <= Longest
      /\ pc = "serial" => k = given + 1
      /\ route # "resume"
      /\ support \in Nat /\ mined \in Nat
  BY <1>1 DEF CandInv, TypeOK, CandidatesInv, CountInv, RouteInv
<1>3. /\ Longest \in Nat /\ given < Longest
      /\ \A n \in given + 1 .. Longest : OfSize(n) # {}
  BY <1>2, CandidateLengths
<1>4. k \in given + 1 .. Longest
  BY <1>1, <1>2, <1>3
<1>5. OfSize(k) # {}
  BY <1>3, <1>4
<1>6. ~ UNION OfSize(k) \subseteq F
  BY <1>1, <1>5 DEF Walkable
<1>7. support > mined
  BY <1>2, <1>6, CandidateItems
<1>8. TypeOK' /\ (given < k)'
  BY <1>1 DEF CandInv, TypeOK, Pc
<1>9. UndefinedOnly'
  BY <1>1, <1>2, <1>7 DEF CandInv,
                          UndefinedOnly, MinerUndefinedOnly, CountUnknownOnly
<1>10. (RouteInv /\ GenerateInv /\ CandidatesInv /\ CountInv /\ ResumeInv /\ FoundExact)'
  BY <1>1 DEF RouteInv, GenerateInv, CandidatesInv, CountInv, ResumeInv, FoundExact
<1> QED
  BY <1>8, <1>9, <1>10 DEF CandInv

\* The joins that are candidates are all the next level needs.
LEMMA CountNextStep ==
  ASSUME CandInv, CountNext
  PROVE  CandInv'
<1>1. /\ pc = "next" /\ pc' = "next" /\ ~ Beyond(max_level, k)
      /\ freq' = FrequentAmong(Joined \cap OfSize(k))
      /\ out' = out \cup Found(freq')
      /\ k' = k + 1
      /\ UNCHANGED <<db, support, mined, given, route, gen_level, max_level,
                     candidates, num_transactions>>
  BY DEF CountNext, inputs
<1>2. /\ TypeOK /\ given \in Nat \ {0} /\ max_level \in Nat /\ k \in Nat /\ given < k
      /\ gen_level \in Nat /\ support \in Nat
      /\ candidates = Limited(db, mined, given, gen_level) /\ candidates # {}
      /\ max_level # 0
      /\ out = Found({X \in FrequentAmong(candidates) : Cardinality(X) < k})
      /\ k > given + 1
      /\ freq = {X \in FrequentAmong(candidates) : Cardinality(X) = k - 1}
  BY <1>1 DEF CandInv, TypeOK, CandidatesInv, CountInv
<1>3. \A X \in candidates :
        /\ X \in Itemset /\ Cardinality(X) \in Nat /\ Made(db, mined, given, X)
        /\ ~ Beyond(gen_level, Cardinality(X))
  BY <1>2, ItemsetSize DEF Limited
<1>4. freq' = {X \in FrequentAmong(candidates) : Cardinality(X) = k}
  <2>1. freq \in SUBSET Itemset /\ \A X \in freq : Cardinality(X) = k - 1
    BY <1>2, <1>3 DEF FrequentAmong
  <2>2. Joined = {X \in Itemset : Cardinality(X) = k /\ \A i \in X : X \ {i} \in freq}
    <3> DEFINE n == k - 1
    <3>1. n \in Nat \ {0} /\ n + 1 = k
      BY <1>2
    <3>2. \A X \in freq : Cardinality(X) = n
      BY <2>1
    <3> HIDE DEF n
    <3> QED
      BY <2>1, <3>1, <3>2, JoinedLevel
  <2>3. ASSUME NEW X \in candidates, Cardinality(X) = k, Frequent(db, support, X),
               NEW i \in X
        PROVE  X \ {i} \in freq
    <3>1. X \in Itemset /\ Cardinality(X) # 1
      BY <1>2, <1>3, <2>3
    <3>2. X \ {i} \in Itemset /\ Cardinality(X \ {i}) = k - 1
      BY <2>3, <3>1, WithoutItem
    <3>3. Made(db, mined, given, X \ {i})
      BY <1>3 DEF Made
    <3>4. ~ Beyond(gen_level, k - 1) /\ given < k - 1
      BY <1>2, <1>3, <2>3 DEF Beyond
    <3>5. X \ {i} \in candidates
      BY <1>2, <3>2, <3>3, <3>4 DEF Limited
    <3>6. Frequent(db, support, X \ {i})
      BY <1>2, <2>3, FrequentParents
    <3> QED
      BY <1>2, <3>2, <3>5, <3>6 DEF FrequentAmong
  <2> QED
    BY <1>1, <1>3, <2>2, <2>3 DEF FrequentAmong, OfSize
<1>5. out' = Found({X \in FrequentAmong(candidates) : Cardinality(X) < k + 1})
  <2>1. {X \in FrequentAmong(candidates) : Cardinality(X) < k + 1}
          = {X \in FrequentAmong(candidates) : Cardinality(X) < k}
              \cup {X \in FrequentAmong(candidates) : Cardinality(X) = k}
    <3>1. \A X \in candidates :
            Cardinality(X) < k + 1 <=> Cardinality(X) < k \/ Cardinality(X) = k
      BY <1>2, <1>3
    <3> QED
      BY <3>1 DEF FrequentAmong
  <2>2. out' = Found({X \in FrequentAmong(candidates) : Cardinality(X) < k})
                 \cup Found({X \in FrequentAmong(candidates) : Cardinality(X) = k})
    BY <1>1, <1>2, <1>4
  <2> QED
    BY <2>1, <2>2, FoundUnion
<1>6. out' = Found({X \in FrequentAmong(candidates) : Cardinality(X) < k})'
  BY <1>1, <1>5 DEF Found, FrequentAmong
<1>7. FrequentAmong(candidates)' = FrequentAmong(candidates)
  BY <1>1 DEF FrequentAmong
<1>8. k' \in Nat \ {0, 1} /\ given' < k' /\ k' - 1 = k /\ k' > given' + 1
  BY <1>1, <1>2
<1>9. TypeOK'
  <2>1. freq' \subseteq Itemset
    BY <1>3, <1>4 DEF FrequentAmong
  <2>2. out' \subseteq [items : Itemset, count : Nat]
    <3>1. \A X : Support(db, X) \in Nat
      BY SupportType
    <3>2. Found(freq') \subseteq [items : Itemset, count : Nat]
      BY <2>1, <3>1 DEF Found, Pattern
    <3> QED
      BY <1>1, <1>2, <3>2 DEF TypeOK
  <2> QED
    BY <1>1, <1>2, <1>8, <2>1, <2>2 DEF TypeOK
<1>10. CountInv'
  <2>1. k <= max_level
    BY <1>1, <1>2 DEF Beyond
  <2>2. freq' = {X \in FrequentAmong(candidates)' : Cardinality(X) = k' - 1}
    BY <1>4, <1>7, <1>8
  <2> QED
    BY <1>1, <1>2, <1>6, <1>8, <2>1, <2>2 DEF CountInv
<1>11. RouteInv' /\ CandidatesInv'
  BY <1>1, <1>2 DEF CandInv, RouteInv, CandidatesInv
<1>12. (GenerateInv /\ ResumeInv /\ FoundExact /\ UndefinedOnly)'
  BY <1>1 DEF CandInv, GenerateInv, ResumeInv, FoundExact,
              UndefinedOnly, MinerUndefinedOnly, CountUnknownOnly
<1> QED
  BY <1>8, <1>9, <1>10, <1>11, <1>12 DEF CandInv

\* Past bysize only with a max_level above the longest candidate.
LEMMA PastBysizeStep ==
  ASSUME CandInv, PastBysize
  PROVE  CandInv'
<1>1. /\ pc = "next" /\ pc' = "undefined"
      /\ ~ Beyond(max_level, k) /\ k > Longest
      /\ UNCHANGED <<db, support, mined, given, route, gen_level, max_level, k,
                     freq, candidates, out, num_transactions>>
  BY DEF PastBysize, inputs
<1>2. /\ TypeOK /\ max_level \in Nat /\ k \in Nat /\ max_level # 0
      /\ candidates = Limited(db, mined, given, gen_level) /\ candidates # {}
      /\ route = "serial"
  BY <1>1 DEF CandInv, TypeOK, CandidatesInv, CountInv, RouteInv
<1>3. Longest \in Nat /\ Longest' = Longest
  BY <1>1, <1>2, CandidateLengths DEF Longest, OfSize
<1>4. max_level > Longest
  BY <1>1, <1>2, <1>3 DEF Beyond
<1>5. TypeOK' /\ (given < k)'
  BY <1>1 DEF CandInv, TypeOK, Pc
<1>6. UndefinedOnly'
  BY <1>1, <1>2, <1>3, <1>4 DEF CandInv,
                                UndefinedOnly, MinerUndefinedOnly, CountUnknownOnly
<1>7. (RouteInv /\ GenerateInv /\ CandidatesInv /\ CountInv /\ ResumeInv /\ FoundExact)'
  BY <1>1 DEF RouteInv, GenerateInv, CandidatesInv, CountInv, ResumeInv, FoundExact
<1> QED
  BY <1>5, <1>6, <1>7 DEF CandInv

\* discover() goes on with the frequent joins.
LEMMA MineLevelStep ==
  ASSUME CandInv, MineLevel
  PROVE  CandInv'
<1>1. /\ pc = "resume" /\ pc' = "resume" /\ ~ Beyond(max_level, k)
      /\ freq' = FrequentAmong(Joined)
      /\ out' = out \cup Found(freq')
      /\ k' = k + 1
      /\ UNCHANGED <<db, support, mined, given, route, gen_level, max_level,
                     candidates, num_transactions>>
  BY DEF MineLevel, inputs
<1>2. /\ TypeOK /\ given \in Nat \ {0} /\ k \in Nat /\ given < k /\ support \in Nat
      /\ freq = IF k = given + 1
                THEN Level(db, mined, given, given)
                ELSE FrequentAmong(Level(db, mined, given, k - 1))
      /\ out = Found(FrequentAmong(Below(db, mined, given, k)))
  BY <1>1 DEF CandInv, TypeOK, ResumeInv
<1>3. /\ freq \subseteq Level(db, mined, given, k - 1)
      /\ \A X \in Level(db, mined, given, k - 1) :
           Frequent(db, support, X) => X \in freq
  <2>1. CASE k = given + 1
    <3>1. k - 1 = given
      BY <1>2, <2>1
    <3> QED
      BY <1>2, <2>1, <3>1
  <2>2. CASE k # given + 1
    BY <1>2, <2>2 DEF FrequentAmong
  <2> QED
    BY <2>1, <2>2
<1>4. freq' = FrequentAmong(Level(db, mined, given, k))
  <2>1. freq \in SUBSET Itemset /\ \A X \in freq : Cardinality(X) = k - 1
    BY <1>3 DEF Level
  <2>2. Joined = {X \in Itemset : Cardinality(X) = k /\ \A i \in X : X \ {i} \in freq}
    <3> DEFINE n == k - 1
    <3>1. n \in Nat \ {0} /\ n + 1 = k
      BY <1>2
    <3>2. \A X \in freq : Cardinality(X) = n
      BY <2>1
    <3> HIDE DEF n
    <3> QED
      BY <2>1, <3>1, <3>2, JoinedLevel
  <2>3. {X \in Itemset : /\ Cardinality(X) = (k - 1) + 1
                         /\ \A i \in X : X \ {i} \in Level(db, mined, given, k - 1)}
          = Level(db, mined, given, (k - 1) + 1)
    <3>1. k - 1 \in Nat /\ given <= k - 1
      BY <1>2
    <3> QED
      BY <1>2, <3>1, NextLevel
  <2>4. (k - 1) + 1 = k
    BY <1>2
  <2>5. ASSUME NEW X \in Itemset, Cardinality(X) = k, Frequent(db, support, X)
        PROVE  (\A i \in X : X \ {i} \in freq) <=>
                 X \in Level(db, mined, given, k)
    <3>1. \A i \in X : Frequent(db, support, X \ {i})
      BY <1>2, <2>5, FrequentParents
    <3>2. (\A i \in X : X \ {i} \in freq) <=>
            \A i \in X : X \ {i} \in Level(db, mined, given, k - 1)
      BY <1>3, <3>1
    <3> QED
      BY <2>3, <2>4, <2>5, <3>2
  <2>6. \A X \in Level(db, mined, given, k) : X \in Itemset /\ Cardinality(X) = k
    BY DEF Level
  <2> QED
    BY <1>1, <2>2, <2>5, <2>6 DEF FrequentAmong
<1>5. out' = Found(FrequentAmong(Below(db, mined, given, k + 1)))
  <2>1. Below(db, mined, given, k + 1)
          = Below(db, mined, given, k) \cup Level(db, mined, given, k)
    BY <1>2, BelowNext
  <2>2. FrequentAmong(Below(db, mined, given, k + 1))
          = FrequentAmong(Below(db, mined, given, k))
              \cup FrequentAmong(Level(db, mined, given, k))
    BY <2>1 DEF FrequentAmong
  <2>3. out' = Found(FrequentAmong(Below(db, mined, given, k)))
                 \cup Found(FrequentAmong(Level(db, mined, given, k)))
    BY <1>1, <1>2, <1>4
  <2> QED
    BY <2>2, <2>3, FoundUnion
<1>6. k' \in Nat \ {0, 1} /\ given' < k' /\ k' - 1 = k /\ k' # given' + 1
  BY <1>1, <1>2
<1>7. TypeOK'
  <2>1. freq' \subseteq Itemset
    BY <1>4 DEF FrequentAmong, Level
  <2>2. out' \subseteq [items : Itemset, count : Nat]
    <3>1. \A X : Support(db, X) \in Nat
      BY SupportType
    <3>2. Found(freq') \subseteq [items : Itemset, count : Nat]
      BY <2>1, <3>1 DEF Found, Pattern
    <3> QED
      BY <1>1, <1>2, <3>2 DEF TypeOK
  <2> QED
    BY <1>1, <1>2, <1>6, <2>1, <2>2 DEF TypeOK
<1>8. ResumeInv'
  <2>1. out' = Found(FrequentAmong(Below(db, mined, given, k)))'
    BY <1>1, <1>5 DEF Found, FrequentAmong
  <2> QED
    BY <1>1, <1>4, <1>6, <2>1 DEF ResumeInv, FrequentAmong
<1>9. RouteInv'
  BY <1>1 DEF CandInv, RouteInv
<1>10. (CandidatesInv /\ CountInv /\ GenerateInv /\ FoundExact /\ UndefinedOnly)'
  BY <1>1 DEF CandInv, CandidatesInv, CountInv, GenerateInv, FoundExact,
              UndefinedOnly, MinerUndefinedOnly, CountUnknownOnly
<1> QED
  BY <1>6, <1>7, <1>8, <1>9, <1>10 DEF CandInv

\* When a level is empty nothing larger is frequent.
LEMMA NoLarger ==
  ASSUME NEW d, NEW m, NEW g \in Nat \ {0}, NEW s \in Nat, NEW n \in Nat \ {0},
         \A Z \in Itemset : ~ (/\ Cardinality(Z) = n
                               /\ Made(d, m, g, Z) /\ Frequent(d, s, Z)),
         NEW X \in Itemset, Made(d, m, g, X), Frequent(d, s, X)
  PROVE  Cardinality(X) < n
<1> SUFFICES ASSUME n <= Cardinality(X)
             PROVE  FALSE
  BY ItemsetSize
<1>1. PICK Z \in SUBSET X : Z \in Itemset /\ Cardinality(Z) = n /\ Made(d, m, g, Z)
  BY MadeSubset
<1>2. Frequent(d, s, Z)
  BY FrequentParents
<1> QED
  BY <1>1, <1>2

\* What the routes have found when they return.
LEMMA ReturnExact ==
  ASSUME CandInv, Return
  PROVE  out = Found({X \in FrequentAmong(Itemset) : Covered(X) /\ WithinLevels(X)})
<1> DEFINE Goal(X) == Covered(X) /\ WithinLevels(X)
<1>1. /\ TypeOK /\ given \in Nat \ {0} /\ k \in Nat \ {0, 1} /\ given < k
      /\ support \in Nat /\ max_level \in Nat /\ gen_level \in Nat
  BY DEF CandInv, TypeOK
<1>2. \A X \in Itemset : Cardinality(X) \in Nat
  BY ItemsetSize
<1>3. CASE pc = "resume"
  <2>1. /\ freq = {} \/ Beyond(max_level, k)
        /\ freq = IF k = given + 1
                  THEN Level(db, mined, given, given)
                  ELSE FrequentAmong(Level(db, mined, given, k - 1))
        /\ out = Found(FrequentAmong(Below(db, mined, given, k)))
        /\ k = given + 1 \/ ~ Beyond(max_level, k - 1)
        /\ route = "resume"
    BY <1>3 DEF CandInv, ResumeInv, RouteInv, Return
  <2>2. ASSUME NEW X \in Itemset, Frequent(db, support, X),
               given < Cardinality(X), Made(db, mined, given, X)
        PROVE  Cardinality(X) < k <=> ~ Beyond(max_level, Cardinality(X))
    <3>1. Cardinality(X) < k => ~ Beyond(max_level, Cardinality(X))
      BY <1>1, <1>2, <2>1, <2>2 DEF Beyond
    <3>2. ASSUME freq = {}
          PROVE  Cardinality(X) < k
      <4>1. CASE k = given + 1
        <5>1. Level(db, mined, given, given) = {}
          BY <2>1, <3>2, <4>1
        <5>2. Cardinality(X) < given
          BY <1>1, <2>2, <5>1, EmptyLevel
        <5> QED
          BY <1>1, <1>2, <2>2, <5>2
      <4>2. CASE k # given + 1
        <5>1. FrequentAmong(Level(db, mined, given, k - 1)) = {}
          BY <2>1, <3>2, <4>2
        <5>2. \A Z \in Itemset : ~ (/\ Cardinality(Z) = k - 1
                                    /\ Made(db, mined, given, Z)
                                    /\ Frequent(db, support, Z))
          BY <5>1 DEF FrequentAmong, Level
        <5>3. k - 1 \in Nat \ {0}
          BY <1>1
        <5>4. Cardinality(X) < k - 1
          BY <1>1, <2>2, <5>2, <5>3, NoLarger
        <5> QED
          BY <1>1, <1>2, <5>4
      <4> QED
        BY <4>1, <4>2
    <3>3. Beyond(max_level, k) /\ ~ Beyond(max_level, Cardinality(X)) =>
            Cardinality(X) < k
      BY <1>1, <1>2 DEF Beyond
    <3> QED
      BY <2>1, <3>1, <3>2, <3>3
  <2>3. \A X : WithinLevels(X) <=> ~ Beyond(max_level, Cardinality(X))
    BY <2>1 DEF WithinLevels
  <2>4. {X \in FrequentAmong(Itemset) : Goal(X)}
          = FrequentAmong(Below(db, mined, given, k))
    BY <1>1, <1>2, <2>2, <2>3, CoveredMade DEF FrequentAmong, Below
  <2> QED
    BY <2>1, <2>4
<1>4. CASE pc \in {"cand", "next"}
  <2>1. /\ candidates = Limited(db, mined, given, gen_level)
        /\ max_level # 0
        /\ out = Found({X \in FrequentAmong(candidates) : Cardinality(X) < k})
        /\ route = IF pc = "cand" THEN "cand" ELSE "serial"
    BY <1>4 DEF CandInv, CandidatesInv, CountInv, RouteInv
  <2>2. ASSUME NEW X \in candidates, Frequent(db, support, X)
        PROVE  Cardinality(X) < k <=>
                 \/ ~ Beyond(max_level, Cardinality(X))
                 \/ route = "serial" /\ Cardinality(X) = given + 1
    <3>1. /\ X \in Itemset /\ Cardinality(X) \in Nat /\ given < Cardinality(X)
          /\ Made(db, mined, given, X) /\ ~ Beyond(gen_level, Cardinality(X))
      BY <1>2, <2>1 DEF Limited
    <3>2. CASE pc = "cand"
      <4>1. k > max_level /\ (k = given + 1 \/ k - 1 <= max_level)
        BY <3>2 DEF CandInv, CountInv, Return
      <4> QED
        BY <1>1, <2>1, <3>1, <3>2, <4>1 DEF Beyond
    <3>3. CASE pc = "next"
      <4>1. /\ freq = {} \/ Beyond(max_level, k)
            /\ k > given + 1
            /\ k = given + 2 \/ k - 1 <= max_level
            /\ freq = {Z \in FrequentAmong(candidates) : Cardinality(Z) = k - 1}
        BY <3>3 DEF CandInv, CountInv, Return
      <4>2. Cardinality(X) < k =>
              \/ ~ Beyond(max_level, Cardinality(X))
              \/ route = "serial" /\ Cardinality(X) = given + 1
        BY <1>1, <2>1, <3>1, <3>3, <4>1 DEF Beyond
      <4>3. Cardinality(X) = given + 1 => Cardinality(X) < k
        BY <1>1, <4>1
      <4>4. Beyond(max_level, k) /\ ~ Beyond(max_level, Cardinality(X)) =>
              Cardinality(X) < k
        BY <1>1, <3>1 DEF Beyond
      <4>5. ASSUME freq = {}
            PROVE  Cardinality(X) < k
        <5> SUFFICES ASSUME k <= Cardinality(X)
                     PROVE  FALSE
          BY <1>1, <3>1
        <5>1. k - 1 \in Nat \ {0} /\ k - 1 <= Cardinality(X)
          BY <1>1, <3>1
        <5>2. PICK Z \in SUBSET X : /\ Z \in Itemset /\ Cardinality(Z) = k - 1
                                    /\ Made(db, mined, given, Z)
          BY <1>1, <3>1, <5>1, MadeSubset
        <5>3. Frequent(db, support, Z)
          BY <1>1, <2>2, FrequentParents
        <5>4. ~ Beyond(gen_level, k - 1) /\ given < k - 1
          BY <1>1, <3>1, <4>1, <5>1 DEF Beyond
        <5>5. Z \in candidates
          BY <2>1, <5>2, <5>4 DEF Limited
        <5> QED
          BY <4>1, <4>5, <5>2, <5>3, <5>5 DEF FrequentAmong
      <4> QED
        BY <4>1, <4>2, <4>3, <4>4, <4>5
    <3> QED
      BY <1>4, <3>2, <3>3
  <2>3. \A X : WithinLevels(X) <=>
          /\ ~ Beyond(gen_level, Cardinality(X))
          /\ \/ ~ Beyond(max_level, Cardinality(X))
             \/ route = "serial" /\ Cardinality(X) = given + 1
    BY <2>1 DEF WithinLevels
  <2>4. \A X \in Itemset : X \in candidates <=>
          Covered(X) /\ ~ Beyond(gen_level, Cardinality(X))
    BY <1>1, <1>2, <2>1, CoveredMade DEF Limited
  <2>5. candidates \subseteq Itemset
    BY <2>1 DEF Limited
  <2>6. {X \in FrequentAmong(Itemset) : Goal(X)}
          = {X \in FrequentAmong(candidates) : Cardinality(X) < k}
    BY <2>2, <2>3, <2>4, <2>5 DEF FrequentAmong
  <2> QED
    BY <2>1, <2>6
<1> QED
  BY <1>3, <1>4 DEF Return

LEMMA ReturnStep ==
  ASSUME CandInv, Return
  PROVE  CandInv'
<1>1. /\ pc' = "done"
      /\ UNCHANGED <<db, support, mined, given, route, gen_level, max_level, k,
                     freq, candidates, out, num_transactions>>
  BY DEF Return, inputs
<1>2. TypeOK' /\ (given < k)'
  BY <1>1 DEF CandInv, TypeOK, Pc
<1>3. FoundExact'
  <2>1. out = Found({X \in FrequentAmong(Itemset) : Covered(X) /\ WithinLevels(X)})
    BY ReturnExact
  <2>2. /\ FrequentAmong(Itemset)' = FrequentAmong(Itemset)
        /\ \A X : Covered(X)' <=> Covered(X)
        /\ \A X : WithinLevels(X)' <=> WithinLevels(X)
    BY <1>1 DEF FrequentAmong, Covered, WithinLevels
  <2>3. {X \in FrequentAmong(Itemset)' : Covered(X)' /\ WithinLevels(X)'}
          = {X \in FrequentAmong(Itemset) : Covered(X) /\ WithinLevels(X)}
    BY <2>2
  <2>4. out' = Found({X \in FrequentAmong(Itemset) : Covered(X) /\ WithinLevels(X)})'
    BY <1>1, <2>1, <2>3 DEF Found
  <2> QED
    BY <2>4 DEF FoundExact
<1>4. (/\ RouteInv /\ GenerateInv /\ CandidatesInv /\ CountInv /\ ResumeInv
       /\ UndefinedOnly)'
  BY <1>1 DEF CandInv, RouteInv, GenerateInv, CandidatesInv, CountInv, ResumeInv,
              UndefinedOnly, MinerUndefinedOnly, CountUnknownOnly
<1> QED
  BY <1>2, <1>3, <1>4 DEF CandInv

\* A step that changes nothing.
LEMMA StutterStep ==
  ASSUME CandInv, UNCHANGED vars
  PROVE  CandInv'
<1> USE DEF vars
<1>1. TypeOK' /\ (given < k)' /\ RouteInv' /\ GenerateInv' /\ CandidatesInv'
  BY DEF CandInv, TypeOK, RouteInv, GenerateInv, CandidatesInv
<1>2. /\ \A S : FrequentAmong(S)' = FrequentAmong(S)
      /\ Longest' = Longest
  BY DEF FrequentAmong, Longest, OfSize
<1>3. CountInv' /\ ResumeInv'
  BY <1>2 DEF CandInv, CountInv, ResumeInv, Found, FrequentAmong, Longest, OfSize
<1>4. FoundExact' /\ UndefinedOnly'
  BY DEF CandInv, FoundExact,
         UndefinedOnly, MinerUndefinedOnly, CountUnknownOnly, Found, FrequentAmong, Covered,
         WithinLevels, Longest, OfSize
<1> QED
  BY <1>1, <1>3, <1>4 DEF CandInv

-----------------------------------------------------------------------------
(* The theorems.                                                           *)

\* The inductive invariant holds of every run.
THEOREM Invariance == Spec => []CandInv
<1>1. CandInv /\ [Next]_vars => CandInv'
  BY GenerateLevelStep, GeneratedStep, ReadNothingStep, ReadCandidatesStep,
     CountLevelStep, CountUndefinedStep, CountNextStep, PastBysizeStep,
     MineLevelStep, ReturnStep, StutterStep DEF Next
<1> QED
  BY InitInvariant, <1>1, PTL DEF Spec

\* The variables keep their types.
THEOREM TypeCorrect == Spec => []TypeOK
<1>1. CandInv => TypeOK
  BY DEF CandInv
<1> QED
  BY Invariance, <1>1, PTL

\* gen_candidates generates exactly the itemsets made of the given patterns,
\* within its level: pruning one level at a time loses none and keeps no other.
THEOREM GeneratedExact == Spec => []CandidatesExact
<1>1. CandInv => CandidatesExact
  <2> SUFFICES ASSUME CandInv, pc \in {"read", "cand", "serial", "next"}
               PROVE  candidates = {X \in Itemset :
                                      Covered(X) /\ ~ Beyond(gen_level, Cardinality(X))}
    BY DEF CandidatesExact
  <2>1. candidates = Limited(db, mined, given, gen_level) /\ given \in Nat
    BY DEF CandInv, CandidatesInv, TypeOK
  <2>2. \A X \in Itemset : Cardinality(X) \in Nat
    BY ItemsetSize
  <2> QED
    BY <2>1, <2>2, CoveredMade DEF Limited
<1> QED
  BY Invariance, <1>1, PTL

\* Every route finds what is frequent, made of given patterns and within its
\* levels, with exact supports.
THEOREM RoutesAgree == Spec => []FoundExact
<1>1. CandInv => FoundExact
  BY DEF CandInv
<1> QED
  BY Invariance, <1>1, PTL

\* No step of the miners without meaning but for the reasons listed, and no
\* number of transactions in doubt but that read with candidates.
THEOREM OnlyUndefined == Spec => []UndefinedOnly
<1>1. CandInv => UndefinedOnly
  BY DEF CandInv
<1> QED
  BY Invariance, <1>1, PTL

-----------------------------------------------------------------------------
(* The steps come to an end.                                               *)

\* No level lies far above the number of items: the loops stop at a level
\* without itemsets, and the candidates are itemsets.
LevelBound == k <= NumItems + 2

LEMMA LevelBounded == Spec => []LevelBound
<1>1. ASSUME Init PROVE LevelBound
  <2>1. FrequentOfSize(db, mined, given) # {} /\ given \in Nat /\ k = given + 1
    <3>1. CandInv
      BY <1>1, InitInvariant
    <3>2. given \in Nat /\ mined \in Nat /\ k = given + 1
      BY <1>1, <3>1 DEF CandInv, TypeOK, Init
    <3>3. PICK first \in FirstLevels :
            given = CHOOSE n \in 1 .. first :
                      /\ FrequentOfSize(db, mined, n) # {}
                      /\ n = first \/ FrequentOfSize(db, mined, n + 1) = {}
      BY <1>1 DEF Init
    <3>4. first \in Nat \ {0} /\ FrequentOfSize(db, mined, 1) # {}
      BY <1>1, FirstLevelsAssumption DEF Init
    <3>5. \E n \in 1 .. first :
            /\ FrequentOfSize(db, mined, n) # {}
            /\ n = first \/ FrequentOfSize(db, mined, n + 1) = {}
      BY ONLY <3>2, <3>4, GivenLength
    <3>6. FrequentOfSize(db, mined, given) # {}
      BY ONLY <3>3, <3>5
    <3> QED
      BY <3>2, <3>6
  <2>2. PICK X \in Itemset : Cardinality(X) = given
    BY <2>1 DEF FrequentOfSize
  <2>3. Cardinality(X) <= NumItems /\ NumItems \in Nat
    BY ItemsetSize, SizesAssumption
  <2> QED
    BY <2>1, <2>2, <2>3 DEF LevelBound
<1>2. ASSUME CandInv, LevelBound, CandInv', [Next]_vars PROVE LevelBound'
  <2>1. k \in Nat /\ given \in Nat /\ NumItems \in Nat /\ TypeOK
    BY <1>2, SizesAssumption DEF CandInv, TypeOK
  <2>2. ASSUME k' = k + 1, NEW X \in Itemset, Cardinality(X) \in {k - 1, k} PROVE LevelBound'
    <3>1. Cardinality(X) <= NumItems
      BY ItemsetSize
    <3> QED
      BY <2>1, <2>2, <3>1 DEF LevelBound
  <2>3. CASE GenerateLevel
    <3>1. k' = k + 1 /\ freq # {} /\ freq = Level(db, mined, given, k - 1)
      BY <1>2, <2>3 DEF GenerateLevel, CandInv, GenerateInv
    <3>2. PICK X \in Itemset : Cardinality(X) = k - 1
      BY <3>1 DEF Level
    <3> QED
      BY <2>2, <3>1, <3>2
  <2>4. CASE ReadCandidates
    <3>1. candidates = Limited(db, mined, given, gen_level) /\ candidates # {}
          /\ k' = CHOOSE n \in {Cardinality(X) : X \in candidates} : OfSize(n - 1) = {}
      BY <1>2, <2>4 DEF ReadCandidates, CandInv, CandidatesInv
    <3>2. PICK X \in candidates : TRUE
      BY <3>1
    <3>3. k' = given + 1
      BY <2>1, <3>1, CandidateLengths
    <3>4. X \in Itemset /\ given < Cardinality(X)
      BY <3>1, <3>2 DEF Limited
    <3>5. Cardinality(X) <= NumItems /\ Cardinality(X) \in Nat
      BY <3>4, ItemsetSize
    <3> QED
      BY <2>1, <3>3, <3>4, <3>5 DEF LevelBound
  <2>5. CASE CountLevel
    <3>1. k' = k + 1 /\ OfSize(k) # {}
      BY <2>5 DEF CountLevel, Walkable
    <3>2. PICK X \in Itemset : Cardinality(X) = k
      BY <2>1, <3>1 DEF OfSize, TypeOK
    <3> QED
      BY <2>2, <3>1, <3>2
  <2>6. CASE CountNext
    <3>1. k' = k + 1 /\ freq # {} /\ freq = {X \in FrequentAmong(candidates) : Cardinality(X) = k - 1}
      BY <1>2, <2>6 DEF CountNext, CandInv, CountInv
    <3>2. PICK X \in Itemset : Cardinality(X) = k - 1
      BY <2>1, <3>1 DEF FrequentAmong, TypeOK
    <3> QED
      BY <2>2, <3>1, <3>2
  <2>7. CASE MineLevel
    <3>1. /\ k' = k + 1 /\ freq # {}
          /\ freq = IF k = given + 1
                    THEN Level(db, mined, given, given)
                    ELSE FrequentAmong(Level(db, mined, given, k - 1))
      BY <1>2, <2>7 DEF MineLevel, CandInv, ResumeInv
    <3>2. PICK X \in Itemset : Cardinality(X) = k - 1
      <4>1. CASE k = given + 1
        <5>1. k - 1 = given
          BY <2>1, <4>1
        <5> QED
          BY <3>1, <4>1, <5>1 DEF Level
      <4>2. CASE k # given + 1
        BY <3>1, <4>2 DEF Level, FrequentAmong
      <4> QED
        BY <4>1, <4>2
    <3> QED
      BY <2>2, <3>1, <3>2
  <2>8. CASE Generated \/ ReadNothing \/ CountUndefined \/ PastBysize \/ Return \/ UNCHANGED vars
    <3>1. k' = k
      BY <2>8 DEF Generated, ReadNothing, CountUndefined, PastBysize, Return, vars
    <3> QED
      BY <1>2, <3>1 DEF LevelBound
  <2> QED
    BY <1>2, <2>3, <2>4, <2>5, <2>6, <2>7, <2>8 DEF Next
<1> QED
  BY <1>1, <1>2, Invariance, PTL DEF Spec

\* What is left to do: the functions of the route and the levels.
Phase ==
  IF pc = "gen" THEN 4
  ELSE IF pc = "read" THEN 3
  ELSE IF pc = "serial" THEN 2
  ELSE IF pc \in {"done", "undefined"} THEN 0
  ELSE 1

ToDo == <<Phase, NumItems + 2 - k>>

LEMMA ToDoFalls ==
  ASSUME TypeOK, LevelBound, TypeOK', LevelBound',
         Phase' < Phase \/ (Phase' = Phase /\ k < k')
  PROVE  Falls(2, ToDo, ToDo')
<1> DEFINE a == Phase
           n == k
           b == NumItems + 2 - n
           a2 == Phase'
           n2 == k'
           b2 == NumItems + 2 - n2
<1>1. a \in Nat /\ a2 \in Nat
  BY DEF Phase
<1>2. /\ n \in Nat /\ n <= NumItems + 2
      /\ n2 \in Nat /\ n2 <= NumItems + 2 /\ NumItems \in Nat
  BY SizesAssumption DEF TypeOK, LevelBound
<1>3. a2 < a \/ (a2 = a /\ n < n2)
  OBVIOUS
<1>4. ToDo = <<a, b>> /\ ToDo' = <<a2, b2>>
  BY DEF ToDo
<1> HIDE DEF a, n, a2, n2
<1>5. b \in Nat /\ b2 \in Nat /\ (n < n2 => b2 < b)
  BY ONLY <1>2
<1> HIDE DEF b, b2
<1> QED
  BY <1>1, <1>3, <1>4, <1>5, FallsTwo

\* Each step leaves less to do, in the order of these numbers: no route goes on
\* for ever (FallsEnd), whatever the limits and the supports.
THEOREM StepsRunOut == Spec => [][Falls(2, ToDo, ToDo')]_vars
<1>1. /\ CandInv /\ LevelBound /\ CandInv' /\ LevelBound' /\ [Next]_vars
      => [Falls(2, ToDo, ToDo')]_vars
  <2> SUFFICES ASSUME CandInv, LevelBound, CandInv', LevelBound', Next
               PROVE  Falls(2, ToDo, ToDo')
    OBVIOUS
  <2>1. TypeOK /\ TypeOK' /\ k \in Nat
    BY DEF CandInv, TypeOK
  <2>2. CASE GenerateLevel \/ CountNext \/ MineLevel
    <3>1. Phase' = Phase /\ k < k'
      BY <2>1, <2>2 DEF GenerateLevel, CountNext, MineLevel, Phase
    <3> QED
      BY <2>1, <3>1, ToDoFalls
  <2>3. CASE CountLevel
    <3>1. Phase' < Phase \/ (Phase' = Phase /\ k < k')
      BY <2>1, <2>3 DEF CountLevel, Phase
    <3> QED
      BY <2>1, <3>1, ToDoFalls
  <2>4. CASE ReadCandidates
    <3>1. pc = "read" /\ pc' \in {"cand", "serial"}
      BY <2>4 DEF ReadCandidates, CandInv, RouteInv
    <3>2. Phase' < Phase
      BY <3>1 DEF Phase
    <3> QED
      BY <2>1, <3>2, ToDoFalls
  <2>5. CASE Generated \/ ReadNothing \/ CountUndefined \/ PastBysize \/ Return
    <3>1. Phase' < Phase
      BY <2>5 DEF Generated, ReadNothing, CountUndefined, PastBysize, Return, Phase
    <3> QED
      BY <2>1, <3>1, ToDoFalls
  <2> QED
    BY <2>2, <2>3, <2>4, <2>5 DEF Next
<1> QED
  BY <1>1, Invariance, LevelBounded, PTL DEF Spec
=============================================================================
