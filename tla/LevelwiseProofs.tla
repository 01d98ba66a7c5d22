--------------------------- MODULE LevelwiseProofs ---------------------------
(***************************************************************************)
(* Levelwise is sound and complete for every number of items and           *)
(* transactions and for every database, support and maximum level: the     *)
(* invariants MCLevelwise checks on small instances, proved.               *)
(***************************************************************************)
EXTENDS Levelwise, ItemsetsProofs

-----------------------------------------------------------------------------
(* Facts about frequent itemsets: what pruning and stopping rely on. *)

\* Without a frequent itemset of n items there is none of n items or more:
\* why the main loop may stop as soon as freq is empty.
LEMMA NoLargerFrequent ==
  ASSUME NEW d, NEW s \in Nat, NEW n \in Nat \ {0}, FrequentOfSize(d, s, n) = {},
         NEW X \in Itemset, Frequent(d, s, X)
  PROVE  Cardinality(X) < n
<1>1. X \in SUBSET Item /\ Cardinality(X) \in Nat
  BY FiniteSets DEF Itemset
<1>2. SUFFICES ASSUME n <= Cardinality(X) PROVE FALSE
  BY <1>1
<1>3. PICK Y \in SUBSET X : Cardinality(Y) = n
  BY <1>1, <1>2, SubsetOfSize
<1>4. Y \in Itemset
  <2>1. Y # {}
    BY <1>3, FS_EmptySet
  <2> QED
    BY <1>1, <2>1 DEF Itemset
<1>5. Support(d, Y) >= s
  BY SupportAntitone, SupportType DEF Frequent
<1> QED
  BY <1>3, <1>4, <1>5 DEF FrequentOfSize, Frequent

\* The frequent itemsets of at most n + 1 items, level by level.
LEMMA FrequentUpToNext ==
  ASSUME NEW n \in Nat
  PROVE  FrequentUpTo(n + 1) = FrequentUpTo(n) \cup FrequentOfSize(db, support, n + 1)
<1>1. \A X \in Itemset : Cardinality(X) \in Nat
  BY FiniteSets DEF Itemset
<1> QED
  BY <1>1 DEF FrequentUpTo, FrequentOfSize

\* What the walk of an itemset knows of the candidate of its sibling y.
LEMMA CandidateFacts ==
  ASSUME TypeOK, LevelExact, pc = "walk", itemset \in freq,
         NEW y \in siblings, Siblings(db, itemset, y)
  PROVE  LET candidate == itemset \cup {LastItem(db, y)}
             frequency == Cardinality(Tidset(db, itemset)
                                        \cap Tidset(db, {LastItem(db, y)}))
         IN /\ candidate = itemset \cup y
            /\ candidate \in Itemset
            /\ Cardinality(candidate) = k
            /\ frequency = Support(db, candidate)
            /\ Frequent(db, support, candidate) => CheckSupports(candidate)
<1> DEFINE candidate == itemset \cup {LastItem(db, y)}
<1>1. /\ freq = FrequentOfSize(db, support, k - 1)
      /\ itemset \in Itemset /\ y \in Itemset /\ y \in freq
      /\ Cardinality(itemset) = k - 1
      /\ k \in Nat \ {0, 1, 2} /\ support \in Nat
  BY DEF LevelExact, TypeOK, FrequentOfSize
<1>2. /\ candidate = itemset \cup y
      /\ candidate \in Itemset
      /\ Cardinality(candidate) = k
  <2>1. /\ candidate = itemset \cup y
        /\ itemset \cup y \in Itemset
        /\ Cardinality(itemset \cup y) = Cardinality(itemset) + 1
    <3> HIDE DEF candidate
    <3>1. itemset \in Itemset /\ y \in Itemset /\ Siblings(db, itemset, y)
      BY <1>1
    <3>2. /\ itemset \cup {LastItem(db, y)} = itemset \cup y
          /\ itemset \cup y \in Itemset
          /\ Cardinality(itemset \cup y) = Cardinality(itemset) + 1
      <4>1. /\ LastItem(db, y) \in y
            /\ \A i \in y : i \in itemset \/ i = LastItem(db, y)
        BY <3>1, SiblingsJoin
      <4>2. itemset \cup y \in Itemset
        BY <3>1, SiblingsJoin
      <4>3. Cardinality(itemset \cup y) = Cardinality(itemset) + 1
        BY <3>1, SiblingsJoin
      <4> QED
        BY <4>1, <4>2, <4>3
    <3> QED
      BY <3>2 DEF candidate
  <2> HIDE DEF candidate
  <2> QED
    BY <1>1, <2>1
<1>3. Cardinality(Tidset(db, itemset) \cap Tidset(db, {LastItem(db, y)}))
        = Support(db, candidate)
  BY TidsetUnion DEF Support
<1>4. ASSUME Frequent(db, support, candidate) PROVE CheckSupports(candidate)
  <2>1. candidate \in FrequentOfSize(db, support, k)
    BY <1>2, <1>4 DEF FrequentOfSize
  <2> HIDE DEF candidate
  <2>2. k - 1 \in Nat \ {0} /\ (k - 1) + 1 = k
    BY <1>1
  <2>3. \A i \in candidate : candidate \ {i} \in FrequentOfSize(db, support, k - 1)
    BY <1>1, <2>1, <2>2, FrequentSubsets
  <2> QED
    BY <1>1, <2>3 DEF CheckSupports
<1> QED
  BY <1>2, <1>3, <1>4
-----------------------------------------------------------------------------
(* Type correctness. *)

\* The initial state of discover() is typed.
LEMMA TypeInit == Init => TypeOK
  BY InputAssumption DEF Init, TypeOK, Pc

\* Each step of discover() keeps the variables typed.
LEMMA TypeNext == TypeOK /\ [Next]_vars => TypeOK'
<1> SUFFICES ASSUME TypeOK, [Next]_vars PROVE TypeOK'
  OBVIOUS
<1> USE DEF TypeOK, inputs
<1>0. CASE ReturnItems
  BY <1>0 DEF ReturnItems, Pc
<1>1. CASE OutputItems
  <2>1. \A i \in Item : {i} \in Itemset /\ Count(db, i) \in Nat
    BY SupportType DEF Itemset, Count
  <2>2. out' \subseteq [items : Itemset, count : Nat]
    BY <1>1, <2>1 DEF OutputItems, F, Pattern
  <2> QED
    BY <1>1, <2>2 DEF OutputItems, Pc
<1>2. CASE InsertPair
  <2>1. PICK x \in FrequentOfSize(db, support, 2) :
          /\ freq' = freq \cup {x}
          /\ out' = out \cup {Pattern(x, Support(db, x))}
    BY <1>2 DEF InsertPair
  <2>2. x \in Itemset /\ Support(db, x) \in Nat
    BY SupportType DEF FrequentOfSize
  <2> QED
    BY <1>2, <2>1, <2>2 DEF InsertPair, Pattern
<1>3. CASE PairsInserted
  BY <1>3 DEF PairsInserted, Pc
<1>4. CASE StartLevel
  BY <1>4 DEF StartLevel, Pc
<1>5. CASE Stop
  BY <1>5 DEF Stop, Pc
<1>6. ASSUME NEW x \in freq \ walked, NextItemset(x) PROVE TypeOK'
  BY <1>6 DEF NextItemset, Itemset
<1>7. ASSUME NEW y \in siblings, TryCandidate(y) PROVE TypeOK'
  <2> DEFINE candidate == itemset \cup {LastItem(db, y)}
             frequency == Cardinality(Tidset(db, itemset)
                                        \cap Tidset(db, {LastItem(db, y)}))
  <2>1. candidate \in Itemset
    BY LastItemType DEF Itemset
  <2>2. frequency \in Nat
    <3>1. Tidset(db, itemset) \cap Tidset(db, {LastItem(db, y)}) \in SUBSET Tid
      BY DEF Tidset
    <3> QED
      BY <3>1, FiniteSets
  <2>3. /\ freq_next' \subseteq freq_next \cup {candidate}
        /\ out' \subseteq out \cup {Pattern(candidate, frequency)}
        /\ siblings' \subseteq siblings
        /\ UNCHANGED <<inputs, pc, k, freq, walked, itemset>>
    BY <1>7 DEF TryCandidate
  <2> HIDE DEF candidate, frequency
  <2> QED
    BY <2>1, <2>2, <2>3 DEF Pattern
<1>8. CASE EndLevel
  BY <1>8 DEF EndLevel, Pc
<1>9. CASE UNCHANGED vars
  BY <1>9 DEF vars
<1> QED
  BY <1>0, <1>1, <1>2, <1>3, <1>4, <1>5, <1>6, <1>7, <1>8, <1>9 DEF Next

\* The variables of discover() keep their types: its tries hold itemsets,
\* its output lines are itemsets with counts.
THEOREM TypeCorrect == Spec => []TypeOK
<1> QED
  BY TypeInit, TypeNext, PTL DEF Spec
-----------------------------------------------------------------------------
(* The inductive invariant: one lemma per action that changes what it says. *)

\* Writing one more line reports one more itemset.
LEMMA ReportOne ==
  ASSUME NEW S, NEW X, NEW n
  PROVE  {p.items : p \in S \cup {Pattern(X, n)}} = {p.items : p \in S} \cup {X}
<1>1. Pattern(X, n).items = X
  BY DEF Pattern
<1> QED
  BY <1>1

\* Before its first output discover() meets the invariant.
LEMMA InvInit == Init => IInv
<1> SUFFICES ASSUME Init PROVE IInv
  OBVIOUS
<1> QED
  BY TypeInit DEF Init, IInv, PhaseInv, Soundness, LevelExact, ReportedExact,
     WalkInv, JoinExact, Completeness

\* The 1-items written are the frequent itemsets of one item.
LEMMA InvOutputItems ==
  ASSUME IInv, OutputItems, TypeOK'
  PROVE  IInv'
<1> USE DEF IInv, inputs
<1>1. /\ out' = {Pattern({i}, Count(db, i)) : i \in F}
      /\ pc' = "pairs"
      /\ UNCHANGED <<inputs, k, freq, freq_next, walked, itemset, siblings>>
      /\ pc = "items" /\ k = 3 /\ freq = {} /\ freq_next = {} /\ siblings = {}
  BY DEF OutputItems, PhaseInv
<1>2. \A i \in Item : {i} \in Itemset /\ Cardinality({i}) = 1
  BY FS_Singleton DEF Itemset
<1>3. \A X \in Itemset : /\ Cardinality(X) \in Nat \ {0}
                         /\ Cardinality(X) <= 1 => \E i \in Item : X = {i}
  <2> SUFFICES ASSUME NEW X \in Itemset
               PROVE  /\ Cardinality(X) \in Nat \ {0}
                      /\ Cardinality(X) <= 1 => \E i \in Item : X = {i}
    OBVIOUS
  <2>1. X \in SUBSET Item /\ X # {} /\ IsFiniteSet(X) /\ Cardinality(X) \in Nat
    BY FiniteSets DEF Itemset
  <2>2. Cardinality(X) # 0
    BY <2>1, FS_EmptySet
  <2>3. ASSUME Cardinality(X) <= 1 PROVE \E i \in Item : X = {i}
    <3>1. \E i : X = {i}
      BY <2>1, <2>2, <2>3, FS_Singleton
    <3> QED
      BY <2>1, <3>1
  <2> QED
    BY <2>1, <2>2, <2>3
<1>4. Soundness'
  <2> SUFFICES ASSUME NEW p \in out'
               PROVE  /\ Frequent(db, support, p.items)
                      /\ p.count = Support(db, p.items)
                      /\ WithinLevel(p.items)
    BY <1>1 DEF Soundness, WithinLevel
  <2>1. PICK i \in F : p = Pattern({i}, Count(db, i))
    BY <1>1
  <2>2. p.items = {i} /\ p.count = Count(db, i)
    BY <2>1 DEF Pattern
  <2>3. Frequent(db, support, {i}) /\ p.count = Support(db, {i})
    BY <2>2 DEF Frequent, Count, F
  <2>4. WithinLevel({i})
    BY <1>2 DEF F, WithinLevel, TypeOK
  <2> QED
    BY <2>2, <2>3, <2>4
<1>5. Reported' = FrequentUpTo(1)
  <2>1. \A i \in F : Pattern({i}, Count(db, i)).items = {i}
    BY DEF Pattern
  <2>2. \A X : X \in Reported' <=> \E i \in F : X = {i}
    <3>1. Reported' = {p.items : p \in out'}
      BY DEF Reported
    <3>2. ASSUME NEW X \in Reported' PROVE \E i \in F : X = {i}
      <4>1. PICK p \in out' : X = p.items
        BY <3>1, <3>2
      <4>2. PICK i \in F : p = Pattern({i}, Count(db, i))
        BY <1>1, <4>1
      <4> QED
        BY <2>1, <4>1, <4>2
    <3>3. ASSUME NEW i \in F PROVE {i} \in Reported'
      <4>1. Pattern({i}, Count(db, i)) \in out'
        BY <1>1, <3>3
      <4> QED
        BY <2>1, <3>1, <4>1
    <3> QED
      BY <3>2, <3>3
  <2>3. \A X : X \in FrequentUpTo(1) <=> \E i \in F : X = {i}
    <3>1. \A i \in Item : i \in F <=> Frequent(db, support, {i})
      BY DEF F, Frequent, Count
    <3>2. F \subseteq Item
      BY DEF F
    <3>3. ASSUME NEW X \in FrequentUpTo(1) PROVE \E i \in F : X = {i}
      BY <1>3, <3>1 DEF FrequentUpTo
    <3>4. ASSUME NEW i \in F PROVE {i} \in FrequentUpTo(1)
      BY <1>2, <3>1, <3>2 DEF FrequentUpTo
    <3> QED
      BY <3>3, <3>4
  <2> QED
    BY <2>2, <2>3
<1>6. FrequentUpTo(1)' = FrequentUpTo(1)
  BY <1>1 DEF FrequentUpTo
<1>7. ReportedExact'
  BY <1>1, <1>5, <1>6 DEF ReportedExact
<1>9. PhaseInv'
  BY <1>1 DEF PhaseInv, Beyond
<1>10. LevelExact' /\ WalkInv' /\ JoinExact' /\ Completeness'
  BY <1>1 DEF LevelExact, WalkInv, JoinExact, Completeness
<1> QED
  BY <1>4, <1>7, <1>9, <1>10

\* With max_level 1 the frequent items are all that is owed.
LEMMA InvReturnItems ==
  ASSUME IInv, ReturnItems, TypeOK'
  PROVE  IInv'
<1> USE DEF IInv, inputs
<1>1. /\ pc = "pairs" /\ Beyond(2) /\ pc' = "done"
      /\ UNCHANGED <<inputs, k, freq, freq_next, walked, itemset, siblings, out>>
  BY DEF ReturnItems
<1>2. Reported = FrequentUpTo(1) /\ max_level \in Nat
  BY <1>1 DEF PhaseInv, ReportedExact, TypeOK
<1>3. \A X \in Itemset : Cardinality(X) \in Nat
  BY FiniteSets DEF Itemset
<1>4. Completeness'
  BY <1>1, <1>2, <1>3 DEF Completeness, WithinLevel, Reported, Beyond, FrequentUpTo
<1>5. PhaseInv' /\ LevelExact' /\ ReportedExact' /\ WalkInv' /\ JoinExact'
  BY <1>1 DEF PhaseInv, LevelExact, ReportedExact, WalkInv, JoinExact
<1>6. Soundness'
  BY <1>1 DEF Soundness, WithinLevel
<1> QED
  BY <1>4, <1>5, <1>6

\* An edge of F2 enters the trie and the output together.
LEMMA InvInsertPair ==
  ASSUME IInv, InsertPair, TypeOK'
  PROVE  IInv'
<1> USE DEF IInv, inputs
<1>1. PICK x \in FrequentOfSize(db, support, 2) :
         /\ freq' = freq \cup {x}
         /\ out' = out \cup {Pattern(x, Support(db, x))}
  BY DEF InsertPair
<1>2. /\ pc = "pairs" /\ ~ Beyond(2)
      /\ UNCHANGED <<inputs, pc, k, freq_next, walked, itemset, siblings>>
  BY DEF InsertPair
<1>3. x \in Itemset /\ Cardinality(x) = 2 /\ Frequent(db, support, x)
  BY DEF FrequentOfSize
<1>4. WithinLevel(x)
  BY <1>2, <1>3 DEF PhaseInv, Beyond, WithinLevel, TypeOK
<1>5. Soundness'
  <2>1. \A p \in out' : p \in out \/ p = Pattern(x, Support(db, x))
    BY <1>1
  <2> QED
    BY <1>2, <1>3, <1>4, <2>1 DEF Soundness, Pattern, Frequent, WithinLevel
<1>6. Reported' = Reported \cup {x}
  BY <1>1, ReportOne DEF Reported
<1>7. ReportedExact'
  BY <1>1, <1>2, <1>6 DEF ReportedExact, FrequentUpTo
<1>8. PhaseInv'
  BY <1>1, <1>2 DEF PhaseInv, Beyond
<1>9. LevelExact' /\ WalkInv' /\ JoinExact' /\ Completeness'
  BY <1>2 DEF LevelExact, WalkInv, JoinExact, Completeness
<1> QED
  BY <1>5, <1>7, <1>8, <1>9

\* Once every edge is in, freq is the level of the pairs.
LEMMA InvPairsInserted ==
  ASSUME IInv, PairsInserted, TypeOK'
  PROVE  IInv'
<1> USE DEF IInv, inputs
<1>1. /\ pc = "pairs" /\ pc' = "level" /\ ~ Beyond(2)
      /\ freq = FrequentOfSize(db, support, 2)
      /\ UNCHANGED <<inputs, k, freq, freq_next, walked, itemset, siblings, out>>
  BY DEF PairsInserted
<1>2. k = 3 /\ ~ Beyond(2)
  BY <1>1 DEF PhaseInv
<1>3. FrequentUpTo(2) = FrequentUpTo(1) \cup freq
  BY <1>1, FrequentUpToNext, 1 + 1 = 2
<1>4. ReportedExact'
  BY <1>1, <1>2, <1>3 DEF ReportedExact, Reported, FrequentUpTo
<1>5. PhaseInv'
  BY <1>1, <1>2 DEF PhaseInv, Beyond
<1>6. LevelExact'
  BY <1>1, <1>2 DEF LevelExact
<1>7. Soundness' /\ WalkInv' /\ JoinExact' /\ Completeness'
  BY <1>1 DEF Soundness, WithinLevel, WalkInv, JoinExact, Completeness
<1> QED
  BY <1>4, <1>5, <1>6, <1>7

\* Before the walk of a level every pair of siblings is pending.
LEMMA InvStartLevel ==
  ASSUME IInv, StartLevel, TypeOK'
  PROVE  IInv'
<1> USE DEF IInv, inputs
<1>1. /\ pc = "level" /\ pc' = "walk" /\ ~ Beyond(k) /\ walked' = {}
      /\ UNCHANGED <<inputs, k, freq, freq_next, itemset, siblings, out>>
  BY DEF StartLevel
<1>2. freq_next = {} /\ siblings = {}
  BY <1>1 DEF PhaseInv
<1>3. PhaseInv'
  BY <1>1 DEF PhaseInv, Beyond
<1>4. LevelExact'
  BY <1>1 DEF LevelExact
<1>5. ReportedExact'
  BY <1>1, <1>2 DEF ReportedExact, Reported, FrequentUpTo
<1>6. WalkInv'
  BY <1>1, <1>2 DEF WalkInv
<1>7. JoinExact'
  BY <1>1, <1>2 DEF JoinExact, Pending
<1>8. Soundness' /\ Completeness'
  BY <1>1 DEF Soundness, WithinLevel, Completeness
<1> QED
  BY <1>3, <1>4, <1>5, <1>6, <1>7, <1>8

\* The loop stops only when no frequent itemset within the level is left.
LEMMA InvStop ==
  ASSUME IInv, Stop, TypeOK'
  PROVE  IInv'
<1> USE DEF IInv, inputs
<1>1. /\ pc = "level" /\ pc' = "done"
      /\ freq = {} \/ Beyond(k)
      /\ UNCHANGED <<inputs, k, freq, freq_next, walked, itemset, siblings, out>>
  BY DEF Stop
<1>2. /\ freq = FrequentOfSize(db, support, k - 1)
      /\ Reported = FrequentUpTo(k - 1)
      /\ k \in Nat \ {0, 1, 2} /\ support \in Nat /\ max_level \in Nat
  BY <1>1 DEF LevelExact, ReportedExact, TypeOK
<1>3. ASSUME NEW X \in Itemset, Frequent(db, support, X), WithinLevel(X)
      PROVE  X \in Reported
  <2>1. Cardinality(X) \in Nat
    BY FiniteSets DEF Itemset
  <2>2. CASE freq = {}
    <3>1. Cardinality(X) < k - 1
      BY <1>2, <1>3, <2>2, NoLargerFrequent
    <3> QED
      BY <1>2, <1>3, <2>1, <3>1 DEF FrequentUpTo
  <2>3. CASE Beyond(k)
    BY <1>2, <1>3, <2>1, <2>3 DEF Beyond, WithinLevel, FrequentUpTo
  <2> QED
    BY <1>1, <2>2, <2>3
<1>4. Completeness'
  BY <1>1, <1>3 DEF Completeness, WithinLevel, Reported
<1>5. PhaseInv' /\ LevelExact' /\ ReportedExact' /\ WalkInv' /\ JoinExact'
  BY <1>1 DEF PhaseInv, LevelExact, ReportedExact, WalkInv, JoinExact
<1>6. Soundness'
  BY <1>1 DEF Soundness, WithinLevel
<1> QED
  BY <1>4, <1>5, <1>6

\* Standing on the next itemset, its pairs with unwalked siblings stay pending.
LEMMA InvNextItemset ==
  ASSUME IInv, NEW x \in freq \ walked, NextItemset(x), TypeOK'
  PROVE  IInv'
<1> USE DEF IInv, inputs
<1>1. /\ pc = "walk" /\ siblings = {} /\ itemset' = x
      /\ walked' = walked \cup {x}
      /\ siblings' = {y \in freq \ walked' : Siblings(db, x, y)}
      /\ UNCHANGED <<inputs, pc, k, freq, freq_next, out>>
  BY DEF NextItemset
<1>2. /\ \A u, v : Siblings(db, u, v)' <=> Siblings(db, u, v)
      /\ \A u, v \in freq : Siblings(db, u, v) => Siblings(db, v, u) /\ u # v
  BY <1>1, SiblingsJoin DEF Siblings, TypeOK
<1>3. PhaseInv' /\ LevelExact' /\ Soundness' /\ Completeness'
  BY <1>1 DEF PhaseInv, Beyond, LevelExact, Soundness, WithinLevel, Completeness
<1>4. ReportedExact'
  BY <1>1 DEF ReportedExact, Reported, FrequentUpTo
<1>5. WalkInv'
  BY <1>1, <1>2 DEF WalkInv
<1>6. \A u, v \in freq : Siblings(db, u, v) => (Pending(u, v)' <=> Pending(u, v))
  BY <1>1, <1>2 DEF Pending
<1>7. JoinExact'
  BY <1>1, <1>2, <1>6 DEF JoinExact
<1> QED
  BY <1>3, <1>4, <1>5, <1>7

\* A sibling is joined: its candidate enters freq_next just if it is frequent,
\* and no other pair of siblings has that candidate.
LEMMA InvTryCandidate ==
  ASSUME IInv, NEW y \in siblings, TryCandidate(y), TypeOK'
  PROVE  IInv'
<1> USE DEF IInv, inputs
<1> DEFINE candidate == itemset \cup y
           enters == Frequent(db, support, candidate)
<1>1. /\ pc = "walk"
      /\ siblings' = siblings \ {y}
      /\ UNCHANGED <<inputs, pc, k, freq, walked, itemset>>
  BY DEF TryCandidate
<1>2. /\ itemset \in freq /\ itemset \in walked
      /\ y \in freq /\ y \notin walked
      /\ Siblings(db, itemset, y)
      /\ freq \subseteq Itemset /\ itemset \in Itemset /\ y \in Itemset
  BY <1>1 DEF WalkInv, TypeOK
<1>3. /\ candidate \in Itemset
      /\ Cardinality(candidate) = k
      /\ IF enters
         THEN /\ freq_next' = freq_next \cup {candidate}
              /\ out' = out \cup {Pattern(candidate, Support(db, candidate))}
         ELSE UNCHANGED <<freq_next, out>>
  <2>1. LET c == itemset \cup {LastItem(db, y)}
            frequency == Cardinality(Tidset(db, itemset)
                                       \cap Tidset(db, {LastItem(db, y)}))
        IN /\ c = itemset \cup y
           /\ c \in Itemset
           /\ Cardinality(c) = k
           /\ frequency = Support(db, c)
           /\ Frequent(db, support, c) => CheckSupports(c)
    BY <1>1, <1>2, CandidateFacts
  <2> QED
    BY <2>1 DEF TryCandidate, Frequent
<1> HIDE DEF candidate
<1>4. WithinLevel(candidate)
  BY <1>1, <1>3 DEF PhaseInv, Beyond, WithinLevel, TypeOK
<1>5. Soundness'
  <2>1. \A p \in out' :
          \/ p \in out
          \/ enters /\ p = Pattern(candidate, Support(db, candidate))
    BY <1>3
  <2> QED
    BY <1>1, <1>4, <2>1 DEF Soundness, Pattern, Frequent, WithinLevel
<1>6. ReportedExact'
  <2>1. Reported' = Reported \cup (IF enters THEN {candidate} ELSE {})
    <3>1. CASE enters
      <4>1. out' = out \cup {Pattern(candidate, Support(db, candidate))}
        BY <1>3, <3>1
      <4>2. Reported' = Reported \cup {candidate}
        BY <4>1, ReportOne DEF Reported
      <4> QED
        BY <3>1, <4>2
    <3>2. CASE ~ enters
      BY <1>3, <3>2 DEF Reported
    <3> QED
      BY <3>1, <3>2
  <2>2. freq_next' = freq_next \cup (IF enters THEN {candidate} ELSE {})
    BY <1>3
  <2>3. FrequentUpTo(k - 1)' = FrequentUpTo(k - 1)
    BY <1>1 DEF FrequentUpTo
  <2> QED
    BY <1>1, <2>1, <2>2, <2>3 DEF ReportedExact
<1>7. PhaseInv' /\ LevelExact' /\ Completeness'
  BY <1>1 DEF PhaseInv, Beyond, LevelExact, Completeness
<1>8. WalkInv'
  BY <1>1 DEF WalkInv, Siblings
<1>9. JoinExact'
  <2>1. ASSUME NEW u \in freq, NEW v \in freq, Siblings(db, u, v)
        PROVE  (u \cup v \in freq_next'
                  <=> Frequent(db, support, u \cup v) /\ ~ Pending(u, v)')
    <3>1. u \in Itemset /\ v \in Itemset /\ itemset # y
      BY <1>2, SiblingsJoin
    <3>2. CASE u \cup v = candidate
      <4>1. (u = itemset /\ v = y) \/ (u = y /\ v = itemset)
        BY <1>2, <2>1, <3>1, <3>2, CandidateUnique DEF candidate
      <4>2. Pending(u, v) /\ ~ Pending(u, v)'
        BY <1>1, <1>2, <3>1, <4>1 DEF Pending
      <4>3. candidate \notin freq_next
        BY <1>1, <2>1, <3>2, <4>2 DEF JoinExact
      <4> QED
        BY <1>3, <3>2, <4>2, <4>3
    <3>3. CASE u \cup v # candidate
      <4>1. ~ (u = itemset /\ v = y) /\ ~ (v = itemset /\ u = y)
        BY <3>3 DEF candidate
      <4>2. Pending(u, v)' <=> Pending(u, v)
        BY <1>1, <4>1 DEF Pending
      <4>3. u \cup v \in freq_next' <=> u \cup v \in freq_next
        BY <1>3, <3>3
      <4> QED
        BY <1>1, <2>1, <4>2, <4>3 DEF JoinExact
    <3> QED
      BY <3>2, <3>3
  <2>2. ASSUME NEW X \in freq_next'
        PROVE  \E u, v \in freq : Siblings(db, u, v) /\ X = u \cup v
    <3>1. X \in freq_next \/ X = itemset \cup y
      BY <1>3 DEF candidate
    <3> QED
      BY <1>1, <1>2, <3>1 DEF JoinExact
  <2> QED
    BY <1>1, <2>1, <2>2 DEF JoinExact, Siblings
<1> QED
  BY <1>5, <1>6, <1>7, <1>8, <1>9

\* After a whole walk no pair is pending, so freq_next is the next level.
LEMMA InvEndLevel ==
  ASSUME IInv, EndLevel, TypeOK'
  PROVE  IInv'
<1> USE DEF IInv, inputs
<1>1. /\ pc = "walk" /\ pc' = "level" /\ siblings = {} /\ walked = freq
      /\ freq' = freq_next /\ freq_next' = {} /\ k' = k + 1
      /\ UNCHANGED <<inputs, walked, itemset, siblings, out>>
  BY DEF EndLevel
<1>2. /\ freq = FrequentOfSize(db, support, k - 1)
      /\ freq \subseteq Itemset /\ freq_next \subseteq Itemset
      /\ k \in Nat \ {0, 1, 2} /\ support \in Nat
      /\ \A x \in freq : Cardinality(x) = k - 1
  BY <1>1 DEF LevelExact, TypeOK, FrequentOfSize
<1>3. ASSUME NEW X \in FrequentOfSize(db, support, k) PROVE X \in freq_next
  <2>1. X \in Itemset /\ Cardinality(X) = k /\ Frequent(db, support, X)
    BY DEF FrequentOfSize
  <2>2. PICK x, y \in Itemset :
          /\ Siblings(db, x, y) /\ x \cup y = X
          /\ Cardinality(x) = k - 1 /\ Cardinality(y) = k - 1
    <3>1. Cardinality(X) >= 2 /\ Cardinality(X) = k
      BY <1>2, <2>1
    <3>2. \E x, y \in Itemset : /\ Siblings(db, x, y)
                                /\ x \cup y = X
                                /\ Cardinality(x) = Cardinality(X) - 1
                                /\ Cardinality(y) = Cardinality(X) - 1
      BY <2>1, <3>1, JoinCovers
    <3> QED
      BY <3>1, <3>2
  <2>3. Support(db, x) >= support /\ Support(db, y) >= support
    BY <1>2, <2>1, <2>2, SupportAntitone, SupportType DEF Frequent
  <2>4. x \in freq /\ y \in freq
    BY <1>2, <2>2, <2>3 DEF FrequentOfSize, Frequent
  <2>5. ~ Pending(x, y)
    BY <1>1, <2>4 DEF Pending
  <2> QED
    BY <1>1, <2>1, <2>2, <2>4, <2>5 DEF JoinExact
<1>4. ASSUME NEW X \in freq_next PROVE X \in FrequentOfSize(db, support, k)
  <2>1. PICK x, y \in freq : Siblings(db, x, y) /\ X = x \cup y
    BY <1>1 DEF JoinExact
  <2>2. Frequent(db, support, X)
    BY <1>1, <2>1 DEF JoinExact
  <2>3. X \in Itemset /\ Cardinality(X) = (k - 1) + 1
    BY <1>2, <2>1, SiblingsJoin
  <2> QED
    BY <1>2, <2>2, <2>3 DEF FrequentOfSize
<1>5. freq_next = FrequentOfSize(db, support, k)
  BY <1>3, <1>4
<1>6. k' - 1 = k /\ (k - 1) + 1 = k /\ k - 1 \in Nat
  BY <1>1, <1>2
<1>7. LevelExact'
  BY <1>1, <1>5, <1>6 DEF LevelExact
<1>8. FrequentUpTo(k) = FrequentUpTo(k - 1) \cup FrequentOfSize(db, support, k)
  BY <1>6, FrequentUpToNext
<1>9. ReportedExact'
  BY <1>1, <1>5, <1>6, <1>8 DEF ReportedExact, Reported, FrequentUpTo
<1>10. PhaseInv'
  BY <1>1, <1>6 DEF PhaseInv, Beyond
<1>11. Soundness' /\ WalkInv' /\ JoinExact' /\ Completeness'
  BY <1>1 DEF Soundness, WithinLevel, WalkInv, JoinExact, Completeness
<1> QED
  BY <1>7, <1>9, <1>10, <1>11

\* Each step of discover() preserves the invariant.
LEMMA InvNext == IInv /\ [Next]_vars => IInv'
<1> SUFFICES ASSUME IInv, [Next]_vars PROVE IInv'
  OBVIOUS
<1>1. TypeOK'
  BY TypeNext DEF IInv
<1>2. CASE UNCHANGED vars
  <2> USE <1>2 DEF IInv, vars, inputs
  <2>1. PhaseInv'
    BY DEF PhaseInv, Beyond
  <2>2. Soundness'
    BY DEF Soundness, WithinLevel
  <2>3. LevelExact'
    BY DEF LevelExact
  <2>4. ReportedExact'
    BY DEF ReportedExact, Reported, FrequentUpTo
  <2>5. WalkInv'
    BY DEF WalkInv, Siblings
  <2>6. JoinExact'
    <3>1. (\A x, y : Pending(x, y)' <=> Pending(x, y))
      BY DEF Pending
    <3> QED
      BY <3>1 DEF JoinExact
  <2>7. Completeness'
    BY DEF Completeness, WithinLevel, Reported
  <2> QED
    BY <1>1, <2>1, <2>2, <2>3, <2>4, <2>5, <2>6, <2>7
<1> QED
  BY <1>1, <1>2, InvOutputItems, InvReturnItems, InvInsertPair,
     InvPairsInserted, InvStartLevel, InvStop, InvNextItemset, InvTryCandidate, InvEndLevel DEF Next

\* What discover() maintains around its main loop, in every behaviour.
THEOREM Invariance == Spec => []IInv
<1> QED
  BY InvInit, InvNext, PTL DEF Spec

\* Every pattern written is frequent, within the level, with its support.
THEOREM Sound == Spec => []Soundness
<1>1. IInv => Soundness
  BY DEF IInv
<1> QED
  BY <1>1, Invariance, PTL

\* No frequent itemset within the level is missing when discover() returns.
THEOREM Complete == Spec => []Completeness
<1>1. IInv => Completeness
  BY DEF IInv
<1> QED
  BY <1>1, Invariance, PTL

\* freq holds the frequent itemsets of k - 1 items, neither more nor less.
THEOREM LevelsExact == Spec => []LevelExact
<1>1. IInv => LevelExact
  BY DEF IInv
<1> QED
  BY <1>1, Invariance, PTL

\* discover() need not look whether a candidate was inserted before.
THEOREM CandidatesGeneratedOnce == Spec => []GeneratedOnce
<1>1. IInv => GeneratedOnce
  <2> SUFFICES ASSUME IInv, NEW y \in siblings
               PROVE  itemset \cup y \notin freq_next
    BY DEF GeneratedOnce
  <2>1. pc = "walk"
    BY DEF IInv, PhaseInv
  <2> QED
    BY <2>1 DEF IInv, WalkInv, JoinExact, Pending, TypeOK
<1> QED
  BY <1>1, Invariance, PTL
-----------------------------------------------------------------------------
(* Levelwise implements FrequentSets: a step of discover() reports patterns, *)
(* finishes, or is invisible to the reader of the output.                    *)

\* FrequentSets speaks of itemsets in the words of this module.
LEMMA PromiseWords ==
  /\ Promise!Itemset = Itemset
  /\ \A X : Promise!Support(db, X) = Support(db, X)
  /\ \A X : Promise!Frequent(db, support, X) = Frequent(db, support, X)
  /\ \A X, n : Promise!Pattern(X, n) = Pattern(X, n)
  /\ \A X : Promise!Cardinality(X) = Cardinality(X)
<1>1. Promise!Item = Item /\ Promise!Tid = Tid
  BY DEF Promise!Item, Promise!Tid, Item, Tid
<1>2. Promise!Itemset = Itemset
  BY <1>1 DEF Promise!Itemset, Itemset
<1>3. \A X : Promise!Cardinality(X) = Cardinality(X)
  BY DEF Promise!Cardinality, Cardinality, Promise!IsFiniteSet, IsFiniteSet
<1>4. \A X : Promise!Tidset(db, X) = Tidset(db, X)
  BY <1>1 DEF Promise!Tidset, Tidset
<1>5. \A X : Promise!Support(db, X) = Support(db, X)
  BY <1>3, <1>4 DEF Promise!Support, Support
<1>6. \A X : Promise!Frequent(db, support, X) = Frequent(db, support, X)
  BY <1>5 DEF Promise!Frequent, Frequent
<1>7. \A X, n : Promise!Pattern(X, n) = Pattern(X, n)
  BY DEF Promise!Pattern, Pattern
<1> QED
  BY <1>2, <1>3, <1>5, <1>6, <1>7

\* What FrequentSets says is owed: frequent itemsets within the level.
LEMMA OwedPatterns ==
  \A p : p \in Promise!Owed <=>
    \E X \in Itemset : /\ Frequent(db, support, X)
                      /\ WithinLevel(X)
                      /\ p = Pattern(X, Support(db, X))
  BY PromiseWords DEF Promise!Owed, WithinLevel

\* A sound output owes nothing its reader is not owed.
LEMMA SoundOwed ==
  ASSUME TypeOK, Soundness
  PROVE  out \subseteq Promise!Owed
<1> SUFFICES ASSUME NEW p \in out PROVE p \in Promise!Owed
  OBVIOUS
<1>1. /\ p \in [items : Itemset, count : Nat]
      /\ Frequent(db, support, p.items)
      /\ p.count = Support(db, p.items)
      /\ WithinLevel(p.items)
  BY DEF TypeOK, Soundness
<1>2. p = Pattern(p.items, Support(db, p.items)) /\ p.items \in Itemset
  BY <1>1 DEF Pattern
<1> QED
  BY <1>1, <1>2, OwedPatterns

\* Nothing is owed any more when the output is sound and complete.
LEMMA AllOwed ==
  ASSUME TypeOK, Soundness, Completeness, pc = "done"
  PROVE  out = Promise!Owed
<1>1. ASSUME NEW p \in Promise!Owed PROVE p \in out
  <2>1. PICK X \in Itemset : /\ Frequent(db, support, X)
                             /\ WithinLevel(X)
                             /\ p = Pattern(X, Support(db, X))
    BY <1>1, OwedPatterns
  <2>2. X \in Reported
    BY <2>1 DEF Completeness
  <2>3. PICK q \in out : q.items = X
    BY <2>2 DEF Reported
  <2>4. q \in [items : Itemset, count : Nat] /\ q.count = Support(db, X)
    BY <2>3 DEF TypeOK, Soundness
  <2>5. q = Pattern(X, Support(db, X))
    BY <2>3, <2>4 DEF Pattern
  <2> QED
    BY <2>1, <2>5
<1> QED
  BY <1>1, SoundOwed

\* The nonempty proper subsets of a frequent itemset are frequent and smaller,
\* so they are in the output once the levels below it are.
LEMMA SubsetsReported ==
  ASSUME NEW n \in Nat, FrequentUpTo(n) \subseteq Reported, support \in Nat,
         NEW X \in Itemset, Frequent(db, support, X), Cardinality(X) <= n + 1,
         NEW Y \in (SUBSET X) \ {{}, X}
  PROVE  Y \in Reported
<1>1. /\ X \in SUBSET Item /\ IsFiniteSet(X) /\ Cardinality(X) \in Nat
      /\ Y \in Itemset /\ Y \subseteq X /\ Y # X
  BY FiniteSets DEF Itemset
<1>2. Cardinality(Y) \in Nat /\ Cardinality(Y) < Cardinality(X)
  BY <1>1, FS_Subset, FiniteSets DEF Itemset
<1>3. Frequent(db, support, Y)
  BY <1>1, SupportAntitone, SupportType DEF Frequent
<1> QED
  BY <1>1, <1>2, <1>3 DEF FrequentUpTo

\* A step that writes a pattern after all of its subsets is a Report.
LEMMA ReportStep ==
  ASSUME IInv', UNCHANGED inputs, pc # "done", pc' # "done", out \subseteq out',
         \A p \in out' \ out :
           \A X \in (SUBSET p.items) \ {{}, p.items} : X \in Reported
  PROVE  [Promise!Next]_Promise!vars
<1>1. CASE out' = out
  BY <1>1 DEF Promise!vars, inputs
<1>2. CASE out' # out
  <2>1. Promise!Owed' = Promise!Owed
    BY DEF Promise!Owed, inputs
  <2>2. (out \subseteq Promise!Owed)'
    BY SoundOwed, PTL DEF IInv
  <2>3. out' \in SUBSET Promise!Owed
    BY <2>1, <2>2
  <2>4. Promise!Report
    BY <1>2, <2>3 DEF Promise!Report, Promise!Reported, Promise!inputs, Reported, inputs
  <2> QED
    BY <2>4 DEF Promise!Next
<1> QED
  BY <1>1, <1>2

\* A step that returns with nothing owed is a Finish.
LEMMA FinishStep ==
  ASSUME IInv', UNCHANGED <<inputs, out>>, pc # "done", pc' = "done"
  PROVE  [Promise!Next]_Promise!vars
<1>1. Promise!Owed' = Promise!Owed
  BY DEF Promise!Owed, inputs
<1>2. (out = Promise!Owed)'
  <2>1. (TypeOK /\ Soundness /\ Completeness /\ pc = "done")'
    BY DEF IInv
  <2> QED
    BY <2>1, AllOwed, PTL
<1>3. Promise!Finish
  BY <1>1, <1>2 DEF Promise!Finish, Promise!inputs, inputs
<1> QED
  BY <1>3 DEF Promise!Next

\* Each step of discover() is a step of FrequentSets or a stutter.
LEMMA PromiseNext ==
  IInv /\ IInv' /\ [Next]_vars => [Promise!Next]_Promise!vars
<1> SUFFICES ASSUME IInv, IInv', [Next]_vars
             PROVE  [Promise!Next]_Promise!vars
  OBVIOUS
<1> USE DEF inputs
<1>1. CASE OutputItems
  <2>1. /\ out = {} /\ pc # "done" /\ pc' # "done" /\ UNCHANGED inputs
        /\ out' = {Pattern({i}, Count(db, i)) : i \in F}
    BY <1>1 DEF OutputItems, IInv, PhaseInv
  <2>2. ASSUME NEW p \in out', NEW X \in (SUBSET p.items) \ {{}, p.items}
        PROVE  X \in Reported
    <3>1. PICK i \in F : p = Pattern({i}, Count(db, i))
      BY <2>1, <2>2
    <3>2. p.items = {i}
      BY <3>1 DEF Pattern
    <3> QED
      BY <2>2, <3>2
  <2> QED
    BY <2>1, <2>2, ReportStep
<1>2. CASE InsertPair
  <2>1. PICK x \in FrequentOfSize(db, support, 2) :
          out' = out \cup {Pattern(x, Support(db, x))}
    BY <1>2 DEF InsertPair
  <2>2. /\ pc = "pairs" /\ pc' = "pairs" /\ UNCHANGED inputs
        /\ support \in Nat /\ FrequentUpTo(1) \subseteq Reported
    BY <1>2 DEF InsertPair, IInv, TypeOK, ReportedExact
  <2>3. x \in Itemset /\ Cardinality(x) <= 1 + 1 /\ Frequent(db, support, x)
    BY DEF FrequentOfSize
  <2>4. \A p \in out' \ out : p.items = x
    BY <2>1 DEF Pattern
  <2>5. \A X \in (SUBSET x) \ {{}, x} : X \in Reported
    BY <2>2, <2>3, SubsetsReported
  <2> QED
    BY <2>1, <2>2, <2>4, <2>5, ReportStep
<1>3. ASSUME NEW y \in siblings, TryCandidate(y)
      PROVE  [Promise!Next]_Promise!vars
  <2> DEFINE candidate == itemset \cup {LastItem(db, y)}
             frequency == Cardinality(Tidset(db, itemset)
                                        \cap Tidset(db, {LastItem(db, y)}))
  <2>1. /\ pc = "walk" /\ pc' = "walk" /\ UNCHANGED inputs
        /\ \/ out' = out
           \/ /\ out' = out \cup {Pattern(candidate, frequency)}
              /\ frequency >= support
    BY <1>3 DEF TryCandidate
  <2>2. /\ candidate \in Itemset
        /\ Cardinality(candidate) = k
        /\ frequency = Support(db, candidate)
    BY <2>1, CandidateFacts DEF IInv, WalkInv
  <2> HIDE DEF candidate, frequency
  <2>3. /\ k - 1 \in Nat /\ Cardinality(candidate) <= (k - 1) + 1
        /\ support \in Nat /\ FrequentUpTo(k - 1) \subseteq Reported
    BY <2>1, <2>2 DEF IInv, TypeOK, ReportedExact
  <2>4. \A p \in out' \ out : p.items = candidate /\ Frequent(db, support, candidate)
    BY <2>1, <2>2 DEF Pattern, Frequent
  <2>5. Frequent(db, support, candidate) =>
          \A X \in (SUBSET candidate) \ {{}, candidate} : X \in Reported
    BY <2>2, <2>3, SubsetsReported
  <2> QED
    BY <2>1, <2>4, <2>5, ReportStep
<1>4. CASE ReturnItems \/ Stop
  BY <1>4, FinishStep DEF ReturnItems, Stop
<1>5. CASE \/ PairsInserted
           \/ StartLevel
           \/ \E x \in freq \ walked : NextItemset(x)
           \/ EndLevel
           \/ UNCHANGED vars
  BY <1>5 DEF PairsInserted, StartLevel, NextItemset, EndLevel, vars, Promise!vars
<1> QED
  BY <1>1, <1>2, <1>3, <1>4, <1>5 DEF Next

\* discover() keeps the promise of a frequent itemset miner: its patterns come
\* with their support, each after its subsets, and none is missing at the end.
THEOREM RefinesPromise == Spec => KeepsPromise
<1>1. Init => Promise!Init
  BY DEF Init, Promise!Init
<1> QED
  BY <1>1, Invariance, PromiseNext, PTL DEF Spec, KeepsPromise, Promise!Spec

-----------------------------------------------------------------------------
(* The steps come to an end.                                               *)

\* No level is walked above the number of items.
LevelBound == k <= NumItems + 3 /\ (pc = "walk" => k <= NumItems + 1)

LEMMA LevelBounded == Spec => []LevelBound
<1>1. Init => LevelBound
  BY SizesAssumption DEF Init, LevelBound
<1>2. IInv /\ LevelBound /\ [Next]_vars => LevelBound'
  <2> SUFFICES ASSUME IInv, LevelBound, [Next]_vars PROVE LevelBound'
    OBVIOUS
  <2>1. k \in Nat /\ NumItems \in Nat
    BY SizesAssumption DEF IInv, TypeOK
  <2>2. CASE StartLevel
    <3>1. freq = FrequentOfSize(db, support, k - 1) /\ freq # {}
      BY <2>2 DEF StartLevel, IInv, LevelExact
    <3>2. PICK X \in Itemset : Cardinality(X) = k - 1
      BY <3>1 DEF FrequentOfSize
    <3>3. Cardinality(X) <= NumItems
      BY ItemsetSize
    <3>4. k' = k /\ k <= NumItems + 1
      BY <2>1, <2>2, <3>2, <3>3 DEF StartLevel
    <3> QED
      BY <2>1, <3>4 DEF LevelBound
  <2>3. CASE EndLevel
    <3>1. k' = k + 1 /\ pc' = "level" /\ k <= NumItems + 1
      BY <2>3 DEF EndLevel, LevelBound
    <3> QED
      BY <2>1, <3>1 DEF LevelBound
  <2>4. CASE UNCHANGED vars
    BY <2>4 DEF vars, LevelBound
  <2>5. ASSUME k' = k, pc' = pc \/ pc' # "walk" PROVE LevelBound'
    BY <2>5 DEF LevelBound
  <2>6. CASE \/ OutputItems \/ ReturnItems \/ InsertPair \/ PairsInserted \/ Stop
    BY <2>5, <2>6 DEF OutputItems, ReturnItems, InsertPair, PairsInserted, Stop
  <2>7. CASE \/ \E x \in freq \ walked : NextItemset(x)
             \/ \E y \in siblings : TryCandidate(y)
    BY <2>5, <2>7 DEF NextItemset, TryCandidate
  <2> QED
    BY <2>2, <2>3, <2>4, <2>6, <2>7 DEF Next
<1> QED
  BY <1>1, <1>2, Invariance, PTL DEF Spec

\* What is left to do: the phases, the levels, the walk of a level, the pairs
\* to insert or the itemsets to walk, and the siblings of the one walked.
Phase == IF pc = "items" THEN 3 ELSE IF pc = "pairs" THEN 2 ELSE IF pc = "done" THEN 0 ELSE 1

LevelsLeft == NumItems + 3 - k

HeadLeft == IF pc = "level" THEN 1 ELSE 0

ToTake == IF pc = "pairs" THEN FrequentOfSize(db, support, 2) \ freq ELSE freq \ walked

ToDo == <<Phase, LevelsLeft, HeadLeft, Cardinality(ToTake), Cardinality(siblings)>>

LEMMA ToDoType ==
  ASSUME TypeOK, LevelBound
  PROVE  /\ Phase \in Nat /\ LevelsLeft \in Nat /\ HeadLeft \in Nat
         /\ ToTake \in SUBSET SUBSET Item /\ siblings \in SUBSET SUBSET Item
         /\ Cardinality(ToTake) \in Nat /\ Cardinality(siblings) \in Nat
<1>1. ToTake \in SUBSET SUBSET Item /\ siblings \in SUBSET SUBSET Item
  BY DEF ToTake, FrequentOfSize, TypeOK, Itemset
<1>2. LevelsLeft \in Nat
  BY SizesAssumption DEF LevelsLeft, LevelBound, TypeOK
<1> QED
  BY <1>1, <1>2, FamilySize DEF Phase, HeadLeft

LEMMA ToDoFalls ==
  ASSUME TypeOK, LevelBound, TypeOK', LevelBound',
         \/ Phase' < Phase
         \/ Phase' = Phase /\ LevelsLeft' < LevelsLeft
         \/ Phase' = Phase /\ LevelsLeft' = LevelsLeft /\ HeadLeft' < HeadLeft
         \/ /\ Phase' = Phase /\ LevelsLeft' = LevelsLeft /\ HeadLeft' = HeadLeft
            /\ Cardinality(ToTake)' < Cardinality(ToTake)
         \/ /\ Phase' = Phase /\ LevelsLeft' = LevelsLeft /\ HeadLeft' = HeadLeft
            /\ Cardinality(ToTake)' = Cardinality(ToTake)
            /\ Cardinality(siblings)' < Cardinality(siblings)
  PROVE  Falls(5, ToDo, ToDo')
<1>1. /\ Phase \in Nat /\ LevelsLeft \in Nat /\ HeadLeft \in Nat
      /\ Cardinality(ToTake) \in Nat /\ Cardinality(siblings) \in Nat
  BY ToDoType
<1>2. Phase' \in Nat /\ HeadLeft' \in Nat
  BY DEF Phase, HeadLeft
<1>3. LevelsLeft' \in Nat
  <2> DEFINE n == k'
  <2>1. n \in Nat /\ n <= NumItems + 3
    BY DEF LevelBound, TypeOK
  <2>2. LevelsLeft' = NumItems + 3 - n /\ NumItems \in Nat
    BY SizesAssumption DEF LevelsLeft
  <2> HIDE DEF n, LevelsLeft
  <2> QED
    BY ONLY <2>1, <2>2
<1>4. Cardinality(ToTake)' \in Nat /\ Cardinality(siblings)' \in Nat
  <2>1. ToTake' \in SUBSET SUBSET Item /\ siblings' \in SUBSET SUBSET Item
    BY DEF ToTake, FrequentOfSize, TypeOK, Itemset
  <2> QED
    BY ONLY <2>1, FamilySize
<1>5. \/ Phase' < Phase
      \/ Phase' = Phase /\ LevelsLeft' < LevelsLeft
      \/ Phase' = Phase /\ LevelsLeft' = LevelsLeft /\ HeadLeft' < HeadLeft
      \/ /\ Phase' = Phase /\ LevelsLeft' = LevelsLeft /\ HeadLeft' = HeadLeft
         /\ Cardinality(ToTake)' < Cardinality(ToTake)
      \/ /\ Phase' = Phase /\ LevelsLeft' = LevelsLeft /\ HeadLeft' = HeadLeft
         /\ Cardinality(ToTake)' = Cardinality(ToTake)
         /\ Cardinality(siblings)' < Cardinality(siblings)
  OBVIOUS
<1> DEFINE a == Phase
           b == LevelsLeft
           c == HeadLeft
           d == Cardinality(ToTake)
           e == Cardinality(siblings)
           a2 == Phase'
           b2 == LevelsLeft'
           c2 == HeadLeft'
           d2 == Cardinality(ToTake)'
           e2 == Cardinality(siblings)'
<1>7. /\ a \in Nat /\ b \in Nat /\ c \in Nat /\ d \in Nat /\ e \in Nat
      /\ a2 \in Nat /\ b2 \in Nat /\ c2 \in Nat /\ d2 \in Nat /\ e2 \in Nat
  BY ONLY <1>1, <1>2, <1>3, <1>4
<1>8. \/ a2 < a
      \/ a2 = a /\ b2 < b
      \/ a2 = a /\ b2 = b /\ c2 < c
      \/ a2 = a /\ b2 = b /\ c2 = c /\ d2 < d
      \/ a2 = a /\ b2 = b /\ c2 = c /\ d2 = d /\ e2 < e
  BY ONLY <1>5
<1>9. ToDo = <<a, b, c, d, e>> /\ ToDo' = <<a2, b2, c2, d2, e2>>
  BY DEF ToDo
<1> HIDE DEF a, b, c, d, e, a2, b2, c2, d2, e2
<1> QED
  BY <1>7, <1>8, <1>9, FallsFive

\* Each step leaves less to do, in the order of these numbers: no behaviour
\* takes steps of discover() for ever (FallsEnd), whatever the fairness.
THEOREM StepsRunOut == Spec => [][Falls(5, ToDo, ToDo')]_vars
<1>1. /\ IInv /\ LevelBound /\ IInv' /\ LevelBound' /\ [Next]_vars
      => [Falls(5, ToDo, ToDo')]_vars
  <2> SUFFICES ASSUME IInv, LevelBound, IInv', LevelBound', Next
               PROVE  Falls(5, ToDo, ToDo')
    OBVIOUS
  <2>1. TypeOK /\ TypeOK' /\ k \in Nat /\ NumItems \in Nat
    BY SizesAssumption DEF IInv, TypeOK
  <2>2. CASE OutputItems
    <3>1. Phase' < Phase
      BY <2>2 DEF OutputItems, Phase
    <3> QED
      BY <2>1, <3>1, ToDoFalls
  <2>3. CASE ReturnItems
    <3>1. Phase' < Phase
      BY <2>3 DEF ReturnItems, Phase
    <3> QED
      BY <2>1, <3>1, ToDoFalls
  <2>4. CASE InsertPair
    <3>1. Phase' = Phase /\ LevelsLeft' = LevelsLeft /\ HeadLeft' = HeadLeft
      BY <2>4 DEF InsertPair, Phase, LevelsLeft, HeadLeft
    <3>2. PICK x \in FrequentOfSize(db, support, 2) \ freq : freq' = freq \cup {x}
      BY <2>4 DEF InsertPair
    <3>3. /\ ToTake = FrequentOfSize(db, support, 2) \ freq
          /\ ToTake' = FrequentOfSize(db, support, 2) \ freq'
      BY <2>4 DEF InsertPair, ToTake, inputs
    <3>4. ToTake \in SUBSET SUBSET Item /\ ToTake' \in SUBSET ToTake /\ ToTake' # ToTake
      BY <3>2, <3>3 DEF FrequentOfSize, Itemset
    <3>5. Cardinality(ToTake)' < Cardinality(ToTake)
      BY ONLY <3>4, FamilySize
    <3> QED
      BY <2>1, <3>1, <3>5, ToDoFalls
  <2>5. CASE PairsInserted
    <3>1. Phase' < Phase
      BY <2>5 DEF PairsInserted, Phase
    <3> QED
      BY <2>1, <3>1, ToDoFalls
  <2>6. CASE StartLevel
    <3>1. Phase' = Phase /\ LevelsLeft' = LevelsLeft /\ HeadLeft' < HeadLeft
      BY <2>6 DEF StartLevel, Phase, LevelsLeft, HeadLeft
    <3> QED
      BY <2>1, <3>1, ToDoFalls
  <2>7. CASE Stop
    <3>1. Phase' < Phase
      BY <2>7 DEF Stop, Phase
    <3> QED
      BY <2>1, <3>1, ToDoFalls
  <2>8. ASSUME NEW x \in freq \ walked, NextItemset(x)
        PROVE  Falls(5, ToDo, ToDo')
    <3>1. Phase' = Phase /\ LevelsLeft' = LevelsLeft /\ HeadLeft' = HeadLeft
      BY <2>8 DEF NextItemset, Phase, LevelsLeft, HeadLeft
    <3>2. ToTake = freq \ walked /\ ToTake' = freq \ (walked \cup {x})
      BY <2>8 DEF NextItemset, ToTake
    <3>3. ToTake \in SUBSET SUBSET Item /\ ToTake' \in SUBSET ToTake /\ ToTake' # ToTake
      BY <2>1, <2>8, <3>2 DEF TypeOK, Itemset
    <3>4. Cardinality(ToTake)' < Cardinality(ToTake)
      BY ONLY <3>3, FamilySize
    <3> QED
      BY <2>1, <3>1, <3>4, ToDoFalls
  <2>9. ASSUME NEW y \in siblings, TryCandidate(y)
        PROVE  Falls(5, ToDo, ToDo')
    <3>1. Phase' = Phase /\ LevelsLeft' = LevelsLeft /\ HeadLeft' = HeadLeft /\ ToTake' = ToTake
      BY <2>9 DEF TryCandidate, Phase, LevelsLeft, HeadLeft, ToTake
    <3>2. /\ siblings \in SUBSET SUBSET Item
          /\ siblings' \in SUBSET siblings /\ siblings' # siblings
      BY <2>1, <2>9 DEF TryCandidate, TypeOK, Itemset
    <3>3. Cardinality(siblings)' < Cardinality(siblings)
      BY ONLY <3>2, FamilySize
    <3>4. Cardinality(ToTake)' = Cardinality(ToTake)
      BY <3>1
    <3> QED
      BY <2>1, <3>1, <3>3, <3>4, ToDoFalls
  <2>10. CASE EndLevel
    <3>1. Phase' = Phase /\ LevelsLeft' < LevelsLeft
      BY <2>1, <2>10 DEF EndLevel, Phase, LevelsLeft
    <3> QED
      BY <2>1, <3>1, ToDoFalls
  <2> QED
    BY <2>2, <2>3, <2>4, <2>5, <2>6, <2>7, <2>8, <2>9, <2>10 DEF Next
<1> QED
  BY <1>1, Invariance, LevelBounded, PTL DEF Spec
=============================================================================
