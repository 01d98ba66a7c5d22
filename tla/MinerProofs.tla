----------------------------- MODULE MinerProofs -----------------------------
(***************************************************************************)
(* The walks of the tries are defined, the cache of tidlists is exact, and *)
(* Miner implements Levelwise, for every number of items and transactions, *)
(* support and max_level: the walks report each itemset of a level once,   *)
(* and join each pair of siblings once.  And its steps run out, those of   *)
(* the walks up and down the tries included.                               *)
(***************************************************************************)
EXTENDS MinerHistory, ItemsetsProofs

-----------------------------------------------------------------------------
(* The vectors of the frequent items, and lines.                           *)

\* The sort of a set of items lists them once, in greater_freq order.
LEMMA SortedItems ==
  ASSUME NEW X \in SUBSET Item
  PROVE  /\ Sorted(X, Greater) \in Seq(Item)
         /\ Len(Sorted(X, Greater)) = Cardinality(X)
         /\ \A m, n \in DOMAIN Sorted(X, Greater) :
              m < n => GreaterFreq(db, Sorted(X, Greater)[m], Sorted(X, Greater)[n])
         /\ \A m, n \in DOMAIN Sorted(X, Greater) :
              Sorted(X, Greater)[m] = Sorted(X, Greater)[n] => m = n
         /\ \A x : x \in X <=> \E n \in DOMAIN Sorted(X, Greater) : Sorted(X, Greater)[n] = x
<1> DEFINE R == {p \in X \X X : GreaterFreq(db, p[1], p[2])}
<1>1. IsFiniteSet(X) /\ X \subseteq Item
  BY FiniteSets
<1>2. \A x, y \in X : <<x, y>> \in R <=> GreaterFreq(db, x, y)
  OBVIOUS
<1> HIDE DEF R
<1>3. /\ \A x \in X : <<x, x>> \notin R
      /\ \A x, y \in X : x # y => <<x, y>> \in R \/ <<y, x>> \in R
      /\ \A x, y, z \in X : <<x, y>> \in R /\ <<y, z>> \in R => <<x, z>> \in R
  BY <1>1, <1>2, GreaterFreqOrder
<1>4. /\ Cardinality(X) \in Nat
      /\ \A u \in 0 .. Cardinality(X) - 1 : \E x \in X, U \in SUBSET X :
           /\ Cardinality(U) = u
           /\ \A y \in X : y \in U <=> <<y, x>> \in R
  BY <1>1, <1>3, RankTaken
<1> DEFINE At(n) == CHOOSE x \in X : Cardinality({y \in X : Greater(y, x)}) = n - 1
           q == Sorted(X, Greater)
<1>5. ASSUME NEW n \in 1 .. Cardinality(X)
      PROVE  At(n) \in X /\ Cardinality({y \in X : Greater(y, At(n))}) = n - 1
  <2>1. n - 1 \in 0 .. Cardinality(X) - 1
    BY <1>4
  <2>2. PICK x \in X, U \in SUBSET X :
          Cardinality(U) = n - 1 /\ \A y \in X : y \in U <=> <<y, x>> \in R
    BY <1>4, <2>1
  <2>3. U = {y \in X : Greater(y, x)}
    BY <1>2, <2>2 DEF Greater
  <2>4. \E z \in X : Cardinality({y \in X : Greater(y, z)}) = n - 1
    BY <2>2, <2>3
  <2> QED
    BY <2>4
<1>6. q = [n \in 1 .. Cardinality(X) |-> At(n)]
  BY DEF Sorted
<1>7. q \in [1 .. Cardinality(X) -> X]
  BY <1>5, <1>6
<1>8. ASSUME NEW n \in 1 .. Cardinality(X)
      PROVE  \E U \in SUBSET X :
               Cardinality(U) = n - 1 /\ \A y \in X : y \in U <=> <<y, q[n]>> \in R
  <2>1. q[n] = At(n) /\ q[n] \in X
    BY <1>6, <1>7
  <2> DEFINE U == {y \in X : Greater(y, At(n))}
  <2>2. U \in SUBSET X /\ Cardinality(U) = n - 1
    BY <1>5
  <2> HIDE DEF At
  <2>3. \A y \in X : y \in U <=> <<y, q[n]>> \in R
    BY <1>2, <2>1 DEF Greater
  <2> QED
    BY <2>2, <2>3
<1> HIDE DEF q, At
<1>9. /\ \A m, n \in DOMAIN q : m < n => <<q[m], q[n]>> \in R
      /\ \A m, n \in DOMAIN q : q[m] = q[n] => m = n
      /\ \A x \in X : \E n \in DOMAIN q : q[n] = x
  BY <1>1, <1>3, <1>7, <1>8, RanksListed
<1> DEFINE c == Cardinality(X)
<1>10. c \in Nat /\ q \in [1 .. c -> X]
  BY <1>4, <1>7
<1> HIDE DEF c
<1>11. q \in Seq(X) /\ Len(q) = c /\ q \in Seq(Item)
  BY <1>1, <1>10
<1>12. \A n \in DOMAIN q : q[n] \in X
  BY <1>10
<1>13. \A m, n \in DOMAIN q : m < n => GreaterFreq(db, q[m], q[n])
  BY <1>2, <1>9, <1>12
<1> QED
  BY <1>9, <1>11, <1>12, <1>13 DEF q, c

\* F2 has each frequent pair once, as an edge from the lower item.
LEMMA PairsType ==
  /\ FrequentPairs \in Seq(Item \X Item)
  /\ \A n \in DOMAIN FrequentPairs :
       /\ FrequentPairs[n][1] < FrequentPairs[n][2]
       /\ Support(db, {FrequentPairs[n][1], FrequentPairs[n][2]}) >= support
  /\ \A m, n \in DOMAIN FrequentPairs : FrequentPairs[m] = FrequentPairs[n] => m = n
  /\ \A u, v \in Item : u < v /\ Support(db, {u, v}) >= support
       => \E n \in DOMAIN FrequentPairs : FrequentPairs[n] = <<u, v>>
<1> DEFINE Earlier(e, f) == e[1] < f[1] \/ (e[1] = f[1] /\ e[2] < f[2])
           X == {e \in Item \X Item :
                   e[1] < e[2] /\ Support(db, {e[1], e[2]}) >= support}
           R == {p \in X \X X : Earlier(p[1], p[2])}
           q == FrequentPairs
<1>1. IsFiniteSet(X)
  <2>1. IsFiniteSet(Item \X Item)
    BY FiniteSets, FS_Product
  <2> QED
    BY <2>1, FS_Subset
<1>2. /\ X \subseteq Item \X Item
      /\ \A e \in X : /\ e[1] \in Int /\ e[2] \in Int /\ e[1] < e[2]
                      /\ Support(db, {e[1], e[2]}) >= support
      /\ \A u, v \in Item : u < v /\ Support(db, {u, v}) >= support => <<u, v>> \in X
  BY DEF Item
<1>0. \A e \in X : e \in Item \X Item /\ e[1] \in Int /\ e[2] \in Int
  BY <1>2
<1>3. \A e, f \in X : <<e, f>> \in R <=> Earlier(e, f)
  OBVIOUS
<1> DEFINE At(n) == CHOOSE x \in X : Cardinality({y \in X : Earlier(y, x)}) = n - 1
<1>4. q = [n \in 1 .. Cardinality(X) |-> At(n)]
  BY DEF FrequentPairs, Sorted
<1> HIDE DEF R, X, q, At
<1>5. /\ \A x \in X : <<x, x>> \notin R
      /\ \A x, y \in X : x # y => <<x, y>> \in R \/ <<y, x>> \in R
      /\ \A x, y, z \in X : <<x, y>> \in R /\ <<y, z>> \in R => <<x, z>> \in R
  <2>1. \A x \in X : <<x, x>> \notin R
    BY <1>0, <1>3
  <2>2. \A x, y \in X : x # y => <<x, y>> \in R \/ <<y, x>> \in R
    <3> SUFFICES ASSUME NEW x \in X, NEW y \in X, x # y
                 PROVE  Earlier(x, y) \/ Earlier(y, x)
      BY <1>3
    <3>1. x = <<x[1], x[2]>> /\ y = <<y[1], y[2]>>
      BY <1>0
    <3>2. x[1] # y[1] \/ x[2] # y[2]
      BY <3>1
    <3> QED
      BY <1>0, <3>2
  <2>3. \A x, y, z \in X : <<x, y>> \in R /\ <<y, z>> \in R => <<x, z>> \in R
    <3> SUFFICES ASSUME NEW x \in X, NEW y \in X, NEW z \in X,
                        Earlier(x, y), Earlier(y, z)
                 PROVE  Earlier(x, z)
      BY <1>3
    <3> QED
      BY <1>0
  <2> QED
    BY <2>1, <2>2, <2>3
<1>6. /\ Cardinality(X) \in Nat
      /\ \A u \in 0 .. Cardinality(X) - 1 : \E x \in X, U \in SUBSET X :
           /\ Cardinality(U) = u
           /\ \A y \in X : y \in U <=> <<y, x>> \in R
  BY <1>1, <1>5, RankTaken
<1>7. ASSUME NEW n \in 1 .. Cardinality(X)
      PROVE  At(n) \in X /\ Cardinality({y \in X : Earlier(y, At(n))}) = n - 1
  <2>1. n - 1 \in 0 .. Cardinality(X) - 1
    BY <1>6
  <2>2. PICK x \in X, U \in SUBSET X :
          Cardinality(U) = n - 1 /\ \A y \in X : y \in U <=> <<y, x>> \in R
    BY <1>6, <2>1
  <2>3. U = {y \in X : Earlier(y, x)}
    BY <1>3, <2>2
  <2>4. \E z \in X : Cardinality({y \in X : Earlier(y, z)}) = n - 1
    BY <2>2, <2>3
  <2> QED
    BY <2>4 DEF At
<1>8. q \in [1 .. Cardinality(X) -> X]
  BY <1>4, <1>7
<1>9. ASSUME NEW n \in 1 .. Cardinality(X)
      PROVE  \E U \in SUBSET X :
               Cardinality(U) = n - 1 /\ \A y \in X : y \in U <=> <<y, q[n]>> \in R
  <2>1. q[n] = At(n) /\ q[n] \in X
    BY <1>4, <1>8
  <2> DEFINE U == {y \in X : Earlier(y, At(n))}
  <2>2. U \in SUBSET X /\ Cardinality(U) = n - 1
    BY <1>7
  <2>3. \A y \in X : y \in U <=> <<y, q[n]>> \in R
    BY <1>3, <2>1
  <2> QED
    BY <2>2, <2>3
<1> HIDE DEF Earlier
<1>10. /\ \A m, n \in DOMAIN q : m < n => <<q[m], q[n]>> \in R
       /\ \A m, n \in DOMAIN q : q[m] = q[n] => m = n
       /\ \A x \in X : \E n \in DOMAIN q : q[n] = x
  BY <1>1, <1>5, <1>8, <1>9, RanksListed
<1> DEFINE c == Cardinality(X)
<1>11. c \in Nat /\ q \in [1 .. c -> X]
  BY <1>6, <1>8
<1> HIDE DEF c
<1>12. q \in Seq(X)
  BY <1>11
<1>13. \A n \in DOMAIN q : q[n] \in X
  BY <1>12
<1>14. q \in Seq(Item \X Item)
  BY <1>2, <1>12
<1> QED
  BY <1>2, <1>10, <1>13, <1>14 DEF q

LEMMA ReorderPair ==
  ASSUME NEW e \in Item \X Item, e[1] # e[2]
  PROVE  Reorder(e) \in Seq(Item) /\ Len(Reorder(e)) = 2
<1>1. e \in Item \X Item /\ e[1] # e[2]
  OBVIOUS
<1>2. ToSet(e) = {e[1], e[2]} /\ ToSet(e) \in SUBSET Item
  BY <1>1 DEF ToSet
<1>3. Cardinality(ToSet(e)) = 2
  <2>1. Cardinality({e[1]}) = 1 /\ IsFiniteSet({e[1]})
    BY FS_Singleton
  <2>2. ToSet(e) = {e[1]} \cup {e[2]} /\ e[2] \notin {e[1]}
    BY <1>1, <1>2
  <2>3. Cardinality({e[1]} \cup {e[2]}) = Cardinality({e[1]}) + 1
    BY <2>1, <2>2, FS_AddElement
  <2> QED
    BY <2>1, <2>2, <2>3
<1> QED
  BY <1>2, <1>3, SortedItems DEF Reorder

\* The merge of a vector with an item is a vector of one item more.
LEMMA MergeType ==
  ASSUME NEW s \in Seq(Item), NEW a \in Item
  PROVE  MergeItem(s, a) \in Seq(Item) /\ Len(MergeItem(s, a)) = Len(s) + 1
<1> DEFINE I == {i \in 1 .. Len(s) : Greater(a, s[i])}
           at == SelectInSeq(s, LAMBDA b : Greater(a, b))
<1>1. Len(s) \in Nat /\ I \subseteq 1 .. Len(s) /\ I \subseteq Nat
  OBVIOUS
<1>2. at = IF I # {} THEN Min(I) ELSE 0
  BY DEF SelectInSeq
<1>3. MergeItem(s, a) = IF at = 0 THEN Append(s, a) ELSE InsertAt(s, at, a)
  BY DEF MergeItem
<1>4. CASE I = {}
  <2>1. MergeItem(s, a) = Append(s, a)
    BY <1>2, <1>3, <1>4
  <2> QED
    BY <2>1, FrontAppend
<1>5. CASE I # {}
  <2>1. Min(I) \in I
    <3>1. \E m \in I : \A y \in I : m <= y
      BY <1>1, <1>5, LeastExists
    <3> QED
      BY <3>1 DEF Min
  <2>2. at \in 1 .. Len(s)
    BY <1>1, <1>2, <1>5, <2>1
  <2> HIDE DEF at
  <2>3. /\ at \in Nat /\ at # 0 /\ at <= Len(s)
        /\ MergeItem(s, a) = SubSeq(s, 1, at - 1) \o <<a>> \o SubSeq(s, at, Len(s))
    BY <1>3, <2>2 DEF InsertAt
  <2>4. SubSeq(s, 1, at - 1) \in Seq(Item) /\ Len(SubSeq(s, 1, at - 1)) = at - 1
    <3>1. at - 1 \in 0 .. Len(s)
      BY <1>1, <2>3
    <3> QED
      BY <3>1, PrefixType
  <2>5. SubSeq(s, at, Len(s)) \in Seq(Item) /\ Len(SubSeq(s, at, Len(s))) = Len(s) - at + 1
    BY <1>1, <2>2
  <2>6. <<a>> \in Seq(Item) /\ Len(<<a>>) = 1
    OBVIOUS
  <2>7. /\ SubSeq(s, 1, at - 1) \o <<a>> \in Seq(Item)
        /\ Len(SubSeq(s, 1, at - 1) \o <<a>>) = at
    BY <2>3, <2>4, <2>6
  <2>8. /\ MergeItem(s, a) \in Seq(Item)
        /\ Len(MergeItem(s, a)) = at + (Len(s) - at + 1)
    BY <2>3, <2>5, <2>7
  <2> QED
    BY <1>1, <2>3, <2>8
<1> QED
  BY <1>4, <1>5

-----------------------------------------------------------------------------
(* Tries: their strings and their depth.                                   *)

LEMMA EmptyHasDepth ==
  ASSUME NEW n \in Nat
  PROVE  HasDepth(EmptyTrie, n)
<1>1. EmptyTrie.kids = [p \in {<< >>} |-> << >>] /\ EmptyTrie.ends = {}
  BY DEF EmptyTrie
<1>2. Nodes(EmptyTrie) = {<< >>}
  BY <1>1 DEF Nodes
<1>3. << >> \in Seq(Item) /\ Len(<< >>) = 0 /\ DOMAIN << >> = {}
  OBVIOUS
<1>4. EmptyTrie.kids[<< >>] = << >>
  BY <1>1
<1>5. EmptyTrie.kids \in [{<< >>} -> Seq(Item)]
  BY <1>1, <1>3
<1> QED
  BY <1>1, <1>2, <1>3, <1>4, <1>5 DEF HasDepth, IsVector

\* What has depth is a trie.
LEMMA DepthIsTrie ==
  ASSUME NEW t, NEW n, HasDepth(t, n)
  PROVE  IsTrie(t)
BY DEF HasDepth, IsTrie, IsVector, Nodes

\* A string of the full length may be inserted.
LEMMA InsertHasDepth ==
  ASSUME NEW t, NEW n \in Nat, HasDepth(t, n), NEW s \in Seq(Item), Len(s) = n
  PROVE  HasDepth(Insert(t, s), n)
<1> DEFINE path == Prefixes(s)
           Old(p) == IF p \in Nodes(t) THEN t.kids[p] ELSE << >>
           Leaves(p) == /\ p \in path \ {s}
                        /\ SubSeq(s, 1, Len(p) + 1) \notin Nodes(t)
           New(p) == IF Leaves(p) THEN <<s[Len(p) + 1]>> \o Old(p) ELSE Old(p)
           T == Insert(t, s)
<1>1. /\ T.kids = [p \in Nodes(t) \cup path |-> New(p)]
      /\ T.ends = t.ends \cup {s}
  BY DEF Insert
<1>2. Nodes(T) = Nodes(t) \cup path
  BY <1>1 DEF Nodes
<1>3. ASSUME NEW p \in path
      PROVE  /\ p \in Seq(Item) /\ Len(p) <= n /\ p = SubSeq(s, 1, Len(p))
             /\ Len(p) \in 0 .. n
             /\ p # s => Len(p) \in 0 .. n - 1
  <2>1. PICK l \in 0 .. Len(s) : p = SubSeq(s, 1, l)
    BY DEF Prefixes
  <2>2. p \in Seq(Item) /\ Len(p) = l
    BY <2>1, PrefixType
  <2>3. l = n => p = s
    BY <2>1, SubSeqFull
  <2> QED
    BY <2>1, <2>2, <2>3
<1>4. \A l \in 0 .. n : SubSeq(s, 1, l) \in path
  BY DEF Prefixes
<1>5. \A p : Old(p) \in Seq(Item)
  BY DEF HasDepth
<1>6. ASSUME NEW p \in Nodes(T)
      PROVE  /\ New(p) \in Seq(Item)
             /\ \A j \in DOMAIN New(p) : Append(p, New(p)[j]) \in Nodes(T)
  <2>1. ASSUME NEW j \in DOMAIN Old(p)
        PROVE  Append(p, Old(p)[j]) \in Nodes(T)
    <3>1. p \in Nodes(t)
      BY <2>1
    <3> QED
      BY <1>2, <2>1, <3>1 DEF HasDepth
  <2>2. CASE ~ Leaves(p)
    BY <1>5, <2>1, <2>2
  <2>3. CASE Leaves(p)
    <3>1. /\ Len(p) \in 0 .. n - 1 /\ p = SubSeq(s, 1, Len(p))
      BY <1>3, <2>3
    <3> DEFINE a == s[Len(p) + 1]
    <3>2. a \in Item
      BY <3>1
    <3>3. Append(p, a) \in Nodes(T)
      <4>1. Append(p, a) = SubSeq(s, 1, Len(p) + 1)
        BY <3>1, AppendPrefix
      <4>2. Len(p) + 1 \in 0 .. n
        BY <3>1
      <4> QED
        BY <1>2, <1>4, <4>1, <4>2
    <3> HIDE DEF a
    <3>4. New(p) = <<a>> \o Old(p)
      BY <2>3 DEF a
    <3> HIDE DEF Old, New, Leaves
    <3>5. /\ New(p) \in Seq(Item)
          /\ \A j \in DOMAIN New(p) :
               New(p)[j] = a \/ \E i \in DOMAIN Old(p) : New(p)[j] = Old(p)[i]
      <4> DEFINE o == Old(p)
      <4>1. o \in Seq(Item) /\ New(p) = <<a>> \o o
        BY <1>5, <3>4
      <4> HIDE DEF o
      <4>2. /\ <<a>> \o o \in Seq(Item)
            /\ \A j \in DOMAIN (<<a>> \o o) :
                 (<<a>> \o o)[j] = a \/ \E i \in DOMAIN o : (<<a>> \o o)[j] = o[i]
        <5>1. <<a>> \in Seq(Item) /\ Len(<<a>>) = 1 /\ <<a>>[1] = a
          BY <3>2
        <5>2. /\ <<a>> \o o \in Seq(Item)
              /\ Len(<<a>> \o o) = 1 + Len(o) /\ Len(o) \in Nat
              /\ \A i \in 1 .. 1 + Len(o) : (<<a>> \o o)[i] =
                   IF i <= 1 THEN <<a>>[i] ELSE o[i - 1]
          BY <4>1, <5>1, ConcatProperties
        <5>3. ASSUME NEW j \in DOMAIN (<<a>> \o o), j # 1
              PROVE  j - 1 \in DOMAIN o /\ (<<a>> \o o)[j] = o[j - 1]
          BY <4>1, <5>2, <5>3
        <5>4. ASSUME 1 \in DOMAIN (<<a>> \o o)
              PROVE  (<<a>> \o o)[1] = a
          BY <5>1, <5>2
        <5> QED
          BY <5>2, <5>3, <5>4
      <4> QED
        BY <4>1, <4>2 DEF o
    <3> QED
      BY <2>1, <3>3, <3>5
  <2> QED
    BY <2>2, <2>3
<1> HIDE DEF New
<1>7. /\ T.kids \in [Nodes(T) -> Seq(Item)]
      /\ \A p \in Nodes(T) : \A j \in DOMAIN T.kids[p] : Append(p, T.kids[p][j]) \in Nodes(T)
  BY <1>1, <1>2, <1>6
<1>8. << >> \in Nodes(T)
  BY <1>2 DEF HasDepth
<1>9. \A p \in Nodes(T) : IsVector(p) /\ Len(p) <= n
  BY <1>2, <1>3 DEF HasDepth, IsVector
<1>10. \A p \in T.ends : p \in Nodes(T) /\ Len(p) = n
  <2>1. s \in path
    <3>1. SubSeq(s, 1, n) = s /\ n \in 0 .. n
      BY SubSeqFull
    <3> QED
      BY <1>4, <3>1
  <2> QED
    BY <1>1, <1>2, <2>1 DEF HasDepth
<1> QED
  BY <1>7, <1>8, <1>9, <1>10 DEF HasDepth

-----------------------------------------------------------------------------
(* The invariant, action by action.                                        *)

Lines == Seq([items : Seq(Item), count : Nat])

LEMMA LineType ==
  ASSUME NEW s \in Seq(Item), NEW X
  PROVE  Line(s, Support(db, X)) \in [items : Seq(Item), count : Nat]
BY SupportType DEF Line

LEMMA InitInvariant == Init => MinerInv
<1> SUFFICES ASSUME Init PROVE MinerInv
  OBVIOUS
<1> USE DEF Init
<1>1. /\ FrequentItems \in Seq(Item)
      /\ FrequentPairs \in Seq(Item \X Item)
      /\ \A n \in DOMAIN FrequentPairs : FrequentPairs[n][1] # FrequentPairs[n][2]
  <2>1. {i \in Item : Count(db, i) >= support} \in SUBSET Item
    OBVIOUS
  <2>2. FrequentItems \in Seq(Item)
    BY <2>1, SortedItems DEF FrequentItems
  <2>3. \A n \in DOMAIN FrequentPairs :
          FrequentPairs[n][1] \in Int /\ FrequentPairs[n][2] \in Int
    BY PairsType DEF Item
  <2>4. FrequentPairs \in Seq(Item \X Item)
    BY PairsType
  <2>5. \A n \in DOMAIN FrequentPairs : FrequentPairs[n][1] < FrequentPairs[n][2]
    BY PairsType
  <2>6. \A n \in DOMAIN FrequentPairs : FrequentPairs[n][1] # FrequentPairs[n][2]
    BY <2>3, <2>5
  <2> QED
    BY <2>2, <2>4, <2>6
<1>2. TriesInv
  BY EmptyHasDepth DEF TriesInv
<1>3. TypeOK
  <2>1. IsTrie(freq) /\ IsTrie(freq_next)
    BY <1>2, DepthIsTrie DEF TriesInv
  <2> QED
    BY <1>1, <2>1, InputAssumption DEF TypeOK, Pc, IsVector
<1>4. StacksInv /\ CacheExact
  BY DEF StacksInv, CacheExact
<1> QED
  BY <1>1, <1>2, <1>3, <1>4 DEF MinerInv

LEMMA OutputItemsStep ==
  ASSUME MinerInv, OutputItems
  PROVE  MinerInv'
<1> USE DEF MinerInv, OutputItems, inputs, walk
<1>1. out' \in Lines
  <2>1. F \in Seq(Item)
    BY DEF TypeOK
  <2>2. \A i \in DOMAIN F :
          Line(<<F[i]>>, Count(db, F[i])) \in [items : Seq(Item), count : Nat]
    <3> TAKE i \in DOMAIN F
    <3>1. <<F[i]>> \in Seq(Item)
      BY <2>1
    <3> QED
      BY <3>1, LineType DEF Count
  <2> DEFINE n == Len(F)
             line(i) == Line(<<F[i]>>, Count(db, F[i]))
  <2>3. n \in Nat /\ DOMAIN F = 1 .. n /\ out' = [i \in 1 .. n |-> line(i)]
    BY <2>1
  <2>4. \A i \in 1 .. n : line(i) \in [items : Seq(Item), count : Nat]
    BY <2>2, <2>3
  <2> DEFINE R == [items : Seq(Item), count : Nat]
  <2>5. \A i \in 1 .. n : line(i) \in R
    BY <2>4
  <2> HIDE DEF n, line, R
  <2>6. out' \in [1 .. n -> R] /\ n \in Nat
    BY <2>3, <2>5
  <2>7. out' \in Seq(R)
    BY ONLY <2>6
  <2> QED
    BY <2>7 DEF Lines, R
<1>2. TypeOK'
  BY <1>1 DEF TypeOK, Pc, Lines
<1>3. TriesInv'
  BY DEF TriesInv
<1>4. StacksInv' /\ CacheExact'
  BY DEF StacksInv, CacheExact
<1> QED
  BY <1>2, <1>3, <1>4

LEMMA ReturnItemsStep ==
  ASSUME MinerInv, ReturnItems
  PROVE  MinerInv'
<1> USE DEF MinerInv, ReturnItems, inputs, walk
<1>1. TypeOK' /\ TriesInv'
  BY DEF TypeOK, Pc, TriesInv
<1>2. StacksInv' /\ CacheExact'
  BY DEF StacksInv, CacheExact
<1> QED
  BY <1>1, <1>2

LEMMA InsertPairStep ==
  ASSUME MinerInv, InsertPair
  PROVE  MinerInv'
<1> USE DEF MinerInv, inputs, walk
<1> DEFINE x == Reorder(F2[edge + 1])
<1>1. /\ pc = "pairs" /\ edge < Len(F2)
      /\ freq' = Insert(freq, x)
      /\ out' = Append(out, Line(x, Support(db, ToSet(x))))
      /\ edge' = edge + 1
      /\ UNCHANGED <<inputs, pc, k, freq_next, walk, cand>>
  BY DEF InsertPair
<1>2. x \in Seq(Item) /\ Len(x) = 2
  <2>1. edge + 1 \in DOMAIN F2 /\ F2 \in Seq(Item \X Item)
    BY <1>1 DEF TypeOK
  <2>2. F2[edge + 1] \in Item \X Item /\ F2[edge + 1][1] # F2[edge + 1][2]
    BY <2>1
  <2> QED
    BY <2>2, ReorderPair
<1> HIDE DEF x
<1>3. k = 3
  BY <1>1 DEF TriesInv
<1>4. HasDepth(freq', 2)
  <2>1. k - 1 = 2
    BY <1>3
  <2>2. HasDepth(freq, 2)
    BY <2>1 DEF TriesInv
  <2> QED
    BY <1>1, <1>2, <2>2, InsertHasDepth
<1>5. TriesInv'
  BY <1>1, <1>3, <1>4 DEF TriesInv
<1>6. out' \in Lines
  <2>1. out \in Lines
    BY DEF TypeOK, Lines
  <2> QED
    BY <1>1, <1>2, <2>1, LineType DEF Lines
<1>7. TypeOK'
  <2>1. IsTrie(freq')
    BY <1>4, DepthIsTrie
  <2> QED
    BY <1>1, <1>6, <2>1 DEF TypeOK, Lines
<1>8. StacksInv' /\ CacheExact'
  BY <1>1 DEF StacksInv, CacheExact
<1> QED
  BY <1>1, <1>5, <1>7, <1>8

LEMMA PairsInsertedStep ==
  ASSUME MinerInv, PairsInserted
  PROVE  MinerInv'
<1> USE DEF MinerInv, PairsInserted, inputs, walk
<1>1. TypeOK' /\ TriesInv'
  BY DEF TypeOK, Pc, TriesInv
<1>2. StacksInv' /\ CacheExact'
  BY DEF StacksInv, CacheExact
<1> QED
  BY <1>1, <1>2

LEMMA StartLevelStep ==
  ASSUME MinerInv, StartLevel
  PROVE  MinerInv'
<1> USE DEF MinerInv, StartLevel, inputs
<1>1. tidlist_cache' \in Seq(SUBSET Tid) /\ Len(tidlist_cache') = k
  <2>1. k \in Nat
    BY DEF TypeOK
  <2>2. tidlist_cache' = [d \in 1 .. k |-> {}]
    OBVIOUS
  <2> QED
    BY ONLY <2>1, <2>2
<1>2. iter_stack' \in Seq(Nat \ {0}) /\ Len(iter_stack') = 1 /\ Last(iter_stack') = 1
  BY DEF Last
<1>3. current_string' = << >> /\ Len(<< >>) = 0 /\ << >> \in Seq(Item)
  OBVIOUS
<1>4. TypeOK'
  BY <1>1, <1>2, <1>3 DEF TypeOK, Pc, IsVector
<1>5. TriesInv'
  BY DEF TriesInv
<1>6. StacksInv'
  <2>1. << >> \in Nodes(freq) /\ freq.kids[<< >>] \in Seq(Item)
    BY DEF TriesInv, HasDepth
  <2>2. freq.kids[<< >>] # << >>
    BY DEF IsEmptyTrie
  <2>3. Len(freq.kids[<< >>]) >= 1
    BY <2>1, <2>2
  <2>4. Subtries' = freq.kids[<< >>]
    BY DEF Subtries
  <2>5. OnString(freq', current_string', iter_stack')
    BY <1>3 DEF OnString
  <2>6. iter_stack' # << >>
    BY <1>2
  <2>7. Last(iter_stack') <= Len(Subtries') /\ Last(iter_stack') <= Len(Subtries') + 1
    BY <1>2, <2>1, <2>3, <2>4
  <2>8. Len(iter_stack') = Len(current_string') + 1 /\ current_string' \in Nodes(freq')
    BY <1>2, <1>3, <2>1
  <2>9. pc' = "walk" /\ k' = k
    OBVIOUS
  <2> QED
    BY <1>1, <2>5, <2>6, <2>7, <2>8, <2>9 DEF StacksInv
<1>7. CacheExact'
  BY <1>3 DEF CacheExact
<1> QED
  BY <1>4, <1>5, <1>6, <1>7

LEMMA StopStep ==
  ASSUME MinerInv, Stop
  PROVE  MinerInv'
<1> USE DEF MinerInv, Stop, inputs, walk
<1>1. TypeOK' /\ TriesInv'
  BY DEF TypeOK, Pc, TriesInv
<1>2. StacksInv' /\ CacheExact'
  BY DEF StacksInv, CacheExact
<1> QED
  BY <1>1, <1>2

\* Where the walk stands, with the facts its next turn needs.
LEMMA WalkFacts ==
  ASSUME MinerInv, pc \in {"walk", "cand"}, iter_stack # << >>
  PROVE  /\ current_string \in Seq(Item) /\ Len(current_string) \in 0 .. k - 1
         /\ iter_stack \in Seq(Nat \ {0})
         /\ Len(iter_stack) = Len(current_string) + 1
         /\ Last(iter_stack) \in Nat \ {0}
         /\ current_string \in Nodes(freq)
         /\ OnString(freq, current_string, iter_stack)
         /\ Subtries \in Seq(Item) /\ Len(Subtries) \in Nat
         /\ Len(tidlist_cache) = k /\ tidlist_cache \in Seq(SUBSET Tid)
         /\ k \in Nat /\ k >= 3
<1>1. /\ current_string \in Seq(Item) /\ iter_stack \in Seq(Nat \ {0})
      /\ tidlist_cache \in Seq(SUBSET Tid)
      /\ k \in Nat /\ k >= 3
  BY DEF MinerInv, TypeOK, IsVector
<1>2. /\ Len(iter_stack) = Len(current_string) + 1
      /\ current_string \in Nodes(freq)
      /\ OnString(freq, current_string, iter_stack)
      /\ Len(tidlist_cache) = k
  BY DEF MinerInv, StacksInv
<1>3. Len(current_string) <= k - 1 /\ Subtries \in Seq(Item)
  BY <1>2 DEF MinerInv, TriesInv, HasDepth, Subtries
<1>4. Last(iter_stack) \in Nat \ {0}
  BY <1>1, <1>2 DEF Last
<1> QED
  BY <1>1, <1>2, <1>3, <1>4

\* On an endmark the candidate walk starts at the place of the string among
\* its siblings; elsewhere the walk goes on.
LEMMA VisitFacts ==
  ASSUME MinerInv, pc = "walk", Visit, freq' = freq, current_string' # << >>,
         current_string' \in Seq(Item), iter_stack' \in Seq(Nat \ {0}),
         Len(iter_stack') = Len(current_string') + 1,
         OnString(freq, current_string', iter_stack')
  PROVE  /\ pc' \in {"walk", "cand"} /\ cand' \in Nat
         /\ pc' = "cand" => /\ current_string' \in freq.ends
                            /\ cand' \in DOMAIN freq.kids[Front(current_string')]
<1>1. CASE current_string' \in freq.ends
  <2> DEFINE s == current_string'
             iters == iter_stack'
  <2>1. pc' = "cand" /\ cand' = Last(Front(iters))
    BY <1>1 DEF Visit
  <2>2. /\ s \in Seq(Item) /\ s # << >> /\ iters \in Seq(Nat \ {0})
        /\ Len(iters) = Len(s) + 1 /\ OnString(freq, s, iters)
    OBVIOUS
  <2> HIDE DEF s, iters
  <2>3. Len(s) \in Nat \ {0} /\ Front(s) = SubSeq(s, 1, Len(s) - 1) /\ iters # << >>
    BY <2>2, FrontType
  <2>4. Last(Front(iters)) = iters[Len(s)]
    <3>1. /\ Len(Front(iters)) = Len(iters) - 1
          /\ \A i \in 1 .. Len(iters) - 1 : Front(iters)[i] = iters[i]
      BY <2>2, <2>3, FrontType
    <3>2. Len(iters) - 1 = Len(s) /\ Len(s) \in 1 .. Len(s)
      BY <2>2, <2>3
    <3> QED
      BY <3>1, <3>2 DEF Last
  <2>5. iters[Len(s)] \in DOMAIN freq.kids[Front(s)]
    <3>1. Len(s) \in 1 .. Len(s)
      BY <2>3
    <3>2. iters[Len(s)] \in DOMAIN freq.kids[SubSeq(s, 1, Len(s) - 1)]
      BY <2>2, <3>1 DEF OnString
    <3> QED
      BY <2>3, <3>2
  <2>6. iters[Len(s)] \in Nat
    BY <2>2, <2>3
  <2> QED
    BY <1>1, <2>1, <2>4, <2>5, <2>6 DEF s
<1>2. CASE current_string' \notin freq.ends
  BY <1>2 DEF Visit, MinerInv, TypeOK
<1> QED
  BY <1>1, <1>2

LEMMA DescendStep ==
  ASSUME MinerInv, Descend
  PROVE  MinerInv'
<1> DEFINE s == current_string
           iters == iter_stack
           depth == Len(iters)
           arc == Subtries[Last(iters)]
           list == IF depth = 1 THEN Tidset(db, {arc})
                   ELSE tidlist_cache[depth - 1] \cap Tidset(db, {arc})
<1>1. /\ pc = "walk" /\ iters # << >> /\ Last(iters) <= Len(Subtries)
      /\ current_string' = Append(s, arc)
      /\ iter_stack' = Append(iters, 1)
      /\ tidlist_cache' = [tidlist_cache EXCEPT ![depth] = list]
      /\ Visit
      /\ UNCHANGED <<inputs, edge, k, freq, freq_next, out>>
  BY DEF Descend
<1>2. /\ s \in Seq(Item) /\ Len(s) \in 0 .. k - 1 /\ s \in Nodes(freq)
      /\ iters \in Seq(Nat \ {0}) /\ depth = Len(s) + 1
      /\ Last(iters) \in Nat \ {0}
      /\ OnString(freq, s, iters)
      /\ Subtries \in Seq(Item) /\ Len(Subtries) \in Nat
      /\ Len(tidlist_cache) = k /\ tidlist_cache \in Seq(SUBSET Tid)
      /\ k \in Nat /\ k >= 3
  BY <1>1, WalkFacts
<1>3. Last(iters) \in DOMAIN Subtries /\ arc \in Item
  BY <1>1, <1>2
<1>4. current_string' \in Nodes(freq)
  <2>1. Subtries = freq.kids[s]
    BY DEF Subtries
  <2> QED
    BY <1>1, <1>2, <1>3, <2>1 DEF MinerInv, TriesInv, HasDepth
<1>5. /\ current_string' \in Seq(Item) /\ Len(current_string') = Len(s) + 1
      /\ current_string' # << >>
      /\ current_string'[Len(s) + 1] = arc
      /\ \A i \in 1 .. Len(s) : current_string'[i] = s[i]
      /\ \A l \in 0 .. Len(s) : SubSeq(current_string', 1, l) = SubSeq(s, 1, l)
      /\ Front(current_string') = s
  BY <1>1, <1>2, <1>3, FrontAppend
<1>6. /\ iter_stack' \in Seq(Nat \ {0}) /\ Len(iter_stack') = depth + 1
      /\ iter_stack' # << >> /\ Last(iter_stack') = 1
      /\ \A i \in 1 .. depth : iter_stack'[i] = iters[i]
  <2>1. 1 \in Nat \ {0} /\ iters \in Seq(Nat \ {0})
    BY <1>2
  <2>2. /\ Append(iters, 1) \in Seq(Nat \ {0}) /\ Len(Append(iters, 1)) = Len(iters) + 1
        /\ Append(iters, 1) # << >>
        /\ \A i \in 1 .. Len(iters) : Append(iters, 1)[i] = iters[i]
        /\ Last(Append(iters, 1)) = 1
    BY ONLY <2>1, FrontAppend
  <2> QED
    BY <1>1, <2>2
<1>7. OnString(freq, current_string', iter_stack')
  <2> SUFFICES ASSUME NEW d \in 1 .. Len(s) + 1
               PROVE  /\ SubSeq(current_string', 1, d - 1) \in Nodes(freq)
                      /\ iter_stack'[d] \in DOMAIN freq.kids[SubSeq(current_string', 1, d - 1)]
                      /\ freq.kids[SubSeq(current_string', 1, d - 1)][iter_stack'[d]]
                           = current_string'[d]
    BY <1>5 DEF OnString
  <2>1. d - 1 \in 0 .. Len(s) /\ d \in 1 .. depth
    BY <1>2
  <2>2. SubSeq(current_string', 1, d - 1) = SubSeq(s, 1, d - 1) /\ iter_stack'[d] = iters[d]
    BY <1>5, <1>6, <2>1
  <2>3. CASE d = Len(s) + 1
    <3>1. SubSeq(s, 1, d - 1) = s
      BY <1>2, <2>3, SubSeqFull
    <3>2. iters[d] = Last(iters)
      BY <1>2, <2>3 DEF Last
    <3>3. freq.kids[s] = Subtries
      BY DEF Subtries
    <3>4. current_string'[d] = arc
      BY <1>5, <2>3
    <3> QED
      BY <1>2, <1>3, <2>2, <3>1, <3>2, <3>3, <3>4
  <2>4. CASE d # Len(s) + 1
    <3>1. d \in 1 .. Len(s)
      BY <1>2, <2>4
    <3>2. current_string'[d] = s[d]
      BY <1>5, <3>1
    <3> QED
      BY <1>2, <2>2, <3>1, <3>2 DEF OnString
  <2> QED
    BY <2>3, <2>4
<1>8. /\ pc' \in {"walk", "cand"} /\ cand' \in Nat
      /\ pc' = "cand" => /\ current_string' \in freq.ends
                         /\ cand' \in DOMAIN freq.kids[Front(current_string')]
  <2>1. Len(iter_stack') = Len(current_string') + 1
    BY <1>2, <1>5, <1>6
  <2> QED
    BY <1>1, <1>5, <1>6, <1>7, <2>1, VisitFacts
<1>9. list \in SUBSET Tid
  BY DEF Tidset
<1>10. depth \in 1 .. k /\ depth \in DOMAIN tidlist_cache
  BY <1>2
<1>11. tidlist_cache' \in Seq(SUBSET Tid) /\ Len(tidlist_cache') = k
  <2>1. depth \in 1 .. Len(tidlist_cache) /\ tidlist_cache \in Seq(SUBSET Tid)
    BY <1>2, <1>10
  <2> HIDE DEF list, depth
  <2> QED
    BY <1>1, <1>2, <1>9, <2>1, ExceptSeq
<1>12. TypeOK'
  <2>1. IsVector(current_string')
    BY <1>5 DEF IsVector
  <2>2. pc' \in Pc
    BY <1>8 DEF Pc
  <2> QED
    BY <1>1, <1>6, <1>8, <1>11, <2>1, <2>2 DEF MinerInv, TypeOK, inputs
<1>13. TriesInv'
  BY <1>1, <1>8 DEF MinerInv, TriesInv, inputs
<1>14. StacksInv'
  <2>1. Subtries' = freq.kids[current_string'] /\ freq' = freq /\ k' = k
    BY <1>1 DEF Subtries
  <2>2. SiblingList' = freq.kids[Front(current_string')]
    BY <1>1 DEF SiblingList
  <2>3. freq.kids[current_string'] \in Seq(Item)
    BY <1>4 DEF MinerInv, TriesInv, HasDepth
  <2>4. Last(iter_stack') <= Len(Subtries') + 1
    BY <1>6, <2>1, <2>3
  <2>5. Len(iter_stack') = Len(current_string') + 1
    BY <1>2, <1>5, <1>6
  <2> QED
    BY <1>4, <1>5, <1>6, <1>7, <1>8, <1>11, <2>1, <2>2, <2>4, <2>5 DEF StacksInv
<1>15. CacheExact'
  <2> SUFFICES ASSUME NEW d \in 1 .. Len(s) + 1
               PROVE  tidlist_cache'[d] = Tidset(db, ToSet(SubSeq(current_string', 1, d)))
    <3>1. DOMAIN current_string' = 1 .. Len(s) + 1 /\ db' = db
      BY <1>1, <1>2, <1>5 DEF inputs
    <3> QED
      BY <3>1 DEF CacheExact
  <2>0. ASSUME NEW n \in 1 .. Len(s)
        PROVE  tidlist_cache[n] = Tidset(db, ToSet(SubSeq(s, 1, n)))
    <3>1. n \in DOMAIN s
      BY <1>2
    <3> QED
      BY <1>1, <3>1 DEF MinerInv, CacheExact
  <2>1. CASE d = Len(s) + 1
    <3>1. SubSeq(current_string', 1, d) = current_string'
      BY <1>5, <2>1, SubSeqFull
    <3>2. ToSet(current_string') = ToSet(s) \cup {arc}
      <4>1. DOMAIN current_string' = 1 .. Len(s) + 1 /\ DOMAIN s = 1 .. Len(s) /\ Len(s) \in Nat
        BY <1>2, <1>5
      <4> QED
        BY <1>5, <4>1 DEF ToSet
    <3>3. tidlist_cache'[d] = list
      BY <1>1, <1>2, <1>10, <2>1
    <3>4. CASE depth = 1
      <4>1. ToSet(s) = {}
        <5>0. s \in Seq(Item) /\ depth = Len(s) + 1
          BY <1>2
        <5>1. Len(s) = 0 /\ s \in Seq(Item)
          BY ONLY <3>4, <5>0
        <5>2. DOMAIN s = {}
          BY ONLY <5>1
        <5> QED
          BY <5>2 DEF ToSet
      <4>2. ToSet(current_string') = {arc} /\ list = Tidset(db, {arc})
        BY <3>2, <3>4, <4>1
      <4> QED
        BY <3>1, <3>3, <4>2
    <3>5. CASE depth # 1
      <4>1. depth - 1 = Len(s) /\ Len(s) \in 1 .. Len(s)
        BY <1>2, <3>5
      <4>2. tidlist_cache[Len(s)] = Tidset(db, ToSet(s))
        BY <1>2, <2>0, <4>1, SubSeqFull
      <4>3. list = Tidset(db, ToSet(s)) \cap Tidset(db, {arc})
        BY <3>5, <4>1, <4>2
      <4>4. Tidset(db, ToSet(s) \cup {arc}) = Tidset(db, ToSet(s)) \cap Tidset(db, {arc})
        BY TidsetUnion
      <4> QED
        BY <3>1, <3>2, <3>3, <4>3, <4>4
    <3> QED
      BY <3>4, <3>5
  <2>2. CASE d # Len(s) + 1
    <3>1. d \in 1 .. Len(s) /\ d # depth /\ d \in 0 .. Len(s)
      BY <1>2, <2>2
    <3>2. tidlist_cache'[d] = tidlist_cache[d]
      <4>1. d \in DOMAIN tidlist_cache
        BY <1>2, <3>1
      <4> QED
        BY <1>1, <3>1, <4>1
    <3>3. SubSeq(current_string', 1, d) = SubSeq(s, 1, d)
      BY <1>5, <3>1
    <3> QED
      BY <2>0, <3>1, <3>2, <3>3
  <2> QED
    BY <2>1, <2>2
<1> QED
  BY <1>1, <1>12, <1>13, <1>14, <1>15 DEF MinerInv, inputs

LEMMA BacktrackStep ==
  ASSUME MinerInv, Backtrack
  PROVE  MinerInv'
<1> DEFINE s == current_string
           iters == iter_stack
           parent == Front(s)
           back == [Front(iters) EXCEPT ![Len(iters) - 1] = @ + 1]
<1>1. /\ pc = "walk" /\ iters # << >> /\ s # << >>
      /\ current_string' = parent
      /\ IF parent = << >> /\ Last(back) > Len(freq.kids[parent])
         THEN iter_stack' = << >> /\ UNCHANGED <<pc, cand>>
         ELSE iter_stack' = back /\ Visit
      /\ UNCHANGED <<inputs, edge, k, freq, freq_next, tidlist_cache, out>>
  BY DEF Backtrack
<1>2. /\ s \in Seq(Item) /\ Len(s) \in 0 .. k - 1
      /\ iters \in Seq(Nat \ {0}) /\ Len(iters) = Len(s) + 1
      /\ OnString(freq, s, iters)
      /\ Len(tidlist_cache) = k
      /\ k \in Nat /\ k >= 3
  BY <1>1, WalkFacts
<1>3. /\ Len(s) \in Nat \ {0} /\ Len(s) \in 1 .. Len(s)
      /\ parent = SubSeq(s, 1, Len(s) - 1)
      /\ parent \in Seq(Item) /\ Len(parent) = Len(s) - 1
      /\ \A i \in 1 .. Len(s) - 1 : parent[i] = s[i]
      /\ \A l \in 0 .. Len(s) - 1 : SubSeq(parent, 1, l) = SubSeq(s, 1, l)
  <2>1. s \in Seq(Item) /\ s # << >>
    BY <1>1, <1>2
  <2>2. Len(s) \in Nat \ {0}
    BY <2>1
  <2>3. Len(s) \in 1 .. Len(s)
    BY <2>2
  <2> QED
    BY <2>1, <2>2, <2>3, FrontType
<1>4. /\ parent \in Nodes(freq)
      /\ iters[Len(s)] \in DOMAIN freq.kids[parent]
  <2>1. /\ SubSeq(s, 1, Len(s) - 1) \in Nodes(freq)
        /\ iters[Len(s)] \in DOMAIN freq.kids[SubSeq(s, 1, Len(s) - 1)]
    BY <1>2, <1>3 DEF OnString
  <2> QED
    BY <1>3, <2>1
<1>5. /\ freq.kids[parent] \in Seq(Item)
      /\ Len(freq.kids[parent]) \in Nat
      /\ iters[Len(s)] \in 1 .. Len(freq.kids[parent])
  BY <1>4 DEF MinerInv, TriesInv, HasDepth
<1>6. /\ back \in Seq(Nat \ {0}) /\ Len(back) = Len(s)
      /\ Last(back) = iters[Len(s)] + 1
      /\ \A i \in 1 .. Len(s) - 1 : back[i] = iters[i]
  <2> DEFINE f == Front(iters)
  <2>1. /\ f \in Seq(Nat \ {0}) /\ Len(f) = Len(s)
        /\ \A i \in 1 .. Len(s) : f[i] = iters[i]
    <3>1. /\ f \in Seq(Nat \ {0}) /\ Len(f) = Len(iters) - 1
          /\ \A i \in 1 .. Len(iters) - 1 : f[i] = iters[i]
      BY <1>1, <1>2, FrontType
    <3>2. Len(iters) - 1 = Len(s)
      BY <1>2, <1>3
    <3> QED
      BY <3>1, <3>2
  <2>2. Len(iters) - 1 = Len(s)
    BY <1>2, <1>3
  <2>3. back = [f EXCEPT ![Len(s)] = f[Len(s)] + 1]
    BY <2>2
  <2>4. f[Len(s)] + 1 \in Nat \ {0} /\ f[Len(s)] = iters[Len(s)]
    BY <1>3, <2>1
  <2> HIDE DEF f, back
  <2>5. /\ back \in Seq(Nat \ {0}) /\ Len(back) = Len(s)
        /\ \A j \in 1 .. Len(s) : back[j] = IF j = Len(s) THEN f[Len(s)] + 1 ELSE f[j]
    BY <1>3, <2>1, <2>3, <2>4, ExceptSeq
  <2>6. Last(back) = iters[Len(s)] + 1
    BY <1>3, <2>4, <2>5 DEF Last
  <2>7. ASSUME NEW i \in 1 .. Len(s) - 1
        PROVE  back[i] = iters[i]
    BY <1>3, <2>1, <2>5
  <2> QED
    BY <2>5, <2>6, <2>7
<1> HIDE DEF parent, back
<1>7. parent \notin freq.ends
  <2>1. \A p \in freq.ends : Len(p) = k - 1
    BY DEF MinerInv, TriesInv, HasDepth
  <2>2. Len(parent) # k - 1
    BY <1>2, <1>3
  <2> QED
    BY <2>1, <2>2
<1>8. UNCHANGED <<pc, cand>>
  BY <1>1, <1>7 DEF Visit
<1>9. iter_stack' \in Seq(Nat \ {0})
  <2>1. iter_stack' = << >> \/ iter_stack' = back
    BY <1>1
  <2>2. << >> \in Seq(Nat \ {0})
    OBVIOUS
  <2> QED
    BY <1>6, <2>1, <2>2
<1>10. TypeOK'
  BY <1>1, <1>3, <1>8, <1>9 DEF MinerInv, TypeOK, inputs, IsVector
<1>11. TriesInv'
  BY <1>1, <1>8 DEF MinerInv, TriesInv, inputs
<1>12. ASSUME iter_stack' # << >>
       PROVE  /\ Len(iter_stack') = Len(current_string') + 1
              /\ OnString(freq, current_string', iter_stack')
              /\ Last(iter_stack') <= Len(freq.kids[parent]) + 1
              /\ parent = << >> => Last(iter_stack') <= Len(freq.kids[parent])
  <2>1. iter_stack' = back
    BY <1>1, <1>12
  <2>2. parent = << >> => ~ Last(back) > Len(freq.kids[parent])
    BY <1>1, <1>12
  <2>3. OnString(freq, parent, back)
    <3> SUFFICES ASSUME NEW d \in 1 .. Len(s) - 1
                 PROVE  /\ SubSeq(parent, 1, d - 1) \in Nodes(freq)
                        /\ back[d] \in DOMAIN freq.kids[SubSeq(parent, 1, d - 1)]
                        /\ freq.kids[SubSeq(parent, 1, d - 1)][back[d]] = parent[d]
      BY <1>3 DEF OnString
    <3>1. d - 1 \in 0 .. Len(s) - 1 /\ d \in 1 .. Len(s)
      BY <1>3
    <3>2. SubSeq(parent, 1, d - 1) = SubSeq(s, 1, d - 1) /\ back[d] = iters[d] /\ parent[d] = s[d]
      BY <1>3, <1>6, <3>1
    <3> QED
      BY <1>2, <3>1, <3>2 DEF OnString
  <2>4. Len(back) = Len(parent) + 1
    BY <1>3, <1>6
  <2>6. Last(back) <= Len(freq.kids[parent]) + 1
    BY <1>5, <1>6
  <2>5. parent = << >> => Last(back) <= Len(freq.kids[parent])
    BY <1>5, <1>6, <2>2
  <2> QED
    BY <1>1, <2>1, <2>3, <2>4, <2>5, <2>6
<1>13. ASSUME iter_stack' = << >>
       PROVE  current_string' = << >>
  <2>1. back # << >>
    BY <1>3, <1>6
  <2> QED
    BY <1>1, <1>13, <2>1
<1>14. StacksInv'
  <2>1. Subtries' = freq.kids[parent] /\ freq' = freq /\ k' = k /\ pc' = "walk"
    BY <1>1, <1>8 DEF Subtries
  <2> QED
    BY <1>1, <1>2, <1>4, <1>12, <1>13, <2>1 DEF StacksInv
<1>15. CacheExact'
  <2> SUFFICES ASSUME NEW d \in 1 .. Len(s) - 1
               PROVE  tidlist_cache[d] = Tidset(db, ToSet(SubSeq(parent, 1, d)))
    BY <1>1, <1>3 DEF CacheExact, inputs
  <2>1. d \in DOMAIN s /\ d \in 0 .. Len(s) - 1
    BY <1>2, <1>3
  <2>2. SubSeq(parent, 1, d) = SubSeq(s, 1, d)
    BY <1>3, <2>1
  <2> QED
    BY <1>1, <2>1, <2>2 DEF MinerInv, CacheExact
<1> QED
  BY <1>1, <1>10, <1>11, <1>14, <1>15 DEF MinerInv, inputs

LEMMA TryCandidateStep ==
  ASSUME MinerInv, TryCandidate
  PROVE  MinerInv'
<1> DEFINE s == current_string
           diff == SiblingList[cand + 1]
           candidate == MergeItem(s, diff)
           frequency == Cardinality(tidlist_cache[Len(s)] \cap Tidset(db, {diff}))
<1>1. /\ pc = "cand" /\ cand < Len(SiblingList) /\ cand' = cand + 1
      /\ \/ /\ freq_next' = Insert(freq_next, candidate)
            /\ out' = Append(out, Line(candidate, frequency))
         \/ UNCHANGED <<freq_next, out>>
      /\ UNCHANGED <<inputs, pc, edge, k, freq, walk>>
  BY DEF TryCandidate
<1>2. iter_stack # << >> /\ s \in freq.ends /\ cand \in DOMAIN SiblingList
  BY <1>1 DEF MinerInv, StacksInv
<1>3. /\ s \in Seq(Item) /\ k \in Nat /\ k >= 3 /\ OnString(freq, s, iter_stack)
      /\ tidlist_cache \in Seq(SUBSET Tid) /\ Len(tidlist_cache) = k
  BY <1>1, <1>2, WalkFacts
<1>4. Len(s) = k - 1
  BY <1>2 DEF MinerInv, TriesInv, HasDepth
<1>5. SiblingList \in Seq(Item)
  <2>1. s # << >> /\ Len(s) \in 1 .. Len(s)
    BY <1>3, <1>4
  <2>2. Front(s) = SubSeq(s, 1, Len(s) - 1)
    BY <1>3, <2>1, FrontType
  <2>3. Front(s) \in Nodes(freq)
    BY <1>3, <2>1, <2>2 DEF OnString
  <2> QED
    BY <2>3 DEF MinerInv, TriesInv, HasDepth, SiblingList
<1>6. cand + 1 \in DOMAIN SiblingList /\ diff \in Item /\ cand + 1 \in Nat
  BY <1>1, <1>2, <1>5
<1>7. candidate \in Seq(Item) /\ Len(candidate) = k
  <2> HIDE DEF diff
  <2>1. MergeItem(s, diff) \in Seq(Item) /\ Len(MergeItem(s, diff)) = Len(s) + 1
    BY <1>3, <1>6, MergeType
  <2> QED
    BY <1>3, <1>4, <2>1
<1>8. frequency \in Nat
  <2>1. tidlist_cache[Len(s)] \cap Tidset(db, {diff}) \in SUBSET Tid
    BY DEF Tidset
  <2> QED
    BY <2>1, FiniteSets
<1> HIDE DEF candidate, frequency, diff
<1>9. HasDepth(freq_next', k)
  <2>1. HasDepth(freq_next, k)
    BY DEF MinerInv, TriesInv
  <2>2. HasDepth(Insert(freq_next, candidate), k)
    BY <1>3, <1>7, <2>1, InsertHasDepth
  <2> QED
    BY <1>1, <2>1, <2>2
<1>10. TriesInv'
  BY <1>1, <1>9 DEF MinerInv, TriesInv
<1>11. out' \in Lines
  <2>1. out \in Lines
    BY DEF MinerInv, TypeOK, Lines
  <2>2. Line(candidate, frequency) \in [items : Seq(Item), count : Nat]
    BY <1>7, <1>8 DEF Line
  <2>3. Append(out, Line(candidate, frequency)) \in Lines
    BY <2>1, <2>2 DEF Lines
  <2> QED
    BY <1>1, <2>1, <2>3
<1>12. TypeOK'
  <2>1. IsTrie(freq_next')
    BY <1>9, DepthIsTrie
  <2> QED
    BY <1>1, <1>6, <1>11, <2>1 DEF MinerInv, TypeOK, Lines, inputs, walk
<1>13. StacksInv'
  <2>1. SiblingList' = SiblingList /\ Subtries' = Subtries
    BY <1>1 DEF SiblingList, Subtries, walk
  <2> QED
    BY <1>1, <1>6, <2>1 DEF MinerInv, StacksInv, inputs, walk
<1>14. CacheExact'
  BY <1>1 DEF MinerInv, CacheExact, inputs, walk
<1> QED
  BY <1>1, <1>10, <1>12, <1>13, <1>14 DEF MinerInv, inputs

LEMMA CandidatesOverStep ==
  ASSUME MinerInv, CandidatesOver
  PROVE  MinerInv'
<1> USE DEF MinerInv, CandidatesOver, inputs, walk
<1>1. TypeOK' /\ TriesInv'
  BY DEF TypeOK, Pc, TriesInv
<1>2. StacksInv'
  <2>1. Subtries' = Subtries
    BY DEF Subtries
  <2> QED
    BY <2>1 DEF StacksInv
<1>3. CacheExact'
  BY DEF CacheExact
<1> QED
  BY <1>1, <1>2, <1>3

LEMMA EndLevelStep ==
  ASSUME MinerInv, EndLevel
  PROVE  MinerInv'
<1> USE DEF MinerInv, EndLevel, inputs, walk
<1>1. k \in Nat /\ k >= 3 /\ k' \in Nat /\ k' # 0 /\ k' # 1 /\ k' # 2 /\ k' - 1 = k
  BY DEF TypeOK
<1>2. HasDepth(freq', k' - 1)
  BY <1>1 DEF TriesInv
<1>3. HasDepth(freq_next', k')
  BY <1>1, EmptyHasDepth
<1>4. TriesInv'
  BY <1>2, <1>3 DEF TriesInv
<1>5. TypeOK'
  <2>1. IsTrie(freq') /\ IsTrie(freq_next')
    BY <1>2, <1>3, DepthIsTrie
  <2> QED
    BY <1>1, <2>1 DEF TypeOK, Pc
<1>6. StacksInv' /\ CacheExact'
  BY DEF StacksInv, CacheExact
<1> QED
  BY <1>4, <1>5, <1>6

LEMMA StutterStep ==
  ASSUME MinerInv, UNCHANGED vars
  PROVE  MinerInv'
<1> USE DEF MinerInv, vars
<1>1. TypeOK' /\ TriesInv' /\ CacheExact'
  BY DEF TypeOK, TriesInv, CacheExact
<1>2. StacksInv'
  <2>1. SiblingList' = SiblingList /\ Subtries' = Subtries
    BY DEF SiblingList, Subtries
  <2> QED
    BY <2>1 DEF StacksInv
<1> QED
  BY <1>1, <1>2

-----------------------------------------------------------------------------
(* Types, walks and caches.                                                *)

\* The inductive invariant holds of every run.
THEOREM Invariance == Spec => []MinerInv
<1>1. MinerInv /\ [Next]_vars => MinerInv'
  BY OutputItemsStep, ReturnItemsStep, InsertPairStep, PairsInsertedStep,
     StartLevelStep, StopStep, DescendStep, BacktrackStep, TryCandidateStep,
     CandidatesOverStep, EndLevelStep, StutterStep DEF Next
<1> QED
  BY InitInvariant, <1>1, PTL DEF Spec

\* The variables keep their types; endmarks are on nodes.
THEOREM TypeCorrect == Spec => []TypeOK
<1>1. MinerInv => TypeOK
  BY DEF MinerInv
<1> QED
  BY Invariance, <1>1, PTL

\* Walk_Tidlist and Candidate_Walk never leave their stacks, lists and cache.
THEOREM WalksDefined == Spec => []WalkDefined
<1>1. ASSUME MinerInv PROVE WalkDefined
  <2>1. ASSUME pc = "walk", iter_stack # << >>
        PROVE  /\ Len(iter_stack) = Len(current_string) + 1
               /\ current_string = << >> => Last(iter_stack) <= Len(Subtries)
               /\ Last(iter_stack) <= Len(Subtries) + 1
               /\ Len(current_string) < k
    <3>1. Len(current_string) < k
      <4>1. Len(current_string) \in 0 .. k - 1 /\ k \in Nat
        BY <1>1, <2>1, WalkFacts
      <4> QED
        BY <4>1
    <3> QED
      BY <1>1, <2>1, <3>1 DEF MinerInv, StacksInv
  <2>2. ASSUME pc = "cand"
        PROVE  /\ Len(iter_stack) = Len(current_string) + 1
               /\ Len(current_string) = k - 1
               /\ cand \in DOMAIN SiblingList
               /\ SiblingList[Last(Front(iter_stack))] = Last(current_string)
    <3> DEFINE s == current_string
               iters == iter_stack
    <3>1. iters # << >> /\ s \in freq.ends /\ cand \in DOMAIN SiblingList
      BY <1>1, <2>2 DEF MinerInv, StacksInv
    <3>2. /\ s \in Seq(Item) /\ iters \in Seq(Nat \ {0}) /\ Len(iters) = Len(s) + 1
          /\ OnString(freq, s, iters) /\ k \in Nat /\ k >= 3
      BY <1>1, <2>2, <3>1, WalkFacts
    <3>3. Len(s) = k - 1
      BY <1>1, <3>1 DEF MinerInv, TriesInv, HasDepth
    <3>4. s # << >> /\ Len(s) \in 1 .. Len(s) /\ Len(iters) - 1 = Len(s)
      BY <3>2, <3>3
    <3>5. SiblingList = freq.kids[SubSeq(s, 1, Len(s) - 1)]
      BY DEF SiblingList, Front
    <3>6. Last(Front(iters)) = iters[Len(s)]
      <4>1. /\ Len(Front(iters)) = Len(iters) - 1
            /\ \A i \in 1 .. Len(iters) - 1 : Front(iters)[i] = iters[i]
        BY <3>1, <3>2, FrontType
      <4> QED
        BY <3>4, <4>1 DEF Last
    <3>7. SiblingList[iters[Len(s)]] = s[Len(s)]
      BY <3>2, <3>4, <3>5 DEF OnString
    <3> QED
      BY <3>1, <3>2, <3>3, <3>6, <3>7 DEF Last
  <2> QED
    BY <2>1, <2>2 DEF WalkDefined
<1> QED
  BY Invariance, <1>1, PTL

\* Each list of the cache in use is the tidlist of its prefix.
THEOREM CachesExact == Spec => []CacheExact
<1>1. MinerInv => CacheExact
  BY DEF MinerInv
<1> QED
  BY Invariance, <1>1, PTL

-----------------------------------------------------------------------------
(* Vectors in greater_freq order.                                          *)

\* They do not repeat an item.
LEMMA OrderedInjective ==
  ASSUME NEW d, NEW s \in Seq(Item), OrderedBy(d, s)
  PROVE  \A i, j \in DOMAIN s : s[i] = s[j] => i = j
<1> SUFFICES ASSUME NEW i \in DOMAIN s, NEW j \in DOMAIN s, s[i] = s[j], i # j
             PROVE  FALSE
  OBVIOUS
<1>1. s[i] \in Item /\ (i < j \/ j < i)
  OBVIOUS
<1> QED
  BY <1>1, GreaterFreqOrder DEF OrderedBy

\* They have as many items as places.
LEMMA OrderedSize ==
  ASSUME NEW d, NEW s \in Seq(Item), OrderedBy(d, s)
  PROVE  /\ ToSet(s) \in SUBSET Item /\ IsFiniteSet(ToSet(s))
         /\ Cardinality(ToSet(s)) = Len(s)
<1>1. ToSet(s) \in SUBSET Item /\ DOMAIN s = 1 .. Len(s) /\ Len(s) \in Nat
  BY DEF ToSet
<1>2. s \in Bijection(1 .. Len(s), ToSet(s))
  <2>1. s \in Surjection(1 .. Len(s), ToSet(s))
    BY <1>1 DEF Surjection, ToSet
  <2>2. s \in Injection(1 .. Len(s), ToSet(s))
    BY <1>1, <2>1, OrderedInjective DEF Injection, IsInjective, Surjection
  <2> QED
    BY <2>1, <2>2 DEF Bijection
<1>3. IsFiniteSet(1 .. Len(s)) /\ Cardinality(1 .. Len(s)) = Len(s)
  <2> DEFINE n == Len(s)
  <2>1. n \in Nat
    BY <1>1
  <2> HIDE DEF n
  <2>2. /\ IsFiniteSet(1 .. n)
        /\ Cardinality(1 .. n) = IF 1 > n THEN 0 ELSE n - 1 + 1
    BY <2>1, FS_Interval
  <2>3. (IF 1 > n THEN 0 ELSE n - 1 + 1) = n
    BY <2>1
  <2> QED
    BY <2>2, <2>3 DEF n
<1>4. ExistsBijection(1 .. Len(s), ToSet(s))
  BY <1>2 DEF ExistsBijection
<1> QED
  BY <1>1, <1>3, <1>4, FS_Bijection

\* An itemset has one ordered vector: they are equal up to the first place
\* where they differ, and there each has an item the other has later.
LEMMA OrderedUnique ==
  ASSUME NEW d, NEW s \in Seq(Item), NEW t \in Seq(Item),
         OrderedBy(d, s), OrderedBy(d, t), ToSet(s) = ToSet(t)
  PROVE  s = t
<1>1. Len(s) = Len(t) /\ Len(s) \in Nat
  BY OrderedSize
<1>2. DOMAIN s = 1 .. Len(s) /\ DOMAIN t = 1 .. Len(s)
  BY <1>1
<1> SUFFICES ASSUME s # t PROVE FALSE
  OBVIOUS
<1> DEFINE I == {i \in 1 .. Len(s) : s[i] # t[i]}
<1>3. I # {}
  BY <1>1, SeqEqual
<1>4. PICK i \in I : \A j \in I : i <= j
  BY <1>1, <1>3, LeastExists
<1>5. i \in 1 .. Len(s) /\ s[i] # t[i] /\ \A j \in 1 .. Len(s) : j < i => s[j] = t[j]
  BY <1>4
<1>6. /\ \E j \in 1 .. Len(s) : t[j] = s[i]
      /\ \E j \in 1 .. Len(s) : s[j] = t[i]
  BY <1>2, <1>5 DEF ToSet
<1>7. PICK j \in 1 .. Len(s) : t[j] = s[i]
  BY <1>6
<1>8. PICK l \in 1 .. Len(s) : s[l] = t[i]
  BY <1>6
<1>9. i < j
  <2>1. j # i
    BY <1>5, <1>7
  <2>2. j < i => s[j] = s[i]
    BY <1>5, <1>7
  <2>3. ~ j < i
    BY <1>2, <1>5, <2>1, <2>2, OrderedInjective
  <2> QED
    BY <1>5, <2>1, <2>3
<1>10. i < l
  <2>1. l # i
    BY <1>5, <1>8
  <2>2. l < i => t[l] = t[i]
    BY <1>5, <1>8
  <2>3. ~ l < i
    BY <1>2, <1>5, <2>1, <2>2, OrderedInjective
  <2> QED
    BY <1>5, <2>1, <2>3
<1>11. GreaterFreq(d, t[i], s[i]) /\ GreaterFreq(d, s[i], t[i])
  BY <1>2, <1>5, <1>7, <1>8, <1>9, <1>10 DEF OrderedBy
<1>12. s[i] \in Item /\ t[i] \in Item
  BY <1>2, <1>5
<1> QED
  BY <1>11, <1>12, GreaterFreqOrder

\* What is left without the last item.
LEMMA OrderedFront ==
  ASSUME NEW d, NEW s \in Seq(Item), s # << >>, OrderedBy(d, s)
  PROVE  /\ OrderedBy(d, Front(s))
         /\ Last(s) \in Item
         /\ ToSet(Front(s)) = ToSet(s) \ {Last(s)}
         /\ IsLast(d, Last(s), ToSet(s))
<1>1. /\ Len(s) \in Nat \ {0} /\ Front(s) \in Seq(Item) /\ Len(Front(s)) = Len(s) - 1
      /\ \A i \in 1 .. Len(s) - 1 : Front(s)[i] = s[i]
  BY FrontType
<1>2. DOMAIN s = 1 .. Len(s) /\ DOMAIN Front(s) = 1 .. Len(s) - 1
  BY <1>1
<1>3. OrderedBy(d, Front(s))
  <2> SUFFICES ASSUME NEW i \in 1 .. Len(s) - 1, NEW j \in 1 .. Len(s) - 1, i < j
               PROVE  GreaterFreq(d, Front(s)[i], Front(s)[j])
    BY <1>2 DEF OrderedBy
  <2>1. i \in DOMAIN s /\ j \in DOMAIN s
    BY <1>1, <1>2
  <2> QED
    BY <1>1, <2>1 DEF OrderedBy
<1>4. Last(s) \in Item /\ Last(s) = s[Len(s)] /\ Len(s) \in DOMAIN s
  BY <1>1, <1>2 DEF Last
<1>5. ASSUME NEW i \in 1 .. Len(s) - 1
      PROVE  s[i] # Last(s) /\ GreaterFreq(d, s[i], Last(s))
  <2>1. i \in DOMAIN s /\ i < Len(s) /\ i # Len(s)
    BY <1>1, <1>2
  <2>2. s[i] # s[Len(s)]
    BY <1>4, <2>1, OrderedInjective
  <2>3. GreaterFreq(d, s[i], s[Len(s)])
    BY <1>4, <2>1 DEF OrderedBy
  <2> QED
    BY <1>4, <2>2, <2>3
<1>6. \A i \in DOMAIN s : i \in 1 .. Len(s) - 1 \/ i = Len(s)
  BY <1>1, <1>2
<1>7. ToSet(Front(s)) = {s[i] : i \in 1 .. Len(s) - 1}
  BY <1>1, <1>2 DEF ToSet
<1>8. ToSet(Front(s)) = ToSet(s) \ {Last(s)}
  <2>1. ASSUME NEW a \in ToSet(s), a # Last(s) PROVE a \in ToSet(Front(s))
    BY <1>4, <1>6, <1>7, <2>1 DEF ToSet
  <2>2. ASSUME NEW a \in ToSet(Front(s)) PROVE a \in ToSet(s) /\ a # Last(s)
    <3>1. PICK i \in 1 .. Len(s) - 1 : a = s[i]
      BY <1>7
    <3>2. i \in DOMAIN s
      BY <1>1, <1>2
    <3> QED
      BY <1>5, <3>1, <3>2 DEF ToSet
  <2> QED
    BY <2>1, <2>2
<1>9. IsLast(d, Last(s), ToSet(s))
  <2>1. Last(s) \in ToSet(s)
    BY <1>4 DEF ToSet
  <2>2. ASSUME NEW a \in ToSet(s) \ {Last(s)} PROVE GreaterFreq(d, a, Last(s))
    <3>1. PICK i \in 1 .. Len(s) - 1 : a = s[i]
      BY <1>7, <1>8
    <3> QED
      BY <1>5, <3>1
  <2> QED
    BY <2>1, <2>2 DEF IsLast
<1> QED
  BY <1>3, <1>4, <1>8, <1>9

\* Siblings are what differs in the last item only.
LEMMA OrderedSiblings ==
  ASSUME NEW d, NEW s \in Seq(Item), NEW t \in Seq(Item), s # << >>, t # << >>,
         OrderedBy(d, s), OrderedBy(d, t)
  PROVE  Siblings(d, ToSet(s), ToSet(t)) <=> Front(s) = Front(t) /\ Last(s) # Last(t)
<1>1. /\ OrderedBy(d, Front(s)) /\ OrderedBy(d, Front(t))
      /\ ToSet(Front(s)) = ToSet(s) \ {Last(s)} /\ ToSet(Front(t)) = ToSet(t) \ {Last(t)}
      /\ IsLast(d, Last(s), ToSet(s)) /\ IsLast(d, Last(t), ToSet(t))
  BY OrderedFront
<1>2. /\ Front(s) \in Seq(Item) /\ Front(t) \in Seq(Item)
      /\ ToSet(s) \in SUBSET Item /\ ToSet(t) \in SUBSET Item
  BY FrontType, OrderedSize
<1>3. ASSUME Siblings(d, ToSet(s), ToSet(t))
      PROVE  Front(s) = Front(t) /\ Last(s) # Last(t)
  <2>1. PICK a \in ToSet(s), b \in ToSet(t) :
          /\ a # b /\ ToSet(s) \ {a} = ToSet(t) \ {b}
          /\ IsLast(d, a, ToSet(s)) /\ IsLast(d, b, ToSet(t))
    BY <1>3 DEF Siblings
  <2>2. a = Last(s) /\ b = Last(t)
    BY <1>1, <1>2, <2>1, LastUnique
  <2> QED
    BY <1>1, <1>2, <2>1, <2>2, OrderedUnique
<1>4. ASSUME Front(s) = Front(t), Last(s) # Last(t)
      PROVE  Siblings(d, ToSet(s), ToSet(t))
  <2>1. Last(s) \in ToSet(s) /\ Last(t) \in ToSet(t)
    BY <1>1 DEF IsLast
  <2> QED
    BY <1>1, <1>4, <2>1 DEF Siblings
<1> QED
  BY <1>3, <1>4

\* A vector with one item removed.
LEMMA OrderedRemove ==
  ASSUME NEW d, NEW s \in Seq(Item), OrderedBy(d, s), NEW i \in DOMAIN s
  PROVE  /\ RemoveAt(s, i) \in Seq(Item) /\ Len(RemoveAt(s, i)) = Len(s) - 1
         /\ OrderedBy(d, RemoveAt(s, i))
         /\ ToSet(RemoveAt(s, i)) = ToSet(s) \ {s[i]}
<1> DEFINE r == RemoveAt(s, i)
           n == Len(s)
           Old(j) == IF j < i THEN j ELSE j + 1
<1>1. n \in Nat /\ DOMAIN s = 1 .. n /\ i \in Nat /\ 1 <= i /\ i <= n
  OBVIOUS
<1> DEFINE a == SubSeq(s, 1, i - 1)
           b == SubSeq(s, i + 1, n)
<1>2. /\ a \in Seq(Item) /\ Len(a) = i - 1
      /\ \A j \in 1 .. i - 1 : a[j] = s[j]
  <2>1. i - 1 \in 0 .. Len(s)
    BY <1>1
  <2> QED
    BY <2>1, PrefixType
<1>3. /\ b \in Seq(Item) /\ Len(b) = n - i
      /\ \A j \in 1 .. n - i : b[j] = s[i + j]
  <2>1. \A j \in i + 1 .. n : s[j] \in Item
    BY <1>1
  <2>2. i + 1 \in Int /\ n \in Int
    BY <1>1
  <2>3. /\ b \in Seq(Item)
        /\ Len(b) = IF i + 1 <= n THEN n - (i + 1) + 1 ELSE 0
        /\ \A j \in 1 .. n - (i + 1) + 1 : b[j] = s[(i + 1) + j - 1]
    BY <2>1, <2>2, SubSeqProperties
  <2>4. n - (i + 1) + 1 = n - i /\ (~ i + 1 <= n => n - i = 0)
    BY <1>1
  <2>5. \A j \in 1 .. n - i : (i + 1) + j - 1 = i + j
    BY <1>1
  <2> QED
    BY <2>3, <2>4, <2>5
<1>4. r = a \o b
  BY DEF RemoveAt
<1> HIDE DEF a, b, r, n
<1>5. /\ r \in Seq(Item) /\ Len(r) = n - 1
      /\ \A j \in 1 .. n - 1 : r[j] = IF j <= i - 1 THEN a[j] ELSE b[j - (i - 1)]
  <2>1. /\ r \in Seq(Item) /\ Len(r) = Len(a) + Len(b)
        /\ \A j \in 1 .. Len(a) + Len(b) : r[j] = IF j <= Len(a) THEN a[j] ELSE b[j - Len(a)]
    BY <1>2, <1>3, <1>4, ConcatProperties
  <2>2. Len(a) + Len(b) = n - 1
    BY <1>1, <1>2, <1>3
  <2> QED
    BY <1>2, <2>1, <2>2
<1>6. ASSUME NEW j \in 1 .. n - 1
      PROVE  r[j] = s[Old(j)] /\ Old(j) \in 1 .. n /\ Old(j) # i
  <2>1. CASE j < i
    <3>1. j <= i - 1 /\ j \in 1 .. i - 1
      BY <1>1, <2>1
    <3> QED
      BY <1>1, <1>2, <1>5, <2>1, <3>1
  <2>2. CASE ~ j < i
    <3>1. ~ j <= i - 1 /\ j - (i - 1) \in 1 .. n - i /\ i + (j - (i - 1)) = j + 1
      BY <1>1, <2>2
    <3>2. r[j] = s[j + 1]
      BY <1>3, <1>5, <3>1
    <3> QED
      BY <1>1, <2>2, <3>2
  <2> QED
    BY <2>1, <2>2
<1>7. \A j \in 1 .. n : j # i => \E l \in 1 .. n - 1 : Old(l) = j
  <2> TAKE j \in 1 .. n
  <2>1. CASE j < i
    <3>1. j \in 1 .. n - 1 /\ Old(j) = j
      BY <1>1, <2>1
    <3> QED
      BY <3>1
  <2>2. CASE i < j
    <3>1. j - 1 \in 1 .. n - 1 /\ Old(j - 1) = j
      BY <1>1, <2>2
    <3> QED
      BY <3>1
  <2> QED
    BY <1>1, <2>1, <2>2
<1>8. DOMAIN r = 1 .. n - 1
  BY <1>1, <1>5
<1>9. OrderedBy(d, r)
  <2> SUFFICES ASSUME NEW j \in 1 .. n - 1, NEW l \in 1 .. n - 1, j < l
               PROVE  GreaterFreq(d, r[j], r[l])
    BY <1>8 DEF OrderedBy
  <2>1. Old(j) < Old(l)
    BY <1>1
  <2>2. /\ r[j] = s[Old(j)] /\ Old(j) \in DOMAIN s
        /\ r[l] = s[Old(l)] /\ Old(l) \in DOMAIN s
    BY <1>1, <1>6
  <2> HIDE DEF Old
  <2> QED
    BY <2>1, <2>2 DEF OrderedBy
<1> HIDE DEF Old
<1>10. ToSet(r) = ToSet(s) \ {s[i]}
  <2>1. ASSUME NEW x \in ToSet(r) PROVE x \in ToSet(s) /\ x # s[i]
    <3>1. PICK j \in 1 .. n - 1 : x = r[j]
      BY <1>8 DEF ToSet
    <3>2. x = s[Old(j)] /\ Old(j) \in DOMAIN s /\ Old(j) # i
      BY <1>1, <1>6, <3>1
    <3>3. s[Old(j)] # s[i]
      BY <3>2, OrderedInjective
    <3> QED
      BY <3>2, <3>3 DEF ToSet
  <2>2. ASSUME NEW x \in ToSet(s), x # s[i] PROVE x \in ToSet(r)
    <3>1. PICK j \in 1 .. n : x = s[j]
      BY <1>1 DEF ToSet
    <3>2. PICK l \in 1 .. n - 1 : Old(l) = j
      BY <1>7, <2>2, <3>1
    <3>3. r[l] = x
      BY <1>6, <3>1, <3>2
    <3> QED
      BY <1>8, <3>3 DEF ToSet
  <2> QED
    BY <2>1, <2>2
<1> QED
  BY <1>5, <1>9, <1>10 DEF r, n

\* A vector merged with one more item.
LEMMA OrderedMerge ==
  ASSUME NEW s \in Seq(Item), OrderedBy(db, s), NEW a \in Item, a \notin ToSet(s)
  PROVE  OrderedBy(db, MergeItem(s, a)) /\ ToSet(MergeItem(s, a)) = ToSet(s) \cup {a}
<1> DEFINE n == Len(s)
           I == {i \in 1 .. Len(s) : Greater(a, s[i])}
           at == SelectInSeq(s, LAMBDA b : Greater(a, b))
           m == MergeItem(s, a)
<1>1. n \in Nat /\ DOMAIN s = 1 .. n /\ \A i \in 1 .. n : s[i] \in Item /\ s[i] # a
  BY DEF ToSet
<1>2. at = IF I # {} THEN Min(I) ELSE 0
  BY DEF SelectInSeq
<1>3. m = IF at = 0 THEN Append(s, a) ELSE InsertAt(s, at, a)
  BY DEF MergeItem
<1>4. ASSUME NEW i \in 1 .. n
      PROVE  GreaterFreq(db, a, s[i]) \/ GreaterFreq(db, s[i], a)
  BY <1>1, GreaterFreqOrder
\* The place of a, behind all others if there is none before which it belongs.
<1> DEFINE c == IF I # {} THEN Min(I) ELSE n + 1
<1>5. /\ c \in 1 .. n + 1
      /\ \A i \in 1 .. n : i < c => GreaterFreq(db, s[i], a)
      /\ \A i \in 1 .. n : c <= i => GreaterFreq(db, a, s[i])
  <2>1. CASE I = {}
    <3>1. \A i \in 1 .. n : ~ GreaterFreq(db, a, s[i])
      BY <2>1 DEF Greater
    <3> QED
      BY <1>1, <1>4, <2>1, <3>1
  <2>2. CASE I # {}
    <3>1. Min(I) \in I /\ \A y \in I : Min(I) <= y
      <4>1. \E x \in I : \A y \in I : x <= y
        BY <1>1, <2>2, LeastExists
      <4> QED
        BY <4>1 DEF Min
    <3>2. c \in I /\ \A y \in I : c <= y
      BY <2>2, <3>1
    <3> HIDE DEF c
    <3>3. c \in 1 .. n /\ GreaterFreq(db, a, s[c])
      BY <3>2 DEF Greater
    <3>4. ASSUME NEW i \in 1 .. n, i < c PROVE GreaterFreq(db, s[i], a)
      <4>1. i \notin I
        BY <1>1, <3>2, <3>3, <3>4
      <4>2. ~ GreaterFreq(db, a, s[i])
        BY <4>1 DEF Greater
      <4> QED
        BY <1>4, <4>2
    <3>5. ASSUME NEW i \in 1 .. n, c <= i PROVE GreaterFreq(db, a, s[i])
      <4>1. c = i \/ c < i
        BY <1>1, <3>3, <3>5
      <4>2. ASSUME c < i PROVE GreaterFreq(db, s[c], s[i])
        BY <1>1, <3>3, <4>2 DEF OrderedBy
      <4> QED
        BY <1>1, <3>3, <4>1, <4>2, GreaterFreqOrder
    <3> QED
      BY <1>1, <3>3, <3>4, <3>5
  <2> QED
    BY <2>1, <2>2
<1>6. /\ m \in Seq(Item) /\ Len(m) = n + 1
      /\ \A j \in 1 .. n + 1 : m[j] = IF j < c THEN s[j] ELSE IF j = c THEN a ELSE s[j - 1]
  <2>1. CASE I = {}
    <3>1. m = Append(s, a) /\ c = n + 1
      BY <1>2, <1>3, <2>1
    <3>2. /\ m \in Seq(Item) /\ Len(m) = n + 1
          /\ \A i \in 1 .. n : m[i] = s[i]
          /\ m[n + 1] = a
      BY <3>1, FrontAppend
    <3> HIDE DEF m, c
    <3> QED
      BY <1>1, <3>1, <3>2
  <2>2. CASE I # {}
    <3>1. at = c
      BY <1>2, <2>2
    <3>2. c \in 1 .. n
      <4>1. \E x \in I : \A y \in I : x <= y
        BY <1>1, <2>2, LeastExists
      <4>2. Min(I) \in I
        BY <4>1 DEF Min
      <4> QED
        BY <2>2, <4>2
    <3>3. m = InsertAt(s, c, a)
      <4>1. c # 0
        BY <3>2
      <4> HIDE DEF at, c
      <4> QED
        BY <1>3, <3>1, <4>1
    <3> HIDE DEF c, at, m
    <3> DEFINE u == SubSeq(s, 1, c - 1)
               v == SubSeq(s, c, n)
    <3>4. m = u \o <<a>> \o v
      BY <3>3 DEF InsertAt
    <3>5. c \in Nat /\ 1 <= c /\ c <= n
      BY <1>1, <3>2
    <3>6. /\ u \in Seq(Item) /\ Len(u) = c - 1
          /\ \A j \in 1 .. c - 1 : u[j] = s[j]
      <4>1. c - 1 \in 0 .. Len(s)
        BY <1>1, <3>5
      <4> QED
        BY <4>1, PrefixType
    <3>7. /\ v \in Seq(Item) /\ Len(v) = n - c + 1
          /\ \A j \in 1 .. n - c + 1 : v[j] = s[c + j - 1]
      <4>1. \A j \in c .. n : s[j] \in Item
        BY <1>1, <3>5
      <4>2. c \in Int /\ n \in Int /\ c <= n
        BY <1>1, <3>5
      <4> QED
        BY <4>1, <4>2, SubSeqProperties
    <3> HIDE DEF u, v, n
    <3>8. <<a>> \in Seq(Item) /\ Len(<<a>>) = 1 /\ <<a>>[1] = a
      OBVIOUS
    <3> DEFINE w == u \o <<a>>
    <3>9. /\ w \in Seq(Item) /\ Len(w) = c
          /\ \A j \in 1 .. c : w[j] = IF j < c THEN s[j] ELSE a
      <4>1. /\ w \in Seq(Item) /\ Len(w) = Len(u) + 1
            /\ \A j \in 1 .. Len(u) + 1 : w[j] = IF j <= Len(u) THEN u[j] ELSE <<a>>[j - Len(u)]
        BY <3>6, <3>8, ConcatProperties
      <4>2. Len(u) + 1 = c /\ \A j \in 1 .. c : (j <= Len(u) <=> j < c) /\ (~ j < c => j - Len(u) = 1)
        BY <3>5, <3>6
      <4>3. \A j \in 1 .. c : j < c => j \in 1 .. c - 1
        BY <3>5
      <4> QED
        BY <3>6, <3>8, <4>1, <4>2, <4>3
    <3>10. m = w \o v
      BY <3>4
    <3> HIDE DEF w
    <3>11. /\ m \in Seq(Item) /\ Len(m) = n + 1
           /\ \A j \in 1 .. n + 1 : m[j] = IF j <= c THEN w[j] ELSE v[j - c]
      <4>1. /\ m \in Seq(Item) /\ Len(m) = Len(w) + Len(v)
            /\ \A j \in 1 .. Len(w) + Len(v) : m[j] = IF j <= Len(w) THEN w[j] ELSE v[j - Len(w)]
        BY <3>7, <3>9, <3>10, ConcatProperties
      <4>2. Len(w) + Len(v) = n + 1
        BY <1>1, <3>5, <3>7, <3>9
      <4> QED
        BY <3>9, <4>1, <4>2
    <3>12. ASSUME NEW j \in 1 .. n + 1
           PROVE  m[j] = IF j < c THEN s[j] ELSE IF j = c THEN a ELSE s[j - 1]
      <4>1. CASE j <= c
        BY <3>5, <3>9, <3>11, <4>1
      <4>2. CASE ~ j <= c
        <5>1. j - c \in 1 .. n - c + 1 /\ c + (j - c) - 1 = j - 1 /\ ~ j < c /\ j # c
          BY <1>1, <3>5, <4>2
        <5> QED
          BY <3>7, <3>11, <4>2, <5>1
      <4> QED
        BY <4>1, <4>2
    <3> QED
      BY <3>11, <3>12
  <2> QED
    BY <2>1, <2>2
<1> HIDE DEF m, c, n, I, at
<1>7. DOMAIN m = 1 .. n + 1
  BY <1>1, <1>6
<1>8. OrderedBy(db, m)
  <2> SUFFICES ASSUME NEW i \in 1 .. n + 1, NEW j \in 1 .. n + 1, i < j
               PROVE  GreaterFreq(db, m[i], m[j])
    BY <1>7 DEF OrderedBy
  <2>1. CASE j < c
    <3>1. i \in 1 .. n /\ j \in 1 .. n /\ i < c
      BY <1>1, <1>5, <2>1
    <3> QED
      BY <1>1, <1>6, <2>1, <3>1 DEF OrderedBy
  <2>2. CASE j = c
    <3>1. i \in 1 .. n /\ i < c /\ ~ j < c
      BY <1>1, <1>5, <2>2
    <3> QED
      BY <1>5, <1>6, <2>2, <3>1
  <2>3. CASE c < j
    <3>1. j - 1 \in 1 .. n /\ c <= j - 1 /\ ~ j < c /\ j # c
      BY <1>1, <1>5, <2>3
    <3>2. m[j] = s[j - 1]
      BY <1>6, <3>1
    <3>3. CASE i < c
      <4>1. i \in 1 .. n /\ i < j - 1
        BY <1>1, <1>5, <3>1, <3>3
      <4> QED
        BY <1>1, <1>6, <3>1, <3>2, <3>3, <4>1 DEF OrderedBy
    <3>4. CASE i = c
      <4>1. ~ i < c
        BY <1>5, <3>4
      <4> QED
        BY <1>5, <1>6, <3>1, <3>2, <3>4, <4>1
    <3>5. CASE c < i
      <4>1. i - 1 \in 1 .. n /\ i - 1 < j - 1 /\ ~ i < c /\ i # c
        BY <1>1, <1>5, <3>5
      <4> QED
        BY <1>1, <1>6, <3>1, <3>2, <4>1 DEF OrderedBy
    <3> QED
      BY <1>5, <3>3, <3>4, <3>5
  <2> QED
    BY <1>5, <2>1, <2>2, <2>3
<1>9. ToSet(m) = ToSet(s) \cup {a}
  <2>1. ASSUME NEW x \in ToSet(m) PROVE x \in ToSet(s) \cup {a}
    <3>1. PICK j \in 1 .. n + 1 : x = m[j]
      BY <1>7 DEF ToSet
    <3>2. j < c => j \in DOMAIN s
      BY <1>1, <1>5
    <3>3. ~ j < c /\ j # c => j - 1 \in DOMAIN s
      BY <1>1, <1>5
    <3> QED
      BY <1>6, <3>1, <3>2, <3>3 DEF ToSet
  <2>2. a \in ToSet(m)
    <3>1. c \in 1 .. n + 1 /\ ~ c < c
      BY <1>1, <1>5
    <3>2. m[c] = a
      BY <1>6, <3>1
    <3> QED
      BY <1>7, <3>1, <3>2 DEF ToSet
  <2>3. ASSUME NEW x \in ToSet(s) PROVE x \in ToSet(m)
    <3>1. PICK i \in 1 .. n : x = s[i]
      BY <1>1 DEF ToSet
    <3>2. CASE i < c
      <4>1. i \in 1 .. n + 1
        BY <1>1
      <4> QED
        BY <1>6, <1>7, <3>1, <3>2, <4>1 DEF ToSet
    <3>3. CASE ~ i < c
      <4>1. i + 1 \in 1 .. n + 1 /\ ~ i + 1 < c /\ i + 1 # c /\ (i + 1) - 1 = i
        BY <1>1, <1>5, <3>3
      <4>2. m[i + 1] = x
        BY <1>6, <3>1, <4>1
      <4> QED
        BY <1>7, <4>1, <4>2 DEF ToSet
    <3> QED
      BY <3>2, <3>3
  <2> QED
    BY <2>1, <2>2, <2>3
<1> QED
  BY <1>8, <1>9 DEF m

-----------------------------------------------------------------------------
(* Tries: the strings on them, in greater_freq order.                      *)

LEMMA EmptyWhole ==
  ASSUME NEW d, NEW n \in Nat \ {0}
  PROVE  Whole(d, EmptyTrie, n)
<1>1. EmptyTrie.kids = [p \in {<< >>} |-> << >>] /\ EmptyTrie.ends = {}
  BY DEF EmptyTrie
<1>2. Nodes(EmptyTrie) = {<< >>}
  BY <1>1 DEF Nodes
<1>3. Len(<< >>) = 0 /\ DOMAIN << >> = {} /\ EmptyTrie.kids[<< >>] = << >>
  BY <1>1
<1>4. 1 .. 0 = {} /\ n # 0
  OBVIOUS
<1> QED
  BY <1>1, <1>2, <1>3, <1>4 DEF Whole

\* The prefixes of a string.
LEMMA PrefixesOf ==
  ASSUME NEW s \in Seq(Item), NEW p
  PROVE  /\ p \in Prefixes(s) <=> \E l \in 0 .. Len(s) : p = SubSeq(s, 1, l)
         /\ p \in Prefixes(s) =>
              /\ p \in Seq(Item) /\ Len(p) \in 0 .. Len(s) /\ p = SubSeq(s, 1, Len(p))
              /\ \A i \in 1 .. Len(p) : p[i] = s[i]
              /\ \A i \in 0 .. Len(p) : SubSeq(p, 1, i) = SubSeq(s, 1, i)
              /\ Len(p) = Len(s) => p = s
<1>1. p \in Prefixes(s) <=> \E l \in 0 .. Len(s) : p = SubSeq(s, 1, l)
  BY DEF Prefixes
<1>2. ASSUME p \in Prefixes(s)
      PROVE  /\ p \in Seq(Item) /\ Len(p) \in 0 .. Len(s) /\ p = SubSeq(s, 1, Len(p))
             /\ \A i \in 1 .. Len(p) : p[i] = s[i]
             /\ \A i \in 0 .. Len(p) : SubSeq(p, 1, i) = SubSeq(s, 1, i)
             /\ Len(p) = Len(s) => p = s
  <2>1. PICK l \in 0 .. Len(s) : p = SubSeq(s, 1, l)
    BY <1>1, <1>2
  <2>2. /\ p \in Seq(Item) /\ Len(p) = l
        /\ \A i \in 1 .. l : p[i] = s[i]
        /\ \A i \in 0 .. l : SubSeq(p, 1, i) = SubSeq(s, 1, i)
    BY <2>1, PrefixType
  <2>3. l = Len(s) => p = s
    BY <2>1, SubSeqFull
  <2> QED
    BY <2>1, <2>2, <2>3
<1> QED
  BY <1>1, <1>2

\* Insert leaves the arcs of a node, or puts one before them where the string
\* leaves the trie.
LEMMA InsertKids ==
  ASSUME NEW t, NEW n \in Nat, HasDepth(t, n), NEW s \in Seq(Item), Len(s) = n,
         NEW p \in Nodes(Insert(t, s))
  PROVE  LET now == Insert(t, s).kids[p]
             next == SubSeq(s, 1, Len(p) + 1)
         IN /\ p \notin Nodes(t) => p \in Prefixes(s)
            /\ \E o \in Seq(Item) :
                 /\ o = IF p \in Nodes(t) THEN t.kids[p] ELSE << >>
                 /\ \/ /\ now = o
                       /\ p \in Prefixes(s) /\ p # s => next \in Nodes(t)
                    \/ /\ now = <<s[Len(p) + 1]>> \o o
                       /\ p \in Prefixes(s) /\ Len(p) \in 0 .. n - 1
                       /\ next \notin Nodes(t)
<1> DEFINE T == Insert(t, s)
           path == Prefixes(s)
           next == SubSeq(s, 1, Len(p) + 1)
           o == IF p \in Nodes(t) THEN t.kids[p] ELSE << >>
<1>1. /\ T.kids = [q \in Nodes(t) \cup path |->
                     IF q \in path \ {s} /\ SubSeq(s, 1, Len(q) + 1) \notin Nodes(t)
                     THEN <<s[Len(q) + 1]>> \o (IF q \in Nodes(t) THEN t.kids[q] ELSE << >>)
                     ELSE IF q \in Nodes(t) THEN t.kids[q] ELSE << >>]
  BY DEF Insert
<1>2. p \in Nodes(t) \cup path
  BY <1>1 DEF Nodes
<1>3. T.kids[p] = IF p \in path \ {s} /\ next \notin Nodes(t)
                  THEN <<s[Len(p) + 1]>> \o o ELSE o
  BY <1>1, <1>2
<1>4. o \in Seq(Item)
  BY DEF HasDepth
<1>5. ASSUME p \in path, p # s PROVE Len(p) \in 0 .. n - 1
  <2>1. Len(p) \in 0 .. n /\ Len(p) # n
    BY <1>5, PrefixesOf
  <2> QED
    BY <2>1
<1> HIDE DEF o, T
<1> QED
  BY <1>2, <1>3, <1>4, <1>5 DEF o, T

\* The arcs of a node stay, and an arc put before them is new.
LEMMA InsertArcs ==
  ASSUME NEW t, NEW n \in Nat, HasDepth(t, n), NEW s \in Seq(Item), Len(s) = n,
         NEW p \in Nodes(Insert(t, s))
  PROVE  LET now == Insert(t, s).kids[p]
             new == /\ p \in Prefixes(s) /\ Len(p) \in 0 .. n - 1
                    /\ SubSeq(s, 1, Len(p) + 1) \notin Nodes(t)
             o == IF p \in Nodes(t) THEN t.kids[p] ELSE << >>
         IN /\ o \in Seq(Item) /\ now \in Seq(Item)
            /\ ~ new => now = o
            /\ new => /\ Len(now) = Len(o) + 1
                      /\ now[1] = s[Len(p) + 1]
                      /\ \A j \in 1 .. Len(o) : now[j + 1] = o[j]
<1> DEFINE now == Insert(t, s).kids[p]
           new == /\ p \in Prefixes(s) /\ Len(p) \in 0 .. n - 1
                  /\ SubSeq(s, 1, Len(p) + 1) \notin Nodes(t)
           o == IF p \in Nodes(t) THEN t.kids[p] ELSE << >>
<1>1. /\ o \in Seq(Item)
      /\ \/ now = o /\ (p \in Prefixes(s) /\ p # s => SubSeq(s, 1, Len(p) + 1) \in Nodes(t))
         \/ now = <<s[Len(p) + 1]>> \o o /\ new
  <2>1. PICK q \in Seq(Item) :
          /\ q = IF p \in Nodes(t) THEN t.kids[p] ELSE << >>
          /\ \/ /\ now = q
                /\ p \in Prefixes(s) /\ p # s => SubSeq(s, 1, Len(p) + 1) \in Nodes(t)
             \/ /\ now = <<s[Len(p) + 1]>> \o q
                /\ p \in Prefixes(s) /\ Len(p) \in 0 .. n - 1
                /\ SubSeq(s, 1, Len(p) + 1) \notin Nodes(t)
    BY InsertKids, SMTT(20)
  <2>2. o = q
    BY <2>1
  <2> HIDE DEF o, now
  <2> QED
    BY <2>1, <2>2
<1>2. ASSUME new PROVE p # s /\ s[Len(p) + 1] \in Item
  BY <1>2
<1>3. ASSUME ~ new PROVE now = o
  BY <1>1, <1>3
<1>4. ASSUME new
      PROVE  /\ now \in Seq(Item) /\ Len(now) = Len(o) + 1 /\ now[1] = s[Len(p) + 1]
             /\ \A j \in 1 .. Len(o) : now[j + 1] = o[j]
  <2>1. now = <<s[Len(p) + 1]>> \o o
    BY <1>1, <1>2, <1>4
  <2> DEFINE a == s[Len(p) + 1]
  <2>2. a \in Item /\ now = <<a>> \o o /\ o \in Seq(Item)
    BY <1>1, <1>2, <1>4, <2>1
  <2> HIDE DEF a, o, now, new
  <2>3. <<a>> \in Seq(Item) /\ Len(<<a>>) = 1 /\ <<a>>[1] = a
    BY <2>2
  <2>4. /\ now \in Seq(Item) /\ Len(now) = 1 + Len(o) /\ Len(o) \in Nat
        /\ \A i \in 1 .. 1 + Len(o) : now[i] = IF i <= 1 THEN <<a>>[i] ELSE o[i - 1]
    BY <2>2, <2>3, ConcatProperties
  <2>5. now[1] = a
    BY <2>3, <2>4
  <2>6. ASSUME NEW j \in 1 .. Len(o) PROVE now[j + 1] = o[j]
    <3>1. j + 1 \in 1 .. 1 + Len(o) /\ ~ j + 1 <= 1 /\ (j + 1) - 1 = j
      BY <2>4
    <3> QED
      BY <2>4, <3>1
  <2>7. Len(now) = Len(o) + 1
    BY <2>4
  <2> QED
    BY <2>4, <2>5, <2>6, <2>7 DEF a
<1> HIDE DEF now, o, new
<1> QED
  BY <1>1, <1>3, <1>4 DEF now, o, new

\* A whole trie stays whole when an ordered vector is inserted.
LEMMA InsertWhole ==
  ASSUME NEW d, NEW t, NEW n \in Nat \ {0}, HasDepth(t, n), Whole(d, t, n),
         NEW s \in Seq(Item), Len(s) = n, OrderedBy(d, s)
  PROVE  Whole(d, Insert(t, s), n)
<1> DEFINE T == Insert(t, s)
           New(p) == /\ p \in Prefixes(s) /\ Len(p) \in 0 .. n - 1
                     /\ SubSeq(s, 1, Len(p) + 1) \notin Nodes(t)
           Old(p) == IF p \in Nodes(t) THEN t.kids[p] ELSE << >>
<1>1. Nodes(T) = Nodes(t) \cup Prefixes(s) /\ T.ends = t.ends \cup {s}
  BY DEF Insert, Nodes
<1>2. ASSUME NEW p \in Nodes(T)
      PROVE  /\ Old(p) \in Seq(Item) /\ T.kids[p] \in Seq(Item)
             /\ ~ New(p) => T.kids[p] = Old(p)
             /\ New(p) => /\ Len(T.kids[p]) = Len(Old(p)) + 1
                          /\ T.kids[p][1] = s[Len(p) + 1]
                          /\ \A j \in 1 .. Len(Old(p)) : T.kids[p][j + 1] = Old(p)[j]
  BY InsertArcs
<1> HIDE DEF T
<1>3. ASSUME NEW p \in Nodes(t), NEW j \in DOMAIN t.kids[p]
      PROVE  \E i \in DOMAIN T.kids[p] : T.kids[p][i] = t.kids[p][j]
  <2>1. p \in Nodes(T) /\ Old(p) = t.kids[p] /\ t.kids[p] \in Seq(Item)
    BY <1>1 DEF HasDepth
  <2>2. CASE ~ New(p)
    BY <1>2, <2>1, <2>2
  <2>3. CASE New(p)
    <3> DEFINE now == T.kids[p]
               o == t.kids[p]
    <3>1. /\ now \in Seq(Item) /\ o \in Seq(Item) /\ Len(now) = Len(o) + 1
          /\ \A i \in 1 .. Len(o) : now[i + 1] = o[i]
      BY <1>2, <2>1, <2>3
    <3>2. j \in DOMAIN o
      OBVIOUS
    <3> HIDE DEF now, o
    <3>3. j \in 1 .. Len(o) /\ j + 1 \in DOMAIN now
      BY <3>1, <3>2
    <3>4. now[j + 1] = o[j]
      BY <3>1, <3>3
    <3> QED
      BY <3>3, <3>4 DEF now, o
  <2> QED
    BY <2>2, <2>3
<1>4. \A m \in 0 .. n : SubSeq(s, 1, m) \in Nodes(T)
  BY <1>1, PrefixesOf
<1>5. ASSUME NEW p \in Nodes(T), NEW l \in 1 .. Len(p)
      PROVE  /\ SubSeq(p, 1, l - 1) \in Nodes(T)
             /\ \E j \in DOMAIN T.kids[SubSeq(p, 1, l - 1)] :
                  T.kids[SubSeq(p, 1, l - 1)][j] = p[l]
  <2>1. CASE p \in Nodes(t)
    <3>1. /\ SubSeq(p, 1, l - 1) \in Nodes(t)
          /\ \E j \in DOMAIN t.kids[SubSeq(p, 1, l - 1)] :
               t.kids[SubSeq(p, 1, l - 1)][j] = p[l]
      BY <2>1 DEF Whole
    <3> QED
      BY <1>1, <1>3, <3>1
  <2>2. CASE p \in Prefixes(s)
    <3>1. /\ p \in Seq(Item) /\ Len(p) \in 0 .. n
          /\ \A i \in 1 .. Len(p) : p[i] = s[i]
          /\ \A i \in 0 .. Len(p) : SubSeq(p, 1, i) = SubSeq(s, 1, i)
      BY <2>2, PrefixesOf
    <3> DEFINE up == SubSeq(s, 1, l - 1)
    <3>2. l \in 1 .. n /\ l - 1 \in 0 .. n - 1 /\ l - 1 \in 0 .. Len(p) /\ l - 1 \in 0 .. n
      BY <3>1
    <3>3. SubSeq(p, 1, l - 1) = up /\ p[l] = s[l] /\ up \in Nodes(T) /\ up \in Prefixes(s)
      BY <1>4, <3>1, <3>2, PrefixesOf
    <3>4. Len(up) = l - 1 /\ Len(up) + 1 = l
      BY <3>2, PrefixType
    <3> DEFINE q == SubSeq(s, 1, l)
    <3>5. CASE q \in Nodes(t)
      <4>1. q \in Seq(Item) /\ Len(q) = l /\ q[l] = s[l] /\ SubSeq(q, 1, l - 1) = up
        BY <3>2, PrefixType
      <4>2. l \in 1 .. Len(q)
        BY <3>2, <4>1
      <4>3. /\ SubSeq(q, 1, l - 1) \in Nodes(t)
            /\ \E j \in DOMAIN t.kids[SubSeq(q, 1, l - 1)] :
                 t.kids[SubSeq(q, 1, l - 1)][j] = q[l]
        <5> HIDE DEF q
        <5> QED
          BY <3>5, <4>2 DEF Whole
      <4>4. up \in Nodes(t) /\ \E j \in DOMAIN t.kids[up] : t.kids[up][j] = s[l]
        BY <4>1, <4>3
      <4>5. PICK j \in DOMAIN t.kids[up] : t.kids[up][j] = s[l]
        BY <4>4
      <4>6. \E i \in DOMAIN T.kids[up] : T.kids[up][i] = s[l]
        BY <1>3, <4>4, <4>5
      <4> QED
        BY <3>3, <4>6
    <3>6. CASE q \notin Nodes(t)
      <4>1. New(up)
        BY <3>2, <3>3, <3>4, <3>6
      <4>2. /\ T.kids[up] \in Seq(Item) /\ Old(up) \in Seq(Item)
            /\ Len(T.kids[up]) = Len(Old(up)) + 1 /\ T.kids[up][1] = s[l]
        BY <1>2, <3>3, <3>4, <4>1
      <4>3. 1 \in DOMAIN T.kids[up]
        <5> HIDE DEF Old, up
        <5> QED
          BY <4>2
      <4> QED
        BY <3>3, <4>2, <4>3
    <3> QED
      BY <3>5, <3>6
  <2> QED
    BY <1>1, <2>1, <2>2
<1>6. ASSUME NEW p \in Nodes(T), NEW i \in DOMAIN T.kids[p], NEW j \in DOMAIN T.kids[p],
             T.kids[p][i] = T.kids[p][j]
      PROVE  i = j
  <2>1. \A x, y \in DOMAIN Old(p) : Old(p)[x] = Old(p)[y] => x = y
    BY DEF Whole
  <2>2. CASE ~ New(p)
    BY <1>2, <1>6, <2>1, <2>2
  <2>3. CASE New(p)
    <3> DEFINE now == T.kids[p]
               o == Old(p)
               a == s[Len(p) + 1]
    <3>1. /\ now \in Seq(Item) /\ o \in Seq(Item) /\ Len(now) = Len(o) + 1
          /\ \A x \in 1 .. Len(o) : now[x + 1] = o[x]
          /\ now[1] = a
      BY <1>2, <2>3
    <3>2. ASSUME NEW x \in DOMAIN o PROVE o[x] # a
      <4>1. p \in Nodes(t) /\ o = t.kids[p]
        BY <3>2
      <4>2. Append(p, o[x]) \in Nodes(t)
        BY <3>2, <4>1 DEF HasDepth
      <4>3. Append(p, a) = SubSeq(s, 1, Len(p) + 1)
        <5>1. p = SubSeq(s, 1, Len(p)) /\ Len(p) \in 0 .. Len(s) - 1
          BY <2>3, PrefixesOf
        <5> QED
          BY <5>1, AppendPrefix
      <4> QED
        BY <2>3, <4>2, <4>3
    <3>3. /\ i \in DOMAIN now /\ j \in DOMAIN now /\ now[i] = now[j]
          /\ \A x, y \in DOMAIN o : o[x] = o[y] => x = y
      BY <1>6, <2>1
    <3> HIDE DEF now, o, a
    <3>4. ASSUME NEW x \in DOMAIN now
          PROVE  x \in Nat /\ (x = 1 \/ (x - 1 \in DOMAIN o /\ now[x] = o[x - 1]))
      <4>1. DOMAIN now = 1 .. Len(o) + 1 /\ DOMAIN o = 1 .. Len(o) /\ Len(o) \in Nat
        BY <3>1
      <4>2. ASSUME x # 1 PROVE x - 1 \in 1 .. Len(o) /\ (x - 1) + 1 = x
        BY <4>1, <4>2
      <4> QED
        BY <3>1, <4>1, <4>2
    <3>5. CASE i = 1 /\ j = 1
      BY <3>5
    <3>6. CASE i = 1 /\ j # 1
      BY <3>1, <3>2, <3>3, <3>4, <3>6
    <3>7. CASE i # 1 /\ j = 1
      BY <3>1, <3>2, <3>3, <3>4, <3>7
    <3>8. CASE i # 1 /\ j # 1
      <4>1. i - 1 = j - 1 /\ i \in Nat /\ j \in Nat
        BY <3>3, <3>4, <3>8
      <4> QED
        BY <4>1
    <3> QED
      BY <3>5, <3>6, <3>7, <3>8
  <2> QED
    BY <2>2, <2>3
<1>7. s \in Prefixes(s)
  <2>1. Len(s) \in 0 .. Len(s) /\ SubSeq(s, 1, Len(s)) = s
    BY SubSeqFull
  <2> QED
    BY <2>1, PrefixesOf
<1>8. ASSUME NEW p \in Nodes(T), Len(p) = n PROVE p \in T.ends
  <2>1. CASE p \in Nodes(t)
    BY <1>1, <1>8, <2>1 DEF Whole
  <2>2. CASE p \in Prefixes(s)
    BY <1>1, <1>8, <2>2, PrefixesOf
  <2> QED
    BY <1>1, <2>1, <2>2
<1>9. ASSUME NEW p \in Nodes(T), p # << >>
      PROVE  \E e \in T.ends : Len(p) <= Len(e) /\ SubSeq(e, 1, Len(p)) = p
  <2>1. CASE p \in Nodes(t)
    BY <1>1, <1>9, <2>1 DEF Whole
  <2>2. CASE p \in Prefixes(s)
    <3>1. Len(p) <= Len(s) /\ SubSeq(s, 1, Len(p)) = p
      BY <2>2, PrefixesOf
    <3> QED
      BY <1>1, <3>1
  <2> QED
    BY <1>1, <2>1, <2>2
<1>10. \A e \in T.ends : OrderedBy(d, e)
  BY <1>1 DEF Whole
<1> QED
  BY <1>5, <1>6, <1>8, <1>9, <1>10 DEF Whole, T

\* The strings of a trie after an insertion.
LEMMA InsertVectors ==
  ASSUME NEW t, NEW s
  PROVE  Vectors(Insert(t, s)) = Vectors(t) \cup {ToSet(s)}
<1>1. Insert(t, s).ends = t.ends \cup {s}
  BY DEF Insert
<1> QED
  BY <1>1 DEF Vectors

\* Trie::empty tells whether there is a string.
LEMMA EmptyVectors ==
  ASSUME NEW d, NEW t, NEW n \in Nat \ {0}, HasDepth(t, n), Whole(d, t, n)
  PROVE  IsEmptyTrie(t) <=> Vectors(t) = {}
<1>1. t.kids[<< >>] \in Seq(Item) /\ << >> \in Nodes(t)
  BY DEF HasDepth
<1>2. ASSUME t.kids[<< >>] # << >> PROVE Vectors(t) # {}
  <2>1. 1 \in DOMAIN t.kids[<< >>]
    BY <1>1, <1>2
  <2> DEFINE p == Append(<< >>, t.kids[<< >>][1])
  <2>2. p \in Nodes(t)
    BY <1>1, <2>1 DEF HasDepth
  <2>3. p # << >>
    BY <1>1, <2>1, FrontAppend
  <2>4. PICK e \in t.ends : Len(p) <= Len(e)
    BY <2>2, <2>3 DEF Whole
  <2> QED
    BY <2>4 DEF Vectors
<1>3. ASSUME Vectors(t) # {} PROVE t.kids[<< >>] # << >>
  <2>1. PICK e \in t.ends : TRUE
    BY <1>3 DEF Vectors
  <2>2. e \in Nodes(t) /\ e \in Seq(Item) /\ Len(e) = n
    BY <2>1 DEF HasDepth, IsVector
  <2>3. 1 \in 1 .. Len(e) /\ SubSeq(e, 1, 1 - 1) = << >>
    BY <2>2
  <2>4. \E j \in DOMAIN t.kids[SubSeq(e, 1, 1 - 1)] :
          t.kids[SubSeq(e, 1, 1 - 1)][j] = e[1]
    BY <2>2, <2>3 DEF Whole
  <2>5. \E j \in DOMAIN t.kids[<< >>] : t.kids[<< >>][j] = e[1]
    BY <2>3, <2>4
  <2> QED
    BY <2>5
<1> QED
  BY <1>2, <1>3 DEF IsEmptyTrie

\* check_supports of an ordered vector looks for the subsets of its itemset.
LEMMA CheckSupportsSets ==
  ASSUME NEW d, NEW t, NEW n \in Nat, HasDepth(t, n), Whole(d, t, n),
         NEW c \in Seq(Item), OrderedBy(d, c)
  PROVE  CheckSupports(t, c) <=> \A i \in ToSet(c) : ToSet(c) \ {i} \in Vectors(t)
<1>1. ASSUME NEW i \in DOMAIN c
      PROVE  RemoveAt(c, i) \in t.ends <=> ToSet(c) \ {c[i]} \in Vectors(t)
  <2>1. /\ RemoveAt(c, i) \in Seq(Item) /\ OrderedBy(d, RemoveAt(c, i))
        /\ ToSet(RemoveAt(c, i)) = ToSet(c) \ {c[i]}
    BY OrderedRemove
  <2>2. ASSUME NEW e \in t.ends, ToSet(e) = ToSet(c) \ {c[i]}
        PROVE  e = RemoveAt(c, i)
    <3>1. e \in Seq(Item) /\ OrderedBy(d, e)
      BY DEF HasDepth, Whole, IsVector
    <3> QED
      BY <2>1, <2>2, <3>1, OrderedUnique
  <2> QED
    BY <2>1, <2>2 DEF Vectors
<1> QED
  BY <1>1 DEF CheckSupports, Query, ToSet

-----------------------------------------------------------------------------
(* The walk.                                                               *)

\* The walk does not leave behind what it stands on.
LEMMA StandsOn ==
  ASSUME NEW d, NEW t, NEW n \in Nat, HasDepth(t, n), Whole(d, t, n),
         NEW s \in Nodes(t), NEW iters \in Seq(Nat \ {0}),
         Len(iters) = Len(s) + 1, OnString(t, s, iters)
  PROVE  ~ Behind(t, s, iters, s)
<1> SUFFICES ASSUME NEW l \in 1 .. Len(s), LeavesAt(t, s, iters, s, l)
             PROVE  FALSE
  BY DEF Behind
<1> DEFINE up == SubSeq(s, 1, l - 1)
<1>1. PICK j \in DOMAIN t.kids[up] : j < iters[l] /\ t.kids[up][j] = s[l]
  BY DEF LeavesAt
<1>2. up \in Nodes(t) /\ iters[l] \in DOMAIN t.kids[up] /\ t.kids[up][iters[l]] = s[l]
  BY DEF OnString
<1> HIDE DEF up
<1>3. j = iters[l]
  BY <1>1, <1>2 DEF Whole
<1>4. t.kids[up] \in Seq(Item)
  BY <1>2 DEF HasDepth
<1> QED
  BY <1>1, <1>3, <1>4

\* Going down leaves nothing behind.
LEMMA BehindDown ==
  ASSUME NEW t, NEW s \in Seq(Item), NEW iters \in Seq(Nat \ {0}),
         Len(iters) = Len(s) + 1, NEW a \in Item, NEW p \in Seq(Item),
         \A q \in Nodes(t) : t.kids[q] \in Seq(Item),
         Append(s, a) \in Nodes(t)
  PROVE  Behind(t, Append(s, a), Append(iters, 1), p) <=> Behind(t, s, iters, p)
<1> DEFINE m == Len(s)
           down == Append(s, a)
           on == Append(iters, 1)
<1>1. m \in Nat /\ 1 \in Nat \ {0}
  OBVIOUS
<1>2. \A l \in 0 .. m : SubSeq(down, 1, l) = SubSeq(s, 1, l)
  BY FrontAppend
<1>3. /\ Len(on) = m + 2 /\ on[m + 2] = 1
      /\ \A l \in 1 .. m + 1 : on[l] = iters[l]
  <2>1. /\ Len(on) = Len(iters) + 1 /\ on[Len(iters) + 1] = 1
        /\ \A l \in 1 .. Len(iters) : on[l] = iters[l]
    BY <1>1, FrontAppend
  <2>2. Len(iters) + 1 = m + 2
    BY <1>1
  <2> QED
    BY <2>1, <2>2
<1>4. SubSeq(down, 1, m + 1) = down
  BY FrontAppend, SubSeqFull
<1> HIDE DEF m, down, on
<1>5. ASSUME NEW l \in 1 .. m + 1
      PROVE  LeavesAt(t, down, on, p, l) <=> LeavesAt(t, s, iters, p, l)
  <2>1. l - 1 \in 0 .. m
    BY <1>1
  <2> QED
    BY <1>2, <1>3, <2>1 DEF LeavesAt
<1>6. ASSUME LeavesAt(t, down, on, p, m + 2) PROVE FALSE
  <2>1. (m + 2) - 1 = m + 1
    BY <1>1
  <2>2. PICK j \in DOMAIN t.kids[down] : j < 1
    BY <1>3, <1>4, <1>6, <2>1 DEF LeavesAt
  <2>3. t.kids[down] \in Seq(Item)
    BY DEF down
  <2> QED
    BY <2>2, <2>3
<1>7. Behind(t, down, on, p)
        <=> \E l \in 1 .. Len(p) : l <= m + 2 /\ LeavesAt(t, down, on, p, l)
  BY <1>3 DEF Behind
<1>8. Behind(t, s, iters, p)
        <=> \E l \in 1 .. Len(p) : l <= m + 1 /\ LeavesAt(t, s, iters, p, l)
  BY DEF Behind, m
<1>9. ASSUME NEW l \in 1 .. Len(p)
      PROVE  /\ l <= m + 2 => l \in 1 .. m + 1 \/ l = m + 2
             /\ l <= m + 1 => l \in 1 .. m + 1 /\ l <= m + 2
  BY <1>1
<1>10. ASSUME Behind(t, down, on, p) PROVE Behind(t, s, iters, p)
  <2>1. PICK l \in 1 .. Len(p) : l <= m + 2 /\ LeavesAt(t, down, on, p, l)
    BY <1>7, <1>10
  <2>2. l \in 1 .. m + 1
    BY <1>6, <1>9, <2>1
  <2>3. l <= m + 1
    BY <1>1, <2>2
  <2> QED
    BY <1>5, <1>8, <2>1, <2>2, <2>3
<1>11. ASSUME Behind(t, s, iters, p) PROVE Behind(t, down, on, p)
  BY <1>5, <1>7, <1>8, <1>9, <1>11
<1> QED
  BY <1>10, <1>11 DEF down, on

\* Going back leaves behind what lies below.
LEMMA BehindUp ==
  ASSUME NEW d, NEW t, NEW n \in Nat, HasDepth(t, n), Whole(d, t, n),
         NEW s \in Nodes(t), s # << >>, NEW iters \in Seq(Nat \ {0}),
         Len(iters) = Len(s) + 1, OnString(t, s, iters),
         Last(iters) > Len(t.kids[s]), NEW p \in Nodes(t)
  PROVE  LET back == [Front(iters) EXCEPT ![Len(iters) - 1] = @ + 1]
         IN Behind(t, Front(s), back, p) <=> p = s \/ Behind(t, s, iters, p)
<1> DEFINE m == Len(s)
           back == [Front(iters) EXCEPT ![Len(iters) - 1] = @ + 1]
           up == Front(s)
           kids == t.kids[up]
<1>1. /\ s \in Seq(Item) /\ m \in Nat \ {0} /\ p \in Nodes(t) /\ p \in Seq(Item)
      /\ t.kids[s] \in Seq(Item)
  <2>1. s \in Seq(Item) /\ p \in Nodes(t) /\ p \in Seq(Item) /\ t.kids[s] \in Seq(Item)
    BY DEF HasDepth, IsVector
  <2> QED
    BY <2>1, FrontType
<1>2. /\ SubSeq(s, 1, m - 1) = up
      /\ \A l \in 0 .. m - 1 : SubSeq(up, 1, l) = SubSeq(s, 1, l)
  BY <1>1, FrontType
<1>3. /\ Len(back) = m /\ back[m] = iters[m] + 1 /\ iters[m] \in Nat
      /\ \A l \in 1 .. m - 1 : back[l] = iters[l]
  <2> DEFINE I == Front(iters)
  <2>1. iters # << >> /\ Len(iters) - 1 = m
    BY <1>1
  <2>2. I \in Seq(Nat \ {0}) /\ Len(I) = m /\ \A l \in 1 .. m : I[l] = iters[l]
    BY <2>1, FrontType
  <2>3. back = [I EXCEPT ![m] = @ + 1]
    BY <2>1
  <2> HIDE DEF I, m, back
  <2>4. m \in DOMAIN I /\ DOMAIN I = 1 .. m /\ DOMAIN back = 1 .. m
    BY <1>1, <2>2, <2>3
  <2>5. back[m] = I[m] + 1 /\ \A l \in 1 .. m - 1 : back[l] = I[l]
    BY <1>1, <2>3, <2>4
  <2>6. Len(back) = m
    <3>1. back \in Seq(Nat \ {0})
      BY <1>1, <2>2, <2>3, <2>4
    <3> QED
      BY <1>1, <2>4, <3>1
  <2>7. m \in 1 .. m /\ \A l \in 1 .. m - 1 : l \in 1 .. m
    BY <1>1
  <2>8. I[m] \in Nat
    BY <2>2, <2>4
  <2> QED
    BY <2>2, <2>5, <2>6, <2>7, <2>8
<1>4. /\ up \in Nodes(t) /\ iters[m] \in DOMAIN kids /\ kids[iters[m]] = s[m]
      /\ kids \in Seq(Item)
  <2>1. m \in 1 .. m
    BY <1>1
  <2>2. up \in Nodes(t) /\ iters[m] \in DOMAIN kids /\ kids[iters[m]] = s[m]
    BY <1>2, <2>1 DEF OnString
  <2> QED
    BY <2>2 DEF HasDepth
<1>5. /\ Len(iters) = m + 1 /\ iters[m + 1] > Len(t.kids[s]) /\ SubSeq(s, 1, m) = s
  BY <1>1, SubSeqFull DEF Last
<1>6. Len(p) \in Nat
  BY <1>1
<1>7. ASSUME m <= Len(p)
      PROVE  m \in 0 .. Len(p) /\ m - 1 \in 0 .. Len(p) /\ m \in 1 .. Len(p)
  BY <1>1, <1>6, <1>7
\* Reaching s is reaching its parent and taking its arc.
<1>8. ASSUME m <= Len(p)
      PROVE  SubSeq(p, 1, m) = s <=> SubSeq(p, 1, m - 1) = up /\ p[m] = s[m]
  <2> DEFINE q == SubSeq(p, 1, m)
             r == SubSeq(p, 1, m - 1)
  <2>1. /\ q \in Seq(Item) /\ Len(q) = m
        /\ \A i \in 1 .. m : q[i] = p[i]
        /\ \A l \in 0 .. m : SubSeq(q, 1, l) = SubSeq(p, 1, l)
    BY <1>1, <1>7, <1>8, PrefixType
  <2>2. /\ r \in Seq(Item) /\ Len(r) = m - 1
        /\ \A i \in 1 .. m - 1 : r[i] = p[i]
    <3> DEFINE u == m - 1
    <3>1. u \in 0 .. Len(p) /\ p \in Seq(Item)
      BY <1>1, <1>7, <1>8
    <3> HIDE DEF u
    <3>2. /\ SubSeq(p, 1, u) \in Seq(Item) /\ Len(SubSeq(p, 1, u)) = u
          /\ \A i \in 1 .. u : SubSeq(p, 1, u)[i] = p[i]
      BY <3>1, PrefixType
    <3> QED
      BY <3>2 DEF u
  <2>3. m - 1 \in 0 .. m /\ m \in 1 .. m
    BY <1>1
  <2>4. q = s => r = up /\ p[m] = s[m]
    BY <1>2, <2>1, <2>3
  <2>5. ASSUME r = up, p[m] = s[m] PROVE q = s
    <3>1. \A i \in 1 .. m - 1 : up[i] = s[i]
      BY <1>1, FrontType
    <3> HIDE DEF q, r, up
    <3>2. \A i \in 1 .. m : q[i] = s[i]
      <4> TAKE i \in 1 .. m
      <4>1. i = m \/ i \in 1 .. m - 1
        BY <1>1
      <4> QED
        BY <2>1, <2>2, <2>5, <3>1, <4>1
    <3> QED
      BY <1>1, <2>1, <3>2, SeqEqual
  <2> QED
    BY <2>4, <2>5
<1> HIDE DEF m, back, up, kids
<1>9. ASSUME NEW l \in 1 .. m - 1
      PROVE  LeavesAt(t, up, back, p, l) <=> LeavesAt(t, s, iters, p, l)
  <2>1. l - 1 \in 0 .. m - 1
    BY <1>1
  <2> QED
    BY <1>2, <1>3, <2>1 DEF LeavesAt
<1>10. SubSeq(up, 1, m - 1) = up
  <2>1. m - 1 \in 0 .. m - 1
    BY <1>1
  <2> QED
    BY <1>2, <2>1
<1>11. ASSUME m <= Len(p)
       PROVE  LeavesAt(t, up, back, p, m)
                <=> LeavesAt(t, s, iters, p, m) \/ SubSeq(p, 1, m) = s
  <2>1. LeavesAt(t, up, back, p, m)
          <=> /\ SubSeq(p, 1, m - 1) = up
              /\ \E j \in DOMAIN kids : j < iters[m] + 1 /\ kids[j] = p[m]
    BY <1>3, <1>10 DEF LeavesAt, kids
  <2>2. LeavesAt(t, s, iters, p, m)
          <=> /\ SubSeq(p, 1, m - 1) = up
              /\ \E j \in DOMAIN kids : j < iters[m] /\ kids[j] = p[m]
    BY <1>2 DEF LeavesAt, kids
  <2>3. ASSUME NEW j \in DOMAIN kids
        PROVE  j < iters[m] + 1 <=> j < iters[m] \/ j = iters[m]
    <3>1. j \in Nat
      BY <1>4
    <3> QED
      BY <1>3, <3>1
  <2>4. (\E j \in DOMAIN kids : j < iters[m] + 1 /\ kids[j] = p[m])
          <=> \/ \E j \in DOMAIN kids : j < iters[m] /\ kids[j] = p[m]
              \/ p[m] = s[m]
    BY <1>4, <2>3
  <2> QED
    BY <1>8, <1>11, <2>1, <2>2, <2>4
<1>12. ASSUME m <= Len(p), SubSeq(p, 1, m) = s
       PROVE  p = s \/ (m + 1 <= Len(p) /\ LeavesAt(t, s, iters, p, m + 1))
  <2>1. CASE Len(p) = m
    BY <1>1, <1>12, <2>1, SubSeqFull
  <2>2. CASE Len(p) # m
    <3>1. m + 1 <= Len(p) /\ m + 1 \in 1 .. Len(p) /\ (m + 1) - 1 = m
      BY <1>1, <1>6, <1>12, <2>2
    <3>2. \E j \in DOMAIN t.kids[SubSeq(p, 1, (m + 1) - 1)] :
            t.kids[SubSeq(p, 1, (m + 1) - 1)][j] = p[m + 1]
      <4>1. \A l \in 1 .. Len(p) : \E j \in DOMAIN t.kids[SubSeq(p, 1, l - 1)] :
              t.kids[SubSeq(p, 1, l - 1)][j] = p[l]
        BY <1>1 DEF Whole
      <4> QED
        BY <3>1, <4>1
    <3>3. PICK j \in DOMAIN t.kids[s] : t.kids[s][j] = p[m + 1]
      BY <1>12, <3>1, <3>2
    <3>4. j < iters[m + 1]
      <4>1. j \in Nat /\ j <= Len(t.kids[s]) /\ Len(t.kids[s]) \in Nat
        BY <1>1
      <4>2. iters[m + 1] \in Nat
        <5>1. m + 1 \in DOMAIN iters
          BY <1>1, <1>5
        <5> QED
          BY <5>1
      <4> QED
        BY <1>5, <4>1, <4>2
    <3>5. LeavesAt(t, s, iters, p, m + 1)
      BY <1>5, <1>12, <3>1, <3>3, <3>4 DEF LeavesAt
    <3> QED
      BY <3>1, <3>5
  <2> QED
    BY <2>1, <2>2
<1>13. Behind(t, up, back, p)
         <=> \E l \in 1 .. Len(p) : l <= m /\ LeavesAt(t, up, back, p, l)
  BY <1>3 DEF Behind
<1>14. Behind(t, s, iters, p)
         <=> \E l \in 1 .. Len(p) : l <= m + 1 /\ LeavesAt(t, s, iters, p, l)
  BY <1>5 DEF Behind
<1>15. ASSUME Behind(t, up, back, p) PROVE p = s \/ Behind(t, s, iters, p)
  <2>1. PICK l \in 1 .. Len(p) : l <= m /\ LeavesAt(t, up, back, p, l)
    BY <1>13, <1>15
  <2>2. CASE l \in 1 .. m - 1
    <3>1. l <= m + 1
      BY <1>1, <2>1
    <3> QED
      BY <1>9, <1>14, <2>1, <2>2, <3>1
  <2>3. CASE l = m
    <3>1. m <= Len(p) /\ m <= m + 1
      BY <1>1, <1>6, <2>3
    <3>2. CASE LeavesAt(t, s, iters, p, m)
      BY <1>14, <2>3, <3>1, <3>2
    <3>3. CASE SubSeq(p, 1, m) = s
      <4>1. m + 1 <= Len(p) => m + 1 \in 1 .. Len(p)
        BY <1>1, <1>6
      <4>2. m + 1 <= m + 1
        BY <1>1
      <4> QED
        BY <1>12, <1>14, <3>1, <3>3, <4>1, <4>2
    <3> QED
      BY <1>11, <2>1, <2>3, <3>1, <3>2, <3>3
  <2>4. l \in 1 .. m - 1 \/ l = m
    BY <1>1, <2>1
  <2> QED
    BY <2>2, <2>3, <2>4
<1>16. ASSUME m <= Len(p), SubSeq(p, 1, m) = s PROVE Behind(t, up, back, p)
  <2>1. m <= m
    BY <1>1
  <2> QED
    BY <1>7, <1>11, <1>13, <1>16, <2>1
<1>17. ASSUME p = s PROVE Behind(t, up, back, p)
  <2>1. m <= Len(p) /\ SubSeq(p, 1, m) = s
    BY <1>1, <1>5, <1>17 DEF m
  <2> QED
    BY <1>16, <2>1
<1>18. ASSUME Behind(t, s, iters, p) PROVE Behind(t, up, back, p)
  <2>1. PICK l \in 1 .. Len(p) : l <= m + 1 /\ LeavesAt(t, s, iters, p, l)
    BY <1>14, <1>18
  <2>2. CASE l \in 1 .. m - 1
    <3>1. l <= m
      BY <1>1, <2>2
    <3> QED
      BY <1>9, <1>13, <2>1, <2>2, <3>1
  <2>3. CASE l = m
    <3>1. m <= Len(p) /\ m <= m
      BY <1>1, <1>6, <2>3
    <3> QED
      BY <1>11, <1>13, <2>1, <2>3, <3>1
  <2>4. CASE l = m + 1
    <3>1. m <= Len(p) /\ (m + 1) - 1 = m
      BY <1>1, <1>6, <2>4
    <3>2. SubSeq(p, 1, m) = s
      BY <1>5, <2>1, <2>4, <3>1 DEF LeavesAt
    <3> QED
      BY <1>16, <3>1, <3>2
  <2>5. l \in 1 .. m - 1 \/ l = m \/ l = m + 1
    BY <1>1, <2>1
  <2> QED
    BY <2>2, <2>3, <2>4, <2>5
<1> QED
  BY <1>15, <1>17, <1>18 DEF up, back

\* Behind the last arc of the root the walk has left all strings behind.
LEMMA AllBehind ==
  ASSUME NEW d, NEW t, NEW n \in Nat \ {0}, HasDepth(t, n), Whole(d, t, n),
         NEW iters, Len(iters) = 1, iters[1] \in Nat, iters[1] > Len(t.kids[<< >>]),
         NEW p \in t.ends
  PROVE  Behind(t, << >>, iters, p)
<1>1. p \in Nodes(t) /\ p \in Seq(Item) /\ Len(p) = n /\ t.kids[<< >>] \in Seq(Item)
  BY DEF HasDepth, IsVector
<1>2. 1 \in 1 .. Len(p) /\ SubSeq(p, 1, 1 - 1) = << >> /\ SubSeq(<< >>, 1, 1 - 1) = << >>
  BY <1>1
<1>3. \E j \in DOMAIN t.kids[SubSeq(p, 1, 1 - 1)] :
        t.kids[SubSeq(p, 1, 1 - 1)][j] = p[1]
  <2>1. \A l \in 1 .. Len(p) : \E j \in DOMAIN t.kids[SubSeq(p, 1, l - 1)] :
          t.kids[SubSeq(p, 1, l - 1)][j] = p[l]
    BY <1>1 DEF Whole
  <2> QED
    BY <1>2, <2>1
<1>4. PICK j \in DOMAIN t.kids[<< >>] : t.kids[<< >>][j] = p[1]
  BY <1>2, <1>3
<1>5. j < iters[1]
  BY <1>1
<1>6. LeavesAt(t, << >>, iters, p, 1)
  BY <1>2, <1>4, <1>5 DEF LeavesAt
<1> QED
  BY <1>2, <1>6 DEF Behind

\* At the start it has left none.
LEMMA NoneBehind ==
  ASSUME NEW t, t.kids[<< >>] \in Seq(Item), NEW p \in Seq(Item)
  PROVE  ~ Behind(t, << >>, << 1 >>, p)
<1> SUFFICES ASSUME NEW l \in 1 .. Len(p), l <= Len(<< 1 >>),
                    LeavesAt(t, << >>, << 1 >>, p, l)
             PROVE  FALSE
  BY DEF Behind
<1>1. l = 1 /\ << 1 >>[1] = 1 /\ SubSeq(<< >>, 1, 1 - 1) = << >>
  OBVIOUS
<1>2. PICK j \in DOMAIN t.kids[<< >>] : j < 1
  BY <1>1 DEF LeavesAt
<1> QED
  BY <1>2

\* The candidate walk on the string s: the arcs of its parent lead to strings,
\* and the walk has passed those up to its own.
LEMMA SiblingEnds ==
  ASSUME NEW d, NEW t, NEW n \in Nat \ {0}, HasDepth(t, n), Whole(d, t, n),
         NEW s \in t.ends, NEW iters \in Seq(Nat \ {0}),
         Len(iters) = n + 1, OnString(t, s, iters)
  PROVE  LET list == t.kids[Front(s)]
         IN /\ Front(s) \in Nodes(t) /\ list \in Seq(Item)
            /\ iters[n] \in DOMAIN list /\ list[iters[n]] = Last(s)
            /\ iters[n] = Last(Front(iters))
            /\ \A i, j \in DOMAIN list : list[i] = list[j] => i = j
            /\ \A i \in DOMAIN list :
                 /\ Append(Front(s), list[i]) \in t.ends
                 /\ Append(Front(s), list[i]) \in Passed(t, s, iters) <=> i <= iters[n]
            /\ \A e \in t.ends : Front(e) = Front(s) =>
                 \E i \in DOMAIN list : e = Append(Front(s), list[i])
<1> DEFINE up == Front(s)
           list == t.kids[up]
           at == iters[n]
<1>1. s \in Nodes(t) /\ s \in Seq(Item) /\ Len(s) = n /\ s # << >>
  BY DEF HasDepth, IsVector
<1>2. /\ up = SubSeq(s, 1, n - 1) /\ up \in Seq(Item) /\ Len(up) = n - 1
      /\ \A l \in 0 .. n - 1 : SubSeq(up, 1, l) = SubSeq(s, 1, l)
      /\ s[n] = Last(s)
  BY <1>1, FrontType DEF Last
<1>3. up \in Nodes(t) /\ at \in DOMAIN list /\ list[at] = Last(s)
  <2>1. n \in 1 .. Len(s)
    BY <1>1
  <2> QED
    BY <1>2, <2>1 DEF OnString
<1>4. list \in Seq(Item) /\ \A i, j \in DOMAIN list : list[i] = list[j] => i = j
  BY <1>3 DEF HasDepth, Whole
<1>5. iters[n] = Last(Front(iters))
  <2>1. iters # << >> /\ Len(iters) - 1 = n
    OBVIOUS
  <2>2. /\ Len(Front(iters)) = n /\ \A i \in 1 .. n : Front(iters)[i] = iters[i]
    BY <2>1, FrontType
  <2>3. n \in 1 .. n
    OBVIOUS
  <2> QED
    BY <2>2, <2>3 DEF Last
<1>6. ASSUME NEW e \in Seq(Item), e # << >>, Front(e) = up
      PROVE  e = Append(up, Last(e)) /\ Last(e) \in Item /\ Len(e) = n /\ e[n] = Last(e)
  <2>1. Len(e) \in Nat \ {0} /\ Len(e) - 1 = n - 1 /\ up = SubSeq(e, 1, Len(e) - 1)
    BY <1>2, <1>6, FrontType
  <2>2. Len(e) = n /\ n - 1 \in 0 .. Len(e) - 1 /\ (n - 1) + 1 = n
    BY <2>1
  <2>3. Append(SubSeq(e, 1, n - 1), e[(n - 1) + 1]) = SubSeq(e, 1, (n - 1) + 1)
    BY <2>2, AppendPrefix
  <2>4. SubSeq(e, 1, n) = e
    BY <2>2, SubSeqFull
  <2>5. e[n] = Last(e) /\ e[n] \in Item
    BY <2>2 DEF Last
  <2> QED
    BY <2>1, <2>2, <2>3, <2>4, <2>5
<1>7. ASSUME NEW e \in t.ends, Front(e) = up
      PROVE  \E i \in DOMAIN list : e = Append(up, list[i])
  <2>1. e \in Nodes(t) /\ e \in Seq(Item) /\ Len(e) = n /\ e # << >>
    BY DEF HasDepth, IsVector
  <2>2. e = Append(up, Last(e)) /\ e[n] = Last(e)
    BY <1>6, <1>7, <2>1
  <2>3. n \in 1 .. Len(e) /\ SubSeq(e, 1, n - 1) = up
    <3>1. Front(e) = SubSeq(e, 1, Len(e) - 1)
      BY <2>1, FrontType
    <3> QED
      BY <1>7, <2>1, <3>1
  <2>4. \E j \in DOMAIN t.kids[SubSeq(e, 1, n - 1)] :
          t.kids[SubSeq(e, 1, n - 1)][j] = e[n]
    <3>1. \A l \in 1 .. Len(e) : \E j \in DOMAIN t.kids[SubSeq(e, 1, l - 1)] :
            t.kids[SubSeq(e, 1, l - 1)][j] = e[l]
      BY <2>1 DEF Whole
    <3> HIDE DEF up, list, at
    <3> QED
      BY <2>3, <3>1
  <2> QED
    BY <2>2, <2>3, <2>4
<1>8. ASSUME NEW i \in DOMAIN list
      PROVE  LET e == Append(up, list[i])
             IN /\ e \in Nodes(t) /\ e \in t.ends /\ e \in Seq(Item) /\ Len(e) = n
                /\ e[n] = list[i] /\ SubSeq(e, 1, n - 1) = up
                /\ \A l \in 1 .. n - 1 : SubSeq(e, 1, l - 1) = SubSeq(s, 1, l - 1)
                                         /\ e[l] = s[l]
  <2> DEFINE e == Append(up, list[i])
  <2>1. list[i] \in Item
    BY <1>4
  <2>2. e \in Nodes(t)
    BY <1>3 DEF HasDepth
  <2>3. /\ e \in Seq(Item) /\ Len(e) = Len(up) + 1
        /\ \A j \in 1 .. Len(up) : e[j] = up[j]
        /\ e[Len(up) + 1] = list[i]
        /\ \A l \in 0 .. Len(up) : SubSeq(e, 1, l) = SubSeq(up, 1, l)
    BY <1>2, <2>1, FrontAppend
  <2>4. Len(up) + 1 = n
    BY <1>2
  <2>5. e \in t.ends
    BY <2>2, <2>3, <2>4 DEF Whole
  <2>6. SubSeq(e, 1, n - 1) = up
    <3>1. n - 1 \in 0 .. Len(up)
      BY <1>2
    <3> QED
      BY <1>2, <2>3, <3>1, SubSeqFull
  <2>7. ASSUME NEW l \in 1 .. n - 1
        PROVE  SubSeq(e, 1, l - 1) = SubSeq(s, 1, l - 1) /\ e[l] = s[l]
    <3>1. l \in 1 .. Len(up) /\ l - 1 \in 0 .. Len(up) /\ l - 1 \in 0 .. n - 1
      BY <1>2
    <3>2. up[l] = s[l]
      BY <1>1, FrontType
    <3> QED
      BY <1>2, <2>3, <3>1, <3>2
  <2> HIDE DEF e
  <2>8. Len(e) = n /\ e[n] = list[i]
    BY <2>3, <2>4
  <2> QED
    BY <2>2, <2>3, <2>5, <2>6, <2>7, <2>8 DEF e
<1>9. ASSUME NEW i \in DOMAIN list
      PROVE  Append(up, list[i]) \in Passed(t, s, iters) <=> i <= at
  <2> DEFINE e == Append(up, list[i])
  <2>1. /\ e \in Nodes(t) /\ e \in t.ends /\ e \in Seq(Item) /\ Len(e) = n
        /\ e[n] = list[i] /\ SubSeq(e, 1, n - 1) = up
        /\ \A l \in 1 .. n - 1 : SubSeq(e, 1, l - 1) = SubSeq(s, 1, l - 1)
                                 /\ e[l] = s[l]
    BY <1>8
  <2>2. i \in Nat /\ at \in Nat
    BY <1>3, <1>4
  <2>3. e = s <=> i = at
    <3>1. s = Append(up, Last(s))
      BY <1>1, <1>6
    <3>2. e = s => list[i] = list[at]
      BY <1>2, <1>3, <2>1
    <3>3. i = at => e = s
      BY <1>3, <3>1
    <3> QED
      BY <1>3, <1>4, <3>2, <3>3
  <2> HIDE DEF e, up, list, at
  <2>4. ASSUME NEW l \in 1 .. n - 1, LeavesAt(t, s, iters, e, l) PROVE FALSE
    <3>1. PICK j \in DOMAIN t.kids[SubSeq(s, 1, l - 1)] :
            j < iters[l] /\ t.kids[SubSeq(s, 1, l - 1)][j] = s[l]
      BY <2>1, <2>4 DEF LeavesAt
    <3>2. l \in 1 .. Len(s)
      BY <1>1
    <3>3. LeavesAt(t, s, iters, s, l)
      BY <3>1 DEF LeavesAt
    <3>4. l <= Len(iters)
      BY <1>1, <3>2
    <3>5. Behind(t, s, iters, s)
      BY <3>2, <3>3, <3>4 DEF Behind
    <3>6. Len(iters) = Len(s) + 1
      BY <1>1
    <3> QED
      BY <1>1, <3>5, <3>6, StandsOn
  <2>5. LeavesAt(t, s, iters, e, n) <=> i < at
    <3>1. LeavesAt(t, s, iters, e, n)
            <=> \E j \in DOMAIN list : j < at /\ list[j] = list[i]
      BY <1>2, <2>1 DEF LeavesAt, list, at
    <3>2. i \in DOMAIN list
      BY DEF list
    <3> QED
      BY <1>4, <3>1, <3>2
  <2>6. Behind(t, s, iters, e) <=> i < at
    <3>1. Behind(t, s, iters, e)
            <=> \E l \in 1 .. n : l <= Len(iters) /\ LeavesAt(t, s, iters, e, l)
      BY <2>1 DEF Behind
    <3>2. n \in 1 .. n /\ n <= Len(iters)
      OBVIOUS
    <3>3. \A l \in 1 .. n : l \in 1 .. n - 1 \/ l = n
      OBVIOUS
    <3> QED
      BY <2>4, <2>5, <3>1, <3>2, <3>3
  <2>7. e \in Passed(t, s, iters) <=> i = at \/ i < at
    BY <2>1, <2>3, <2>6 DEF Passed
  <2> QED
    BY <2>2, <2>7 DEF e, up, list, at
<1> QED
  BY <1>3, <1>4, <1>5, <1>7, <1>8, <1>9

\* The strings of a trie are in one-to-one correspondence with their itemsets.
LEMMA EndVectors ==
  ASSUME NEW d, NEW t, NEW n \in Nat \ {0}, HasDepth(t, n), Whole(d, t, n)
  PROVE  /\ \A e \in t.ends :
              /\ e \in Seq(Item) /\ Len(e) = n /\ e # << >> /\ OrderedBy(d, e)
              /\ ToSet(e) \in Itemset /\ Cardinality(ToSet(e)) = n
         /\ \A e, f \in t.ends : ToSet(e) = ToSet(f) => e = f
         /\ \A X \in Vectors(t) : X \in Itemset /\ Cardinality(X) = n
<1>1. ASSUME NEW e \in t.ends
      PROVE  /\ e \in Seq(Item) /\ Len(e) = n /\ e # << >> /\ OrderedBy(d, e)
             /\ ToSet(e) \in Itemset /\ Cardinality(ToSet(e)) = n
  <2>1. e \in Seq(Item) /\ Len(e) = n /\ OrderedBy(d, e)
    BY DEF HasDepth, Whole, IsVector
  <2>2. e # << >>
    BY <2>1
  <2>3. ToSet(e) \in SUBSET Item /\ Cardinality(ToSet(e)) = n
    BY <2>1, OrderedSize
  <2>4. ToSet(e) # {}
    BY <2>3, FS_EmptySet
  <2> QED
    BY <2>1, <2>2, <2>3, <2>4 DEF Itemset
<1>2. \A e, f \in t.ends : ToSet(e) = ToSet(f) => e = f
  BY <1>1, OrderedUnique
<1> QED
  BY <1>1, <1>2 DEF Vectors

\* When the candidate walk starts behind the string's own arc, what it has to
\* yield is the siblings the walk has not passed.
LEMMA RestExact ==
  ASSUME NEW d, NEW t, NEW n \in Nat \ {0}, HasDepth(t, n), Whole(d, t, n),
         NEW s \in t.ends, NEW iters \in Seq(Nat \ {0}),
         Len(iters) = n + 1, OnString(t, s, iters)
  PROVE  Rest(t, s, iters[n]) =
           {y \in Vectors(t) \ {ToSet(p) : p \in Passed(t, s, iters)} :
              Siblings(d, ToSet(s), y)}
<1> DEFINE up == Front(s)
           list == t.kids[up]
           at == iters[n]
           Passing == {ToSet(p) : p \in Passed(t, s, iters)}
<1>1. /\ list \in Seq(Item) /\ at \in DOMAIN list /\ list[at] = Last(s)
      /\ \A i, j \in DOMAIN list : list[i] = list[j] => i = j
      /\ \A i \in DOMAIN list :
           /\ Append(up, list[i]) \in t.ends
           /\ Append(up, list[i]) \in Passed(t, s, iters) <=> i <= at
      /\ \A e \in t.ends : Front(e) = up => \E i \in DOMAIN list : e = Append(up, list[i])
  BY SiblingEnds
<1>2. /\ \A e \in t.ends : e \in Seq(Item) /\ e # << >> /\ OrderedBy(d, e)
      /\ \A e, f \in t.ends : ToSet(e) = ToSet(f) => e = f
  BY EndVectors
<1>3. Passed(t, s, iters) \subseteq t.ends
  BY DEF Passed
<1>4. up \in Seq(Item)
  BY <1>2, FrontType
<1>5. at \in Nat /\ Len(list) \in Nat /\ DOMAIN list = 1 .. Len(list)
  BY <1>1
<1>6. ASSUME NEW i \in DOMAIN list
      PROVE  Front(Append(up, list[i])) = up /\ Last(Append(up, list[i])) = list[i]
  <2>1. list[i] \in Item
    BY <1>1
  <2> HIDE DEF up, list
  <2> QED
    BY <1>4, <2>1, FrontAppend
<1> HIDE DEF up, list, at, Passing
<1>7. \A i : i \in at + 1 .. Len(list) <=> i \in DOMAIN list /\ ~ i <= at
  BY <1>1, <1>5
<1>8. ASSUME NEW y \in Rest(t, s, at)
      PROVE  y \in Vectors(t) /\ y \notin Passing /\ Siblings(d, ToSet(s), y)
  <2>1. PICK i \in at + 1 .. Len(list) : y = ToSet(Append(up, list[i]))
    BY DEF Rest, up, list
  <2> DEFINE e == Append(up, list[i])
  <2>2. i \in DOMAIN list /\ ~ i <= at
    BY <1>7, <2>1
  <2>3. e \in t.ends /\ e \notin Passed(t, s, iters) /\ Front(e) = up /\ Last(e) = list[i]
    BY <1>1, <1>6, <2>2
  <2> HIDE DEF e
  <2>4. y = ToSet(e)
    BY <2>1 DEF e
  <2>5. y \notin Passing
    BY <1>2, <1>3, <2>3, <2>4 DEF Passing
  <2>6. Last(e) # Last(s)
    <3>1. i # at
      BY <1>5, <2>2
    <3> QED
      BY <1>1, <2>2, <2>3, <3>1
  <2>7. Front(s) = Front(e)
    BY <2>3 DEF up
  <2>8. Siblings(d, ToSet(s), ToSet(e))
    BY <1>2, <2>3, <2>6, <2>7, OrderedSiblings
  <2> QED
    BY <2>3, <2>4, <2>5, <2>8 DEF Vectors
<1>9. ASSUME NEW y \in Vectors(t), y \notin Passing, Siblings(d, ToSet(s), y)
      PROVE  y \in Rest(t, s, at)
  <2>1. PICK e \in t.ends : y = ToSet(e)
    BY DEF Vectors
  <2>2. Front(e) = up
    BY <1>2, <1>9, <2>1, OrderedSiblings DEF up
  <2>3. PICK i \in DOMAIN list : e = Append(up, list[i])
    BY <1>1, <2>2
  <2>4. e \notin Passed(t, s, iters)
    BY <1>9, <2>1 DEF Passing
  <2>5. i \in at + 1 .. Len(list)
    BY <1>1, <1>7, <2>3, <2>4
  <2> QED
    BY <2>1, <2>3, <2>5 DEF Rest, up, list
<1> QED
  BY <1>8, <1>9 DEF at, Passing

\* A turn of the candidate walk takes one sibling from the rest.
LEMMA RestNext ==
  ASSUME NEW d, NEW t, NEW n \in Nat \ {0}, HasDepth(t, n), Whole(d, t, n),
         NEW s \in t.ends, NEW iters \in Seq(Nat \ {0}),
         Len(iters) = n + 1, OnString(t, s, iters),
         NEW c \in Nat, c < Len(t.kids[Front(s)]), iters[n] <= c
  PROVE  LET diff == t.kids[Front(s)][c + 1]
             y == ToSet(Append(Front(s), diff))
         IN /\ diff \in Item /\ diff \notin ToSet(s)
            /\ y \in Rest(t, s, c) /\ Rest(t, s, c + 1) = Rest(t, s, c) \ {y}
            /\ y \in Vectors(t) /\ Siblings(d, ToSet(s), y)
            /\ LastItem(d, y) = diff /\ y \cup ToSet(s) = ToSet(s) \cup {diff}
<1> DEFINE up == Front(s)
           list == t.kids[up]
           at == iters[n]
           diff == list[c + 1]
           e == Append(up, diff)
<1>1. /\ list \in Seq(Item) /\ at \in DOMAIN list /\ list[at] = Last(s)
      /\ \A i, j \in DOMAIN list : list[i] = list[j] => i = j
      /\ \A i \in DOMAIN list : Append(up, list[i]) \in t.ends
  BY SiblingEnds
<1>2. /\ \A f \in t.ends : f \in Seq(Item) /\ f # << >> /\ OrderedBy(d, f)
      /\ \A f, g \in t.ends : ToSet(f) = ToSet(g) => f = g
  BY EndVectors
<1>3. /\ c + 1 \in DOMAIN list /\ at # c + 1 /\ Len(list) \in Nat
      /\ DOMAIN list = 1 .. Len(list)
  BY <1>1
<1>4. up \in Seq(Item) /\ diff \in Item /\ diff # Last(s) /\ e \in t.ends
  <2>1. up \in Seq(Item)
    BY <1>2, FrontType
  <2>2. e \in t.ends
    BY <1>1, <1>3
  <2> HIDE DEF up, list, at
  <2>3. diff \in Item
    BY <1>1, <1>3
  <2>4. diff # Last(s)
    BY <1>1, <1>3
  <2> QED
    BY <2>1, <2>2, <2>3, <2>4
<1>5. ASSUME NEW i \in DOMAIN list
      PROVE  /\ Append(up, list[i]) \in t.ends
             /\ Front(Append(up, list[i])) = up /\ Last(Append(up, list[i])) = list[i]
  <2>1. list[i] \in Item /\ Append(up, list[i]) \in t.ends
    BY <1>1
  <2> HIDE DEF up, list
  <2> QED
    BY <1>4, <2>1, FrontAppend
<1>6. Front(e) = up /\ Last(e) = diff
  BY <1>3, <1>5
<1> HIDE DEF up, list, at, e, diff
<1>7. Siblings(d, ToSet(s), ToSet(e))
  BY <1>2, <1>4, <1>6, OrderedSiblings DEF up
<1>8. /\ IsLast(d, diff, ToSet(e)) /\ ToSet(up) = ToSet(e) \ {diff}
      /\ ToSet(up) = ToSet(s) \ {Last(s)} /\ IsLast(d, Last(s), ToSet(s))
      /\ ToSet(e) \in SUBSET Item
  <2>1. IsLast(d, Last(e), ToSet(e)) /\ ToSet(Front(e)) = ToSet(e) \ {Last(e)}
    BY <1>2, <1>4, OrderedFront
  <2>2. IsLast(d, Last(s), ToSet(s)) /\ ToSet(Front(s)) = ToSet(s) \ {Last(s)}
    BY <1>2, OrderedFront
  <2>3. ToSet(e) \in SUBSET Item
    BY <1>2, <1>4, OrderedSize
  <2> QED
    BY <1>6, <2>1, <2>2, <2>3 DEF up
<1>9. diff \notin ToSet(s)
  BY <1>4, <1>8
<1>10. diff \in ToSet(e) /\ Last(s) \in ToSet(s)
  BY <1>8 DEF IsLast
<1>11. ToSet(e) \cup ToSet(s) = ToSet(s) \cup {diff}
  BY <1>8, <1>10
<1>12. LastItem(d, ToSet(e)) = diff
  <2>1. IsLast(d, LastItem(d, ToSet(e)), ToSet(e))
    BY <1>8, <1>10 DEF LastItem
  <2> QED
    BY <1>8, <2>1, LastUnique
<1>13. ASSUME NEW z
       PROVE  /\ z \in Rest(t, s, c)
                   <=> \E i \in c + 1 .. Len(list) : z = ToSet(Append(up, list[i]))
              /\ z \in Rest(t, s, c + 1)
                   <=> \E i \in (c + 1) + 1 .. Len(list) : z = ToSet(Append(up, list[i]))
  BY DEF Rest, up, list
<1>14. \A i : i \in c + 1 .. Len(list) <=> i = c + 1 \/ i \in (c + 1) + 1 .. Len(list)
  BY <1>3
<1>15. ASSUME NEW i \in (c + 1) + 1 .. Len(list)
       PROVE  ToSet(Append(up, list[i])) # ToSet(e)
  <2>1. i \in DOMAIN list /\ i # c + 1
    BY <1>3
  <2>2. list[i] # diff
    BY <1>1, <1>3, <2>1 DEF diff
  <2>3. Append(up, list[i]) # e /\ Append(up, list[i]) \in t.ends
    BY <1>5, <1>6, <2>1, <2>2
  <2> QED
    BY <1>2, <1>4, <2>3
<1>16. ToSet(e) \in Rest(t, s, c)
  BY <1>13, <1>14 DEF e, diff
<1>17. ASSUME NEW z
       PROVE  z \in Rest(t, s, c + 1) <=> z \in Rest(t, s, c) /\ z # ToSet(e)
  <2>1. e = Append(up, list[c + 1])
    BY DEF e, diff
  <2> QED
    BY <1>13, <1>14, <1>15, <2>1
<1>18. ToSet(e) \in Vectors(t)
  BY <1>4 DEF Vectors
<1> QED
  BY <1>4, <1>7, <1>9, <1>11, <1>12, <1>16, <1>17, <1>18 DEF up, list, e, diff

\* Behind the last arc nothing is left.
LEMMA RestOver ==
  ASSUME NEW t, NEW s, NEW c \in Nat, Len(t.kids[Front(s)]) \in Nat,
         c >= Len(t.kids[Front(s)])
  PROVE  Rest(t, s, c) = {}
<1>1. c + 1 .. Len(t.kids[Front(s)]) = {}
  OBVIOUS
<1> QED
  BY <1>1 DEF Rest

-----------------------------------------------------------------------------
(* The frequent pairs and the lines.                                       *)

\* An edge reordered is the ordered vector of its two items.
LEMMA ReorderEdge ==
  ASSUME NEW e \in Item \X Item, e[1] # e[2]
  PROVE  /\ Reorder(e) \in Seq(Item) /\ Len(Reorder(e)) = 2
         /\ OrderedBy(db, Reorder(e))
         /\ ToSet(Reorder(e)) = Edge(e)
<1>1. ToSet(e) = Edge(e) /\ ToSet(e) \in SUBSET Item
  BY DEF ToSet, Edge
<1>2. Reorder(e) = Sorted(ToSet(e), Greater)
  BY DEF Reorder
<1>3. OrderedBy(db, Reorder(e))
  BY <1>1, <1>2, SortedItems DEF OrderedBy
<1>4. \A x : x \in ToSet(e) <=> \E n \in DOMAIN Reorder(e) : Reorder(e)[n] = x
  BY <1>1, <1>2, SortedItems
<1>5. ToSet(Reorder(e)) = ToSet(e)
  BY <1>4 DEF ToSet
<1> QED
  BY <1>1, <1>3, <1>5, ReorderPair

\* An itemset of two items is an edge from the lower to the higher one.
LEMMA PairIsEdge ==
  ASSUME NEW X \in Itemset, Cardinality(X) = 2
  PROVE  \E u, v \in Item : u < v /\ X = {u, v}
<1>1. X \in SUBSET Item /\ IsFiniteSet(X)
  BY FiniteSets DEF Itemset
<1>2. PICK u \in X : TRUE
  BY DEF Itemset
<1>3. Cardinality(X \ {u}) = 1 /\ IsFiniteSet(X \ {u})
  <2>1. Cardinality(X \ {u}) = Cardinality(X) - 1 /\ IsFiniteSet(X \ {u})
    BY <1>1, <1>2, FS_RemoveElement
  <2> QED
    BY <2>1
<1>4. PICK v \in X \ {u} : TRUE
  <2>1. X \ {u} # {}
    BY <1>3, FS_EmptySet
  <2> QED
    BY <2>1
<1>5. (X \ {u}) \ {v} = {}
  <2>1. Cardinality((X \ {u}) \ {v}) = Cardinality(X \ {u}) - 1
        /\ IsFiniteSet((X \ {u}) \ {v})
    BY <1>3, <1>4, FS_RemoveElement
  <2>2. Cardinality((X \ {u}) \ {v}) = 0
    BY <1>3, <2>1
  <2> QED
    BY <2>1, <2>2, FS_EmptySet
<1>6. X = {u, v} /\ X = {v, u} /\ u \in Item /\ v \in Item /\ u # v
  BY <1>1, <1>2, <1>4, <1>5
<1>7. u < v \/ v < u
  BY <1>6 DEF Item
<1> QED
  BY <1>6, <1>7

\* The graph of pairs has each frequent itemset of two items as one edge.
LEMMA EdgesExact ==
  /\ {Edge(FrequentPairs[n]) : n \in DOMAIN FrequentPairs} = FrequentOfSize(db, support, 2)
  /\ \A m, n \in DOMAIN FrequentPairs :
       Edge(FrequentPairs[m]) = Edge(FrequentPairs[n]) => m = n
<1> DEFINE q == FrequentPairs
<1>1. /\ q \in Seq(Item \X Item)
      /\ \A n \in DOMAIN q : q[n][1] < q[n][2] /\ Support(db, {q[n][1], q[n][2]}) >= support
      /\ \A m, n \in DOMAIN q : q[m] = q[n] => m = n
      /\ \A u, v \in Item : u < v /\ Support(db, {u, v}) >= support
           => \E n \in DOMAIN q : q[n] = <<u, v>>
  BY PairsType
<1> HIDE DEF q
<1>2. ASSUME NEW n \in DOMAIN q
      PROVE  /\ q[n] \in Item \X Item /\ q[n] = <<q[n][1], q[n][2]>>
             /\ q[n][1] \in Int /\ q[n][2] \in Int /\ q[n][1] # q[n][2]
             /\ q[n][1] \in Item /\ q[n][2] \in Item
  <2>1. q[n] \in Item \X Item
    BY <1>1
  <2>2. q[n][1] \in Int /\ q[n][2] \in Int
    BY <2>1 DEF Item
  <2>3. q[n][1] < q[n][2]
    BY <1>1
  <2>4. q[n][1] # q[n][2]
    BY ONLY <2>2, <2>3
  <2> QED
    BY <2>1, <2>2, <2>4
<1>3. ASSUME NEW n \in DOMAIN q PROVE Edge(q[n]) \in FrequentOfSize(db, support, 2)
  <2> DEFINE u == q[n][1]
             v == q[n][2]
  <2>1. u \in Item /\ v \in Item /\ u # v /\ Support(db, {u, v}) >= support
    BY <1>1, <1>2
  <2>2. Edge(q[n]) = {u, v}
    BY DEF Edge
  <2> HIDE DEF u, v
  <2>3. {u, v} \in Itemset
    BY <2>1 DEF Itemset
  <2>4. Cardinality({u, v}) = 2
    <3>1. IsFiniteSet({u}) /\ Cardinality({u}) = 1
      BY FS_Singleton
    <3>2. Cardinality({u} \cup {v}) = Cardinality({u}) + 1
      BY <2>1, <3>1, FS_AddElement
    <3>3. {u, v} = {u} \cup {v}
      OBVIOUS
    <3> QED
      BY <3>1, <3>2, <3>3
  <2> QED
    BY <2>1, <2>2, <2>3, <2>4 DEF FrequentOfSize, Frequent
<1>4. ASSUME NEW X \in FrequentOfSize(db, support, 2)
      PROVE  \E n \in DOMAIN q : X = Edge(q[n])
  <2>1. X \in Itemset /\ Cardinality(X) = 2 /\ Support(db, X) >= support
    BY DEF FrequentOfSize, Frequent
  <2>2. PICK u, v \in Item : u < v /\ X = {u, v}
    BY <2>1, PairIsEdge
  <2>3. PICK n \in DOMAIN q : q[n] = <<u, v>>
    BY <1>1, <2>1, <2>2
  <2> QED
    BY <2>2, <2>3 DEF Edge
<1>5. ASSUME NEW m \in DOMAIN q, NEW n \in DOMAIN q, Edge(q[m]) = Edge(q[n])
      PROVE  m = n
  <2> DEFINE a == q[m][1]
             b == q[m][2]
             u == q[n][1]
             v == q[n][2]
  <2>1. a \in Int /\ b \in Int /\ u \in Int /\ v \in Int /\ a < b /\ u < v
    BY <1>1, <1>2
  <2>2. {a, b} = {u, v}
    BY <1>5 DEF Edge
  <2>3. q[m] = <<a, b>> /\ q[n] = <<u, v>>
    BY <1>2
  <2> HIDE DEF a, b, u, v
  <2>4. (a = u \/ a = v) /\ (b = u \/ b = v)
    BY <2>2
  <2>5. a = u /\ b = v
    BY <2>1, <2>4
  <2> QED
    BY <1>1, <2>3, <2>5
<1> QED
  BY <1>3, <1>4, <1>5 DEF q

\* A line behind those of no longer and other itemsets keeps them in order.
LEMMA LinesAppended ==
  ASSUME LinesOrdered, out \in Lines, db' = db, NEW s \in Seq(Item), NEW c,
         out' = Append(out, Line(s, c)), OrderedBy(db, s),
         \A n \in DOMAIN out : /\ Len(out[n].items) <= Len(s)
                               /\ ToSet(out[n].items) # ToSet(s)
  PROVE  LinesOrdered'
<1> DEFINE l == Len(out)
           now == out'
<1>1. /\ l \in Nat /\ DOMAIN out = 1 .. l /\ DOMAIN now = 1 .. l + 1
      /\ \A n \in 1 .. l : now[n] = out[n]
      /\ now[l + 1] = Line(s, c)
  BY DEF Lines
<1>2. now[l + 1].items = s
  BY <1>1 DEF Line
<1>3. /\ \A n \in 1 .. l : \A i, j \in DOMAIN out[n].items :
           i < j => GreaterFreq(db, out[n].items[i], out[n].items[j])
      /\ \A m, n \in 1 .. l : m < n =>
           /\ ToSet(out[m].items) # ToSet(out[n].items)
           /\ Len(out[m].items) <= Len(out[n].items)
  BY <1>1 DEF LinesOrdered, Greater
<1>4. /\ \A i, j \in DOMAIN s : i < j => GreaterFreq(db, s[i], s[j])
      /\ \A n \in 1 .. l : Len(out[n].items) <= Len(s) /\ ToSet(out[n].items) # ToSet(s)
  BY <1>1 DEF OrderedBy
<1> HIDE DEF l, now
<1>5. ASSUME NEW n \in 1 .. l + 1, NEW i \in DOMAIN now[n].items,
             NEW j \in DOMAIN now[n].items, i < j
      PROVE  GreaterFreq(db, now[n].items[i], now[n].items[j])
  <2>1. n \in 1 .. l \/ n = l + 1
    BY <1>1
  <2>2. CASE n \in 1 .. l
    BY <1>1, <1>3, <1>5, <2>2
  <2>3. CASE n = l + 1
    BY <1>2, <1>4, <1>5, <2>3
  <2> QED
    BY <2>1, <2>2, <2>3
<1>6. ASSUME NEW m \in 1 .. l + 1, NEW n \in 1 .. l + 1, m < n
      PROVE  /\ ToSet(now[m].items) # ToSet(now[n].items)
             /\ Len(now[m].items) <= Len(now[n].items)
  <2>1. m \in 1 .. l /\ (n \in 1 .. l \/ n = l + 1)
    BY <1>1, <1>6
  <2>2. CASE n \in 1 .. l
    BY <1>1, <1>3, <1>6, <2>1, <2>2
  <2>3. CASE n = l + 1
    BY <1>1, <1>2, <1>4, <2>1, <2>3
  <2> QED
    BY <2>1, <2>2, <2>3
<1> QED
  BY <1>1, <1>5, <1>6 DEF LinesOrdered, Greater, now

\* The items of a line are a vector.
LEMMA LineItems ==
  ASSUME MinerInv, NEW n \in DOMAIN out
  PROVE  out[n].items \in Seq(Item)
<1> DEFINE R == [items : Seq(Item), count : Nat]
<1>1. out \in Seq(R)
  BY DEF MinerInv, TypeOK
<1> HIDE DEF R
<1>2. out[n] \in R
  BY <1>1
<1> QED
  BY <1>2 DEF R

LEMMA LinesKept ==
  ASSUME LinesOrdered, db' = db, out' = out
  PROVE  LinesOrdered'
BY DEF LinesOrdered, Greater

LEMMA ItemsKept ==
  ASSUME ItemsInv, UNCHANGED inputs, pc' \notin {"items", "pairs"}
  PROVE  ItemsInv'
BY DEF ItemsInv, inputs

LEMMA WholeKept ==
  ASSUME WalkedInv, UNCHANGED <<inputs, freq, freq_next, k>>, pc' \notin {"walk", "cand"}
  PROVE  WalkedInv'
BY DEF WalkedInv, inputs

-----------------------------------------------------------------------------
(* The steps outside the walk.                                             *)

LEMMA HistoryInit == HInit => HistoryInv
<1> SUFFICES ASSUME HInit PROVE HistoryInv
  OBVIOUS
<1>1. Init /\ walked = {} /\ last = {}
  BY DEF HInit
<1>2. /\ db \in Databases /\ F = FrequentItems /\ F2 = FrequentPairs /\ pc = "items"
      /\ edge = 0 /\ k = 3 /\ freq = EmptyTrie /\ freq_next = EmptyTrie /\ out = << >>
  BY <1>1 DEF Init
<1>3. MinerInv
  BY <1>1, InitInvariant
<1>4. ItemsInv
  <2> DEFINE X == {i \in Item : Count(db, i) >= support}
  <2>1. X \in SUBSET Item /\ F = Sorted(X, Greater)
    BY <1>2 DEF FrequentItems
  <2>2. /\ \A m, n \in DOMAIN F : F[m] = F[n] => m = n
        /\ \A x : x \in X <=> \E n \in DOMAIN F : F[n] = x
    BY <2>1, SortedItems
  <2>3. \A i \in Item : (\E n \in DOMAIN F : F[n] = i) <=> Count(db, i) >= support
    BY <2>2
  <2>4. /\ {Edge(F2[n]) : n \in DOMAIN F2} = FrequentOfSize(db, support, 2)
        /\ \A m, n \in DOMAIN F2 : Edge(F2[m]) = Edge(F2[n]) => m = n
    BY <1>2, EdgesExact
  <2>5. edge <= Len(F2) /\ Vectors(freq) = {Edge(F2[n]) : n \in 1 .. edge}
    <3>1. Len(F2) \in Nat
      BY <1>3 DEF MinerInv, TypeOK
    <3>2. Vectors(freq) = {} /\ 1 .. edge = {}
      BY <1>2 DEF Vectors, EmptyTrie
    <3> QED
      BY <1>2, <3>1, <3>2
  <2> QED
    BY <1>2, <2>2, <2>3, <2>4, <2>5 DEF ItemsInv
<1>5. WalkedInv
  <2>1. Whole(db, freq, k - 1) /\ Whole(db, freq_next, k)
    <3>1. k - 1 \in Nat \ {0} /\ k \in Nat \ {0}
      BY <1>2
    <3> QED
      BY <1>2, <3>1, EmptyWhole
  <2> QED
    BY <1>2, <2>1 DEF WalkedInv
<1>6. LinesInv
  BY <1>2 DEF LinesInv, LinesOrdered, EmptyTrie
<1> QED
  BY <1>3, <1>4, <1>5, <1>6 DEF HistoryInv

LEMMA OutputItemsHistory ==
  ASSUME HistoryInv, OutputItems, Remember
  PROVE  HistoryInv'
<1> USE DEF HistoryInv
<1>1. /\ pc = "items" /\ pc' = "pairs"
      /\ out' = [i \in DOMAIN F |-> Line(<<F[i]>>, Count(db, F[i]))]
      /\ UNCHANGED <<inputs, edge, k, freq, freq_next>>
  BY DEF OutputItems
<1>2. MinerInv'
  BY OutputItemsStep
<1>3. ItemsInv'
  BY <1>1 DEF ItemsInv, inputs
<1>4. WalkedInv'
  BY <1>1, WholeKept
<1>5. ASSUME NEW n \in DOMAIN out'
      PROVE  n \in DOMAIN F /\ out'[n].items = <<F[n]>>
  BY <1>1, <1>5 DEF Line
<1>6. \A a : Len(<<a>>) = 1 /\ DOMAIN <<a>> = {1} /\ ToSet(<<a>>) = {a}
  BY DEF ToSet
<1>7. LinesOrdered'
  <2>1. db' = db
    BY <1>1 DEF inputs
  <2>2. \A m, n \in DOMAIN F : F[m] = F[n] => m = n
    BY DEF ItemsInv
  <2>3. \A n \in DOMAIN F : n \in Nat
    BY DEF MinerInv, TypeOK
  <2>4. ASSUME NEW n \in DOMAIN out', NEW i \in DOMAIN out'[n].items,
               NEW j \in DOMAIN out'[n].items, i < j
        PROVE  FALSE
    <3>1. i = 1 /\ j = 1
      BY <1>5, <1>6
    <3> QED
      BY <2>4, <3>1
  <2>5. ASSUME NEW m \in DOMAIN out', NEW n \in DOMAIN out', m < n
        PROVE  /\ ToSet(out'[m].items) # ToSet(out'[n].items)
               /\ Len(out'[m].items) <= Len(out'[n].items)
    <3>1. /\ m \in DOMAIN F /\ out'[m].items = <<F[m]>>
          /\ n \in DOMAIN F /\ out'[n].items = <<F[n]>>
      BY <1>5
    <3>2. F[m] # F[n]
      BY <2>2, <2>3, <2>5, <3>1
    <3> QED
      BY <1>6, <3>1, <3>2
  <2> QED
    BY <2>4, <2>5 DEF LinesOrdered
<1>8. LinesInv'
  <2>1. freq_next'.ends = {}
    BY <1>1 DEF LinesInv
  <2>2. \A n \in DOMAIN out' : Len(out'[n].items) = 1
    BY <1>5, <1>6
  <2>3. \A n \in DOMAIN out' : Len(out'[n].items) <= 2 /\ Len(out'[n].items) # 2
    <3> TAKE n \in DOMAIN out'
    <3> DEFINE l == Len(out'[n].items)
    <3>1. l = 1
      BY <2>2
    <3> HIDE DEF l
    <3>2. l <= 2 /\ l # 2
      BY ONLY <3>1
    <3> QED
      BY <3>2 DEF l
  <2> QED
    BY <1>1, <1>7, <2>1, <2>3 DEF LinesInv
<1> QED
  BY <1>2, <1>3, <1>4, <1>8

LEMMA ReturnItemsHistory ==
  ASSUME HistoryInv, ReturnItems, Remember
  PROVE  HistoryInv'
<1> USE DEF HistoryInv
<1>1. pc = "pairs" /\ pc' = "done" /\ UNCHANGED <<inputs, k, freq, freq_next, out>>
  BY DEF ReturnItems
<1>2. MinerInv'
  BY ReturnItemsStep
<1>3. ItemsInv' /\ WalkedInv'
  BY <1>1, ItemsKept, WholeKept
<1>4. LinesInv'
  <2>1. LinesOrdered'
    BY <1>1, LinesKept DEF LinesInv, inputs
  <2> QED
    BY <1>1, <2>1 DEF LinesInv
<1> QED
  BY <1>2, <1>3, <1>4

\* The next edge of F2, as InsertPair takes it.
LEMMA NextEdge ==
  ASSUME HistoryInv, pc = "pairs", edge < Len(F2)
  PROVE  LET x == Reorder(F2[edge + 1])
         IN /\ edge + 1 \in DOMAIN F2 /\ edge \in Nat
            /\ x \in Seq(Item) /\ Len(x) = 2 /\ OrderedBy(db, x)
            /\ ToSet(x) = Edge(F2[edge + 1])
            /\ ToSet(x) \in FrequentOfSize(db, support, 2)
            /\ ToSet(x) \notin Vectors(freq)
            /\ Vectors(Insert(freq, x)) = {Edge(F2[n]) : n \in 1 .. edge + 1}
<1> DEFINE x == Reorder(F2[edge + 1])
<1>1. /\ F2 \in Seq(Item \X Item) /\ edge \in Nat
      /\ \A n \in DOMAIN F2 : F2[n][1] # F2[n][2]
  BY DEF HistoryInv, MinerInv, TypeOK
<1>2. edge + 1 \in DOMAIN F2 /\ DOMAIN F2 = 1 .. Len(F2) /\ Len(F2) \in Nat
  BY <1>1
<1>3. F2[edge + 1] \in Item \X Item /\ F2[edge + 1][1] # F2[edge + 1][2]
  BY <1>1, <1>2
<1>4. /\ x \in Seq(Item) /\ Len(x) = 2 /\ OrderedBy(db, x)
      /\ ToSet(x) = Edge(F2[edge + 1])
  BY <1>3, ReorderEdge
<1> HIDE DEF x
<1>5. /\ {Edge(F2[n]) : n \in DOMAIN F2} = FrequentOfSize(db, support, 2)
      /\ \A m, n \in DOMAIN F2 : Edge(F2[m]) = Edge(F2[n]) => m = n
      /\ Vectors(freq) = {Edge(F2[n]) : n \in 1 .. edge}
  BY DEF HistoryInv, ItemsInv
<1>6. ToSet(x) \in FrequentOfSize(db, support, 2)
  BY <1>2, <1>4, <1>5
<1>7. ToSet(x) \notin Vectors(freq)
  <2> SUFFICES ASSUME NEW n \in 1 .. edge, Edge(F2[n]) = Edge(F2[edge + 1])
               PROVE  FALSE
    BY <1>4, <1>5
  <2>1. n \in DOMAIN F2 /\ n # edge + 1
    BY <1>1, <1>2
  <2> QED
    BY <1>2, <1>5, <2>1
<1>8. Vectors(Insert(freq, x)) = {Edge(F2[n]) : n \in 1 .. edge + 1}
  <2>1. Vectors(Insert(freq, x)) = Vectors(freq) \cup {ToSet(x)}
    BY InsertVectors
  <2>2. \A n : n \in 1 .. edge + 1 <=> n \in 1 .. edge \/ n = edge + 1
    BY <1>1
  <2> QED
    BY <1>4, <1>5, <2>1, <2>2
<1> QED
  BY <1>1, <1>2, <1>4, <1>6, <1>7, <1>8 DEF x

LEMMA InsertPairHistory ==
  ASSUME HistoryInv, InsertPair, Remember
  PROVE  HistoryInv'
<1> USE DEF HistoryInv
<1> DEFINE x == Reorder(F2[edge + 1])
<1>1. /\ pc = "pairs" /\ pc' = "pairs" /\ edge < Len(F2) /\ edge' = edge + 1
      /\ freq' = Insert(freq, x)
      /\ out' = Append(out, Line(x, Support(db, ToSet(x))))
      /\ UNCHANGED <<inputs, k, freq_next>>
  BY DEF InsertPair
<1>2. MinerInv'
  BY InsertPairStep
<1>3. /\ edge + 1 \in DOMAIN F2 /\ edge \in Nat
      /\ x \in Seq(Item) /\ Len(x) = 2 /\ OrderedBy(db, x)
      /\ ToSet(x) \notin Vectors(freq)
      /\ Vectors(Insert(freq, x)) = {Edge(F2[n]) : n \in 1 .. edge + 1}
  BY <1>1, NextEdge
<1> HIDE DEF x
<1>4. ItemsInv'
  <2>1. edge' <= Len(F2') /\ Vectors(freq') = {Edge(F2'[n]) : n \in 1 .. edge'}
    <3>1. Len(F2) \in Nat /\ edge + 1 <= Len(F2) /\ F2' = F2
      BY <1>1, <1>3 DEF MinerInv, TypeOK, inputs
    <3> QED
      BY <1>1, <1>3, <3>1
  <2> QED
    BY <1>1, <2>1 DEF ItemsInv, inputs
<1>5. k = 3 /\ k - 1 = 2 /\ k \in Nat /\ HasDepth(freq, 2) /\ Whole(db, freq, 2)
  <2>1. k = 3
    BY <1>1 DEF MinerInv, TriesInv
  <2>2. k - 1 = 2
    BY <2>1
  <2> QED
    BY <2>1, <2>2 DEF MinerInv, TriesInv, WalkedInv
<1>6. WalkedInv'
  <2>1. Whole(db, freq', 2)
    <3>1. 2 \in Nat \ {0} /\ HasDepth(freq, 2) /\ Whole(db, freq, 2)
      BY <1>5
    <3>2. Whole(db, Insert(freq, x), 2)
      BY <1>3, <3>1, InsertWhole
    <3> QED
      BY <1>1, <3>2
  <2>2. Whole(db', freq', k' - 1) /\ Whole(db', freq_next', k')
    BY <1>1, <1>5, <2>1 DEF WalkedInv, inputs
  <2> QED
    BY <1>1, <2>2 DEF WalkedInv
<1>7. out \in Lines
  BY DEF MinerInv, TypeOK, Lines
<1>8. ASSUME NEW n \in DOMAIN out
      PROVE  Len(out[n].items) <= Len(x) /\ ToSet(out[n].items) # ToSet(x)
  <2> DEFINE s == out[n].items
  <2>1. Len(s) <= 2 /\ (Len(s) = 2 => ToSet(s) \in Vectors(freq))
    BY <1>1 DEF LinesInv
  <2>2. s \in Seq(Item) /\ OrderedBy(db, s)
    <3>1. s \in Seq(Item)
      BY LineItems
    <3> QED
      BY <3>1 DEF LinesInv, LinesOrdered, Greater, OrderedBy
  <2>3. Cardinality(ToSet(s)) = Len(s) /\ Cardinality(ToSet(x)) = 2
    BY <1>3, <2>2, OrderedSize
  <2> QED
    BY <1>3, <2>1, <2>3
<1>9. LinesOrdered'
  BY <1>1, <1>3, <1>7, <1>8, LinesAppended DEF LinesInv, inputs
<1>10. ASSUME NEW n \in DOMAIN out'
       PROVE  LET s == out'[n].items
              IN Len(s) <= 2 /\ (Len(s) = 2 => ToSet(s) \in Vectors(freq'))
  <2> DEFINE s == out'[n].items
  <2>1. Vectors(freq') = Vectors(freq) \cup {ToSet(x)}
    BY <1>1, InsertVectors
  <2>2. n \in DOMAIN out \/ n = Len(out) + 1
    BY <1>1, <1>7 DEF Lines
  <2>3. CASE n \in DOMAIN out
    <3>1. s = out[n].items
      BY <1>1, <1>7, <2>3 DEF Lines
    <3>2. Len(out[n].items) <= 2
          /\ (Len(out[n].items) = 2 => ToSet(out[n].items) \in Vectors(freq))
      BY <1>1, <2>3 DEF LinesInv
    <3> HIDE DEF s
    <3>3. Len(s) <= 2 /\ (Len(s) = 2 => ToSet(s) \in Vectors(freq'))
      BY <2>1, <3>1, <3>2
    <3> QED
      BY <3>3 DEF s
  <2>4. CASE n = Len(out) + 1
    <3>1. s = x
      BY <1>1, <1>7, <2>4 DEF Lines, Line
    <3> HIDE DEF s
    <3>2. Len(s) = 2 /\ ToSet(s) \in Vectors(freq')
      BY <1>3, <2>1, <3>1
    <3>3. Len(s) <= 2
      BY ONLY <3>2
    <3> QED
      BY <3>2, <3>3 DEF s
  <2> QED
    BY <2>2, <2>3, <2>4
<1>11. LinesInv'
  BY <1>1, <1>9, <1>10 DEF LinesInv
<1> QED
  BY <1>2, <1>4, <1>6, <1>11

LEMMA PairsInsertedHistory ==
  ASSUME HistoryInv, PairsInserted, Remember
  PROVE  HistoryInv'
<1> USE DEF HistoryInv
<1>1. pc = "pairs" /\ pc' = "level" /\ UNCHANGED <<inputs, k, freq, freq_next, out>>
  BY DEF PairsInserted
<1>2. MinerInv'
  BY PairsInsertedStep
<1>3. ItemsInv' /\ WalkedInv'
  BY <1>1, ItemsKept, WholeKept
<1>4. LinesInv'
  <2>1. LinesOrdered'
    BY <1>1, LinesKept DEF LinesInv, inputs
  <2>2. k' - 1 = 2
    BY <1>1 DEF MinerInv, TriesInv
  <2> QED
    BY <1>1, <2>1, <2>2 DEF LinesInv
<1> QED
  BY <1>2, <1>3, <1>4

LEMMA StartLevelHistory ==
  ASSUME HistoryInv, StartLevel, Remember
  PROVE  HistoryInv'
<1> USE DEF HistoryInv
<1>1. /\ pc = "level" /\ pc' = "walk" /\ current_string' = << >> /\ iter_stack' = << 1 >>
      /\ UNCHANGED <<inputs, k, freq, freq_next, out>>
  BY DEF StartLevel
<1>2. walked' = {}
  BY <1>1 DEF Remember, Reports
<1>3. MinerInv'
  BY StartLevelStep
<1>4. ItemsInv'
  BY <1>1, ItemsKept
<1>5. k \in Nat /\ k >= 3 /\ k - 1 \in Nat \ {0}
  BY DEF MinerInv, TypeOK
<1>6. WalkedInv'
  <2>1. Passed(freq, << >>, << 1 >>) = {}
    <3> SUFFICES ASSUME NEW p \in freq.ends PROVE p # << >> /\ ~ Behind(freq, << >>, << 1 >>, p)
      BY DEF Passed
    <3>1. p \in Seq(Item) /\ Len(p) = k - 1 /\ freq.kids[<< >>] \in Seq(Item)
      BY DEF MinerInv, TriesInv, HasDepth, IsVector
    <3>2. p # << >>
      BY <1>5, <3>1
    <3> QED
      BY <3>1, <3>2, NoneBehind
  <2>2. iter_stack' # << >> /\ db' = db
    BY <1>1 DEF inputs
  <2> QED
    BY <1>1, <1>2, <2>1, <2>2 DEF WalkedInv
<1>7. LinesInv'
  <2>1. LinesOrdered'
    BY <1>1, LinesKept DEF LinesInv, inputs
  <2>2. Vectors(freq_next') = {}
    BY <1>1 DEF LinesInv, Vectors
  <2>3. \A n \in DOMAIN out : Len(out[n].items) <= k /\ Len(out[n].items) # k
    <3> TAKE n \in DOMAIN out
    <3>1. Len(out[n].items) <= k - 1
      BY <1>1 DEF LinesInv
    <3>2. Len(out[n].items) \in Nat
      BY DEF MinerInv, TypeOK
    <3> QED
      BY <1>5, <3>1, <3>2
  <2> QED
    BY <1>1, <2>1, <2>2, <2>3 DEF LinesInv
<1> QED
  BY <1>3, <1>4, <1>6, <1>7

LEMMA StopHistory ==
  ASSUME HistoryInv, Stop, Remember
  PROVE  HistoryInv'
<1> USE DEF HistoryInv
<1>1. pc = "level" /\ pc' = "done" /\ UNCHANGED <<inputs, k, freq, freq_next, out>>
  BY DEF Stop
<1>2. MinerInv'
  BY StopStep
<1>3. ItemsInv' /\ WalkedInv'
  BY <1>1, ItemsKept, WholeKept
<1>4. LinesInv'
  <2>1. LinesOrdered'
    BY <1>1, LinesKept DEF LinesInv, inputs
  <2> QED
    BY <1>1, <2>1 DEF LinesInv
<1> QED
  BY <1>2, <1>3, <1>4

LEMMA EndLevelHistory ==
  ASSUME HistoryInv, EndLevel, Remember
  PROVE  HistoryInv'
<1> USE DEF HistoryInv
<1>1. /\ pc = "walk" /\ pc' = "level" /\ freq' = freq_next /\ freq_next' = EmptyTrie
      /\ k' = k + 1 /\ UNCHANGED <<inputs, out>>
  BY DEF EndLevel
<1>2. MinerInv'
  BY EndLevelStep
<1>3. ItemsInv'
  BY <1>1, ItemsKept
<1>4. k \in Nat /\ k' \in Nat \ {0} /\ k' - 1 = k
  <2>1. k \in Nat
    BY DEF MinerInv, TypeOK
  <2>2. k' = k + 1
    BY <1>1
  <2> QED
    BY ONLY <2>1, <2>2
<1>5. WalkedInv'
  <2>1. Whole(db, freq_next', k')
    BY <1>1, <1>4, EmptyWhole
  <2> QED
    BY <1>1, <1>4, <2>1 DEF WalkedInv, inputs
<1>6. LinesInv'
  <2>1. LinesOrdered'
    BY <1>1, LinesKept DEF LinesInv, inputs
  <2>2. freq_next'.ends = {}
    BY <1>1 DEF EmptyTrie
  <2> QED
    BY <1>1, <1>4, <2>1, <2>2 DEF LinesInv
<1> QED
  BY <1>2, <1>3, <1>5, <1>6

LEMMA StutterHistory ==
  ASSUME HistoryInv, UNCHANGED <<vars, historyVars>>
  PROVE  HistoryInv'
<1> USE DEF HistoryInv, vars, historyVars
<1>1. MinerInv'
  BY StutterStep
<1>2. ItemsInv'
  BY DEF ItemsInv
<1>3. WalkedInv'
  BY DEF WalkedInv
<1>4. LinesInv'
  BY DEF LinesInv, LinesOrdered, Greater, Pending, Remaining
<1> QED
  BY <1>1, <1>2, <1>3, <1>4

-----------------------------------------------------------------------------
(* The steps of the walk.                                                  *)

\* Where the walk stands, and the trie it walks.
LEMMA PathFacts ==
  ASSUME HistoryInv, pc \in {"walk", "cand"}, iter_stack # << >>
  PROVE  /\ k - 1 \in Nat \ {0} /\ HasDepth(freq, k - 1) /\ Whole(db, freq, k - 1)
         /\ current_string \in Nodes(freq) /\ current_string \in Seq(Item)
         /\ Len(current_string) \in 0 .. k - 1
         /\ iter_stack \in Seq(Nat \ {0}) /\ Len(iter_stack) = Len(current_string) + 1
         /\ OnString(freq, current_string, iter_stack)
         /\ walked = {ToSet(p) : p \in Passed(freq, current_string, iter_stack)}
         /\ \A q \in Nodes(freq) : freq.kids[q] \in Seq(Item)
<1>1. /\ current_string \in Seq(Item) /\ Len(current_string) \in 0 .. k - 1
      /\ iter_stack \in Seq(Nat \ {0}) /\ Len(iter_stack) = Len(current_string) + 1
      /\ current_string \in Nodes(freq) /\ OnString(freq, current_string, iter_stack)
      /\ k \in Nat /\ k >= 3
  BY WalkFacts DEF HistoryInv
<1>2. k - 1 \in Nat \ {0}
  BY <1>1
<1>3. HasDepth(freq, k - 1) /\ Whole(db, freq, k - 1)
  BY DEF HistoryInv, MinerInv, TriesInv, WalkedInv
<1>4. walked = {ToSet(p) : p \in Passed(freq, current_string, iter_stack)}
  BY DEF HistoryInv, WalkedInv
<1>5. \A q \in Nodes(freq) : freq.kids[q] \in Seq(Item)
  BY <1>3 DEF HasDepth
<1> QED
  BY <1>1, <1>2, <1>3, <1>4, <1>5

\* Descending passes the string it reaches, if it reaches one, and no other.
LEMMA DescendMoves ==
  ASSUME HistoryInv, Descend
  PROVE  /\ current_string' \in Nodes(freq) /\ iter_stack' \in Seq(Nat \ {0})
         /\ Len(iter_stack') = Len(current_string') + 1
         /\ OnString(freq, current_string', iter_stack')
         /\ current_string' \notin Passed(freq, current_string, iter_stack)
         /\ Passed(freq, current_string', iter_stack') =
              Passed(freq, current_string, iter_stack)
                \cup (freq.ends \cap {current_string'})
         /\ IF current_string' \in freq.ends
            THEN pc' = "cand" /\ cand' = Last(Front(iter_stack'))
            ELSE pc' = "walk"
<1> DEFINE s == current_string
           iters == iter_stack
           a == Subtries[Last(iters)]
           down == Append(s, a)
           on == Append(iters, 1)
<1>1. /\ pc = "walk" /\ iters # << >> /\ Last(iters) <= Len(Subtries)
      /\ current_string' = down /\ iter_stack' = on /\ Visit /\ freq' = freq
  BY DEF Descend
<1>2. /\ k - 1 \in Nat \ {0} /\ HasDepth(freq, k - 1) /\ Whole(db, freq, k - 1)
      /\ s \in Nodes(freq) /\ s \in Seq(Item)
      /\ iters \in Seq(Nat \ {0}) /\ Len(iters) = Len(s) + 1
      /\ \A q \in Nodes(freq) : freq.kids[q] \in Seq(Item)
  BY <1>1, PathFacts
<1>3. IF current_string' \in freq.ends
      THEN pc' = "cand" /\ cand' = Last(Front(iter_stack'))
      ELSE pc' = "walk"
  BY <1>1 DEF Visit
<1>4. a \in Item /\ down \in Nodes(freq)
  <2>1. Subtries \in Seq(Item) /\ Last(iters) \in Nat \ {0}
    BY <1>1, WalkFacts DEF HistoryInv
  <2>2. Last(iters) \in DOMAIN Subtries
    BY <1>1, <2>1
  <2> QED
    BY <1>2, <2>1, <2>2 DEF Subtries, HasDepth
<1>5. iter_stack' # << >> /\ pc' \in {"walk", "cand"}
  <2>1. on # << >>
    BY <1>2
  <2> QED
    BY <1>1, <1>3, <2>1
<1>6. /\ Len(on) = Len(down) + 1 /\ OnString(freq, down, on) /\ on \in Seq(Nat \ {0})
  <2>1. MinerInv'
    BY DescendStep DEF HistoryInv
  <2>2. /\ Len(iter_stack') = Len(current_string') + 1
        /\ OnString(freq', current_string', iter_stack')
    BY <1>5, <2>1 DEF MinerInv, StacksInv
  <2>3. iter_stack' \in Seq(Nat \ {0})
    BY <2>1 DEF MinerInv, TypeOK
  <2> QED
    BY <1>1, <2>2, <2>3
<1> HIDE DEF a, on
<1>7. down \in Seq(Item) /\ Len(down) = Len(s) + 1
  BY <1>2, <1>4, FrontAppend
<1>8. s \notin freq.ends
  <2>1. Len(down) <= k - 1 /\ \A p \in freq.ends : Len(p) = k - 1
    BY <1>2, <1>4 DEF HasDepth
  <2>2. Len(s) \in Nat
    BY <1>2
  <2> QED
    BY <1>2, <1>7, <2>1, <2>2
<1>9. ASSUME NEW p \in freq.ends
      PROVE  Behind(freq, down, on, p) <=> Behind(freq, s, iters, p)
  <2>1. p \in Seq(Item)
    BY <1>2 DEF HasDepth, IsVector
  <2> QED
    BY <1>2, <1>4, <2>1, BehindDown DEF on
<1> HIDE DEF down
<1>10. ~ Behind(freq, down, on, down)
  <2>1. k - 1 \in Nat
    BY <1>2
  <2> QED
    BY <1>2, <1>4, <1>6, <2>1, StandsOn
<1>11. /\ Passed(freq, down, on) = Passed(freq, s, iters) \cup (freq.ends \cap {down})
       /\ down \notin Passed(freq, s, iters)
  <2>1. \A p : p \in Passed(freq, down, on)
                 <=> p \in freq.ends /\ (p = down \/ Behind(freq, down, on, p))
    BY DEF Passed
  <2>2. \A p : p \in Passed(freq, s, iters)
                 <=> p \in freq.ends /\ (p = s \/ Behind(freq, s, iters, p))
    BY DEF Passed
  <2> HIDE DEF s, iters
  <2>3. \A p : p \in Passed(freq, down, on)
                 <=> p \in Passed(freq, s, iters) \/ (p \in freq.ends /\ p = down)
    BY <1>8, <1>9, <2>1, <2>2
  <2>4. down \notin Passed(freq, s, iters)
    BY <1>8, <1>9, <1>10, <2>2
  <2> QED
    BY <2>3, <2>4
<1> QED
  BY <1>1, <1>3, <1>4, <1>6, <1>11

\* Going back passes nothing more; when the stacks are emptied all is passed.
LEMMA BacktrackMoves ==
  ASSUME HistoryInv, Backtrack
  PROVE  /\ pc = "walk" /\ pc' = "walk" /\ iter_stack # << >>
         /\ UNCHANGED <<inputs, k, freq, freq_next, out>>
         /\ IF iter_stack' = << >>
            THEN Passed(freq, current_string, iter_stack) = freq.ends
            ELSE Passed(freq, current_string', iter_stack') =
                   Passed(freq, current_string, iter_stack)
<1> DEFINE s == current_string
           iters == iter_stack
           up == Front(s)
           back == [Front(iters) EXCEPT ![Len(iters) - 1] = @ + 1]
<1>1. /\ pc = "walk" /\ iters # << >> /\ Last(iters) > Len(freq.kids[s]) /\ s # << >>
      /\ current_string' = up /\ freq' = freq
      /\ \/ /\ up = << >> /\ Last(back) > Len(freq.kids[up])
            /\ iter_stack' = << >> /\ UNCHANGED <<pc, cand>>
         \/ iter_stack' = back /\ Visit
      /\ UNCHANGED <<inputs, k, freq_next, out>>
  BY DEF Backtrack, Subtries
<1>2. /\ k - 1 \in Nat \ {0} /\ HasDepth(freq, k - 1) /\ Whole(db, freq, k - 1)
      /\ s \in Nodes(freq) /\ s \in Seq(Item) /\ Len(s) \in 0 .. k - 1
      /\ iters \in Seq(Nat \ {0}) /\ Len(iters) = Len(s) + 1
      /\ OnString(freq, s, iters)
  BY <1>1, PathFacts
<1>3. up \notin freq.ends
  <2>1. Len(up) = Len(s) - 1 /\ Len(s) \in Nat \ {0}
    BY <1>1, <1>2, FrontType
  <2>2. \A p \in freq.ends : Len(p) = k - 1
    BY <1>2 DEF HasDepth
  <2> HIDE DEF up, s
  <2>3. Len(up) # k - 1
    BY <1>2, <2>1
  <2> QED
    BY <2>2, <2>3
<1>4. ASSUME NEW p \in freq.ends
      PROVE  Behind(freq, up, back, p) <=> p = s \/ Behind(freq, s, iters, p)
  <2>1. k - 1 \in Nat /\ p \in Nodes(freq)
    BY <1>2 DEF HasDepth
  <2> QED
    BY <1>1, <1>2, <2>1, BehindUp
<1>5. Len(back) = Len(s) /\ back[Len(s)] \in Nat
  <2> DEFINE I == Front(iters)
             m == Len(s)
  <2>1. /\ Len(iters) - 1 = m /\ m \in Nat \ {0} /\ iters # << >>
    BY <1>1, <1>2, FrontType
  <2>2. I \in Seq(Nat \ {0}) /\ Len(I) = m
    BY <1>2, <2>1, FrontType
  <2>3. back = [I EXCEPT ![m] = @ + 1]
    BY <2>1
  <2> HIDE DEF I, m, back
  <2>4. m \in DOMAIN I /\ DOMAIN I = 1 .. m /\ I[m] \in Nat
    BY <2>1, <2>2
  <2>5. back \in Seq(Nat \ {0}) /\ DOMAIN back = 1 .. m
    BY <2>1, <2>2, <2>3, <2>4
  <2>6. Len(back) = m /\ back[m] = I[m] + 1
    BY <2>1, <2>3, <2>4, <2>5
  <2> QED
    BY <2>4, <2>6 DEF m
<1> HIDE DEF s, iters, up, back
<1>6. Passed(freq, up, back) = Passed(freq, s, iters)
  <2>1. \A p : p \in Passed(freq, up, back)
                 <=> p \in freq.ends /\ (p = up \/ Behind(freq, up, back, p))
    BY DEF Passed
  <2>2. \A p : p \in Passed(freq, s, iters)
                 <=> p \in freq.ends /\ (p = s \/ Behind(freq, s, iters, p))
    BY DEF Passed
  <2> QED
    BY <1>3, <1>4, <2>1, <2>2
<1>7. CASE /\ up = << >> /\ Last(back) > Len(freq.kids[up])
           /\ iter_stack' = << >> /\ UNCHANGED <<pc, cand>>
  <2>1. Len(s) = 1
    <3>1. Len(up) = Len(s) - 1 /\ Len(s) \in Nat
      BY <1>1, <1>2, FrontType DEF up
    <3> QED
      BY <1>7, <3>1
  <2>2. Len(back) = 1 /\ back[1] \in Nat /\ Last(back) = back[1]
    BY <1>5, <2>1 DEF Last
  <2>3. \A p \in freq.ends : Behind(freq, << >>, back, p)
    BY <1>2, <1>7, <2>2, AllBehind
  <2>4. Passed(freq, s, iters) = freq.ends
    BY <1>6, <1>7, <2>3 DEF Passed
  <2> QED
    BY <1>1, <1>7, <2>4 DEF s, iters
<1>8. CASE iter_stack' = back /\ Visit
  <2>1. back # << >>
    <3>1. Len(back) # 0
      BY <1>1, <1>2, <1>5, FrontType
    <3> QED
      BY <3>1
  <2>2. pc' = "walk"
    BY <1>1, <1>3, <1>8 DEF Visit
  <2> QED
    BY <1>1, <1>6, <1>8, <2>1, <2>2 DEF s, iters
<1> QED
  BY <1>1, <1>7, <1>8

\* Reaching a string starts its candidate walk on the siblings not passed.
LEMMA DescendReports ==
  ASSUME HistoryInv, Descend, Remember
  PROVE  /\ pc = "walk" /\ iter_stack # << >>
         /\ UNCHANGED <<inputs, k, freq, freq_next, out>>
         /\ walked' = {ToSet(p) : p \in Passed(freq, current_string', iter_stack')}
         /\ \/ /\ pc' = "walk" /\ UNCHANGED <<walked, last>>
            \/ /\ pc' = "cand" /\ last' = ToSet(current_string')
               /\ last' \in Vectors(freq) \ walked /\ walked' = walked \cup {last'}
               /\ Remaining' = {y \in Vectors(freq) \ walked' : Siblings(db, last', y)}
               /\ cand' = Last(Front(iter_stack')) /\ cand' \in Nat
<1> DEFINE s == current_string'
           iters == iter_stack'
           n == k - 1
           Reached == Passed(freq, current_string, iter_stack)
<1>1. /\ pc = "walk" /\ iter_stack # << >>
      /\ UNCHANGED <<inputs, k, freq, freq_next, out>>
  BY DEF Descend
<1>2. /\ s \in Nodes(freq) /\ iters \in Seq(Nat \ {0})
      /\ Len(iters) = Len(s) + 1 /\ OnString(freq, s, iters)
      /\ s \notin Reached
      /\ Passed(freq, s, iters) = Reached \cup (freq.ends \cap {s})
      /\ IF s \in freq.ends THEN pc' = "cand" /\ cand' = Last(Front(iters)) ELSE pc' = "walk"
  BY DescendMoves
<1>3. /\ n \in Nat \ {0} /\ HasDepth(freq, n) /\ Whole(db, freq, n)
      /\ walked = {ToSet(p) : p \in Reached}
  BY <1>1, PathFacts
<1>4. Reached \subseteq freq.ends
  BY DEF Passed
<1>5. freq' = freq /\ Remaining' = IF pc' = "cand" THEN Rest(freq, s, cand') ELSE {}
  BY <1>1 DEF Remaining
<1> HIDE DEF s, iters, n, Reached
<1>6. CASE s \in freq.ends
  <2>1. pc' = "cand" /\ cand' = Last(Front(iters)) /\ Len(s) = n
    BY <1>2, <1>3, <1>6 DEF HasDepth
  <2>2. last' = ToSet(s) /\ walked' = walked \cup {last'}
    BY <1>1, <2>1 DEF Remember, Reports, s
  <2>3. walked' = {ToSet(p) : p \in Passed(freq, s, iters)}
    BY <1>2, <1>3, <1>6, <2>2
  <2>4. last' \in Vectors(freq)
    BY <1>6, <2>2 DEF Vectors
  <2>5. last' \notin walked
    <3>1. \A e, f \in freq.ends : ToSet(e) = ToSet(f) => e = f
      BY <1>3, EndVectors
    <3> QED
      BY <1>2, <1>3, <1>4, <1>6, <2>2, <3>1
  <2>6. Len(iters) = n + 1
    BY <1>2, <2>1
  <2>7. cand' = iters[n] /\ cand' \in Nat
    <3>1. iters[n] = Last(Front(iters))
      BY <1>2, <1>3, <1>6, <2>6, SiblingEnds
    <3>2. n \in DOMAIN iters
      BY <1>2, <1>3, <2>6
    <3> QED
      BY <1>2, <2>1, <3>1, <3>2
  <2>8. Rest(freq, s, iters[n]) =
          {y \in Vectors(freq) \ {ToSet(p) : p \in Passed(freq, s, iters)} :
             Siblings(db, ToSet(s), y)}
    <3>1. OnString(freq, s, iters) /\ iters \in Seq(Nat \ {0})
      BY <1>2
    <3> QED
      BY <1>3, <1>6, <2>6, <3>1, RestExact, SMTT(20)
  <2>9. Remaining' = {y \in Vectors(freq) \ walked' : Siblings(db, last', y)}
    BY <1>5, <2>1, <2>2, <2>3, <2>7, <2>8
  <2> QED
    BY <1>1, <2>1, <2>2, <2>3, <2>4, <2>5, <2>7, <2>9 DEF s, iters
<1>7. CASE s \notin freq.ends
  <2>1. pc' = "walk"
    BY <1>2, <1>7
  <2>2. walked' = walked /\ last' = last
    BY <1>1, <2>1 DEF Remember, Reports
  <2>3. walked' = {ToSet(p) : p \in Passed(freq, s, iters)}
    BY <1>2, <1>3, <1>7, <2>2
  <2> QED
    BY <1>1, <2>1, <2>2, <2>3 DEF s, iters
<1> QED
  BY <1>6, <1>7

\* What is joined stays joined while the walk moves on.
LEMMA LinesWalked ==
  ASSUME HistoryInv, pc \in {"walk", "cand"}, pc' \in {"walk", "cand"},
         UNCHANGED <<inputs, k, freq, freq_next, out>>,
         \A x, y \in Vectors(freq) : Pending(x, y)' => Pending(x, y)
  PROVE  LinesInv'
<1>1. LinesOrdered'
  BY LinesKept DEF HistoryInv, LinesInv, inputs
<1>2. /\ \A n \in DOMAIN out : Len(out[n].items) <= k
           /\ (Len(out[n].items) = k => ToSet(out[n].items) \in Vectors(freq_next))
      /\ \A X \in Vectors(freq_next) : \E x, y \in Vectors(freq) :
           Siblings(db, x, y) /\ X = x \cup y /\ ~ Pending(x, y)
  BY DEF HistoryInv, LinesInv
<1>3. \A X \in Vectors(freq_next) : \E x, y \in Vectors(freq) :
        Siblings(db, x, y) /\ X = x \cup y /\ ~ Pending(x, y)'
  BY <1>2
<1> QED
  BY <1>1, <1>2, <1>3 DEF LinesInv, inputs

LEMMA DescendHistory ==
  ASSUME HistoryInv, Descend, Remember
  PROVE  HistoryInv'
<1>1. /\ pc = "walk" /\ iter_stack # << >>
      /\ UNCHANGED <<inputs, k, freq, freq_next, out>>
      /\ walked' = {ToSet(p) : p \in Passed(freq, current_string', iter_stack')}
      /\ \/ /\ pc' = "walk" /\ UNCHANGED <<walked, last>>
         \/ /\ pc' = "cand" /\ last' = ToSet(current_string')
            /\ last' \in Vectors(freq) \ walked /\ walked' = walked \cup {last'}
            /\ Remaining' = {y \in Vectors(freq) \ walked' : Siblings(db, last', y)}
            /\ cand' = Last(Front(iter_stack')) /\ cand' \in Nat
  BY DescendReports
<1>2. MinerInv'
  BY DescendStep DEF HistoryInv
<1>3. ItemsInv'
  BY <1>1, ItemsKept DEF HistoryInv
<1>4. WalkedInv'
  <2>1. iter_stack' # << >>
    BY DEF Descend
  <2>2. Whole(db', freq', k' - 1) /\ Whole(db', freq_next', k')
    BY <1>1 DEF HistoryInv, WalkedInv, inputs
  <2>3. pc' = "cand" => /\ last' = ToSet(current_string')
                        /\ Last(Front(iter_stack')) <= cand'
    BY <1>1
  <2>4. walked' = {ToSet(p) : p \in Passed(freq', current_string', iter_stack')}
    BY <1>1
  <2> QED
    BY <2>1, <2>2, <2>3, <2>4 DEF WalkedInv
<1>5. LinesInv'
  <2>1. ASSUME NEW x, NEW y, Pending(x, y)' PROVE Pending(x, y)
    <3>1. \/ x \notin walked' /\ y \notin walked'
          \/ x = last' /\ y \in Remaining'
          \/ y = last' /\ x \in Remaining'
      BY <2>1 DEF Pending
    <3>2. walked \subseteq walked'
      BY <1>1
    <3>3. CASE pc' = "walk"
      <4>1. Remaining' = {}
        BY <3>3 DEF Remaining
      <4> QED
        BY <3>1, <3>2, <4>1 DEF Pending
    <3>4. CASE pc' = "cand"
      <4>1. last' \notin walked /\ Remaining' \cap walked' = {}
        BY <1>1, <3>4
      <4> QED
        BY <3>1, <3>2, <4>1 DEF Pending
    <3> QED
      BY <1>1, <3>3, <3>4
  <2> QED
    BY <1>1, <2>1, LinesWalked
<1> QED
  BY <1>2, <1>3, <1>4, <1>5 DEF HistoryInv

LEMMA BacktrackHistory ==
  ASSUME HistoryInv, Backtrack, Remember
  PROVE  HistoryInv'
<1>1. /\ pc = "walk" /\ pc' = "walk" /\ iter_stack # << >>
      /\ UNCHANGED <<inputs, k, freq, freq_next, out>>
      /\ IF iter_stack' = << >>
         THEN Passed(freq, current_string, iter_stack) = freq.ends
         ELSE Passed(freq, current_string', iter_stack') =
                Passed(freq, current_string, iter_stack)
  BY BacktrackMoves
<1>2. walked' = walked /\ last' = last
  BY <1>1 DEF Remember, Reports
<1>3. MinerInv'
  BY BacktrackStep DEF HistoryInv
<1>4. ItemsInv'
  BY <1>1, ItemsKept DEF HistoryInv
<1>5. WalkedInv'
  <2>1. walked = {ToSet(p) : p \in Passed(freq, current_string, iter_stack)}
    BY <1>1 DEF HistoryInv, WalkedInv
  <2>2. Whole(db', freq', k' - 1) /\ Whole(db', freq_next', k')
    BY <1>1 DEF HistoryInv, WalkedInv, inputs
  <2>3. walked' = IF iter_stack' = << >> THEN Vectors(freq')
                  ELSE {ToSet(p) : p \in Passed(freq', current_string', iter_stack')}
    BY <1>1, <1>2, <2>1 DEF Vectors
  <2> QED
    BY <1>1, <2>2, <2>3 DEF WalkedInv
<1>6. LinesInv'
  <2>1. Remaining = {} /\ Remaining' = {}
    BY <1>1 DEF Remaining
  <2>2. \A x, y \in Vectors(freq) : Pending(x, y)' => Pending(x, y)
    BY <1>2, <2>1 DEF Pending
  <2> QED
    BY <1>1, <2>2, LinesWalked
<1> QED
  BY <1>3, <1>4, <1>5, <1>6 DEF HistoryInv

LEMMA CandidatesOverHistory ==
  ASSUME HistoryInv, CandidatesOver, Remember
  PROVE  HistoryInv'
<1>1. /\ pc = "cand" /\ pc' = "walk" /\ cand >= Len(SiblingList)
      /\ UNCHANGED <<inputs, edge, k, freq, freq_next, walk, cand, out>>
  BY DEF CandidatesOver
<1>2. walked' = walked /\ last' = last
  BY <1>1 DEF Remember, Reports
<1>3. MinerInv'
  BY CandidatesOverStep DEF HistoryInv
<1>4. ItemsInv'
  BY <1>1, ItemsKept DEF HistoryInv
<1>5. WalkedInv'
  BY <1>1, <1>2 DEF HistoryInv, WalkedInv, inputs, walk
<1>6. LinesInv'
  <2>1. Remaining' = {}
    BY <1>1 DEF Remaining
  <2>2. \A x, y \in Vectors(freq) : Pending(x, y)' => Pending(x, y)
    BY <1>2, <2>1 DEF Pending
  <2>3. UNCHANGED <<inputs, k, freq, freq_next, out>>
    BY <1>1
  <2> QED
    BY <1>1, <2>2, <2>3, LinesWalked
<1> QED
  BY <1>3, <1>4, <1>5, <1>6 DEF HistoryInv

\* A turn of the candidate walk joins the string with one more sibling: what
\* it tries and counts is their union, which it has not tried before.
LEMMA TryCandidateJoins ==
  ASSUME HistoryInv, TryCandidate
  PROVE  LET s == current_string
             diff == SiblingList[cand + 1]
             y == ToSet(Append(Front(s), diff))
             c == MergeItem(s, diff)
         IN /\ s \in freq.ends /\ last = ToSet(s) /\ last \in walked /\ diff \in Item
            /\ y \in Remaining /\ Remaining' = Remaining \ {y}
            /\ y \in Vectors(freq) /\ last \in Vectors(freq) /\ Siblings(db, last, y)
            /\ LastItem(db, y) = diff
            /\ c \in Seq(Item) /\ Len(c) = k /\ OrderedBy(db, c)
            /\ ToSet(c) = last \cup {diff} /\ ToSet(c) = last \cup y
            /\ ToSet(c) \notin Vectors(freq_next)
            /\ CheckSupports(freq, c) <=> \A i \in ToSet(c) : ToSet(c) \ {i} \in Vectors(freq)
            /\ tidlist_cache[Len(s)] = Tidset(db, last)
            /\ Support(db, ToSet(c)) =
                 Cardinality(tidlist_cache[Len(s)] \cap Tidset(db, {diff}))
<1> DEFINE n == k - 1
           s == current_string
           iters == iter_stack
           list == SiblingList
           diff == list[cand + 1]
           y == ToSet(Append(Front(s), diff))
           c == MergeItem(s, diff)
<1>1. /\ pc = "cand" /\ cand < Len(list) /\ cand' = cand + 1 /\ pc' = "cand"
      /\ current_string' = s /\ freq' = freq
  BY DEF TryCandidate, walk
<1>2. iters # << >> /\ s \in freq.ends /\ cand \in Nat
  BY <1>1 DEF HistoryInv, MinerInv, StacksInv, TypeOK
<1>3. /\ n \in Nat \ {0} /\ HasDepth(freq, n) /\ Whole(db, freq, n)
      /\ s \in Seq(Item) /\ iters \in Seq(Nat \ {0}) /\ Len(iters) = Len(s) + 1
      /\ OnString(freq, s, iters)
      /\ walked = {ToSet(p) : p \in Passed(freq, s, iters)}
  BY <1>1, <1>2, PathFacts
<1>4. last = ToSet(s) /\ Last(Front(iters)) <= cand
  BY <1>1 DEF HistoryInv, WalkedInv
<1>5. k \in Nat /\ n + 1 = k
  BY DEF HistoryInv, MinerInv, TypeOK
<1>6. list = freq.kids[Front(s)]
  BY DEF SiblingList
<1>7. Remaining = Rest(freq, s, cand) /\ Remaining' = Rest(freq, s, cand + 1)
  BY <1>1 DEF Remaining
<1> HIDE DEF n, s, iters, list
<1>8. Len(s) = n /\ s # << >> /\ OrderedBy(db, s) /\ ToSet(s) \in Itemset
  BY <1>2, <1>3, EndVectors
<1>9. Len(iters) = n + 1
  BY <1>3, <1>8
<1>10. iters[n] <= cand
  <2>1. iters[n] = Last(Front(iters))
    BY <1>2, <1>3, <1>9, SiblingEnds
  <2> QED
    BY <1>4, <2>1
<1>11. /\ diff \in Item /\ diff \notin ToSet(s)
       /\ y \in Rest(freq, s, cand) /\ Rest(freq, s, cand + 1) = Rest(freq, s, cand) \ {y}
       /\ y \in Vectors(freq) /\ Siblings(db, ToSet(s), y)
       /\ LastItem(db, y) = diff /\ y \cup ToSet(s) = ToSet(s) \cup {diff}
  BY <1>1, <1>2, <1>3, <1>6, <1>9, <1>10, RestNext
<1> HIDE DEF diff
<1>12. ToSet(s) \in Vectors(freq) /\ ToSet(s) \in walked
  BY <1>2, <1>3 DEF Vectors, Passed
<1>13. c \in Seq(Item) /\ Len(c) = k
  <2>1. MergeItem(s, diff) \in Seq(Item) /\ Len(MergeItem(s, diff)) = Len(s) + 1
    BY <1>3, <1>11, MergeType
  <2> QED
    BY <1>5, <1>8, <2>1
<1>14. OrderedBy(db, c) /\ ToSet(c) = ToSet(s) \cup {diff}
  BY <1>3, <1>8, <1>11, OrderedMerge
<1> HIDE DEF c, y
<1>15. ToSet(c) = ToSet(s) \cup y
  BY <1>11, <1>14
<1>16. ToSet(c) \notin Vectors(freq_next)
  <2> SUFFICES ASSUME ToSet(c) \in Vectors(freq_next) PROVE FALSE
    OBVIOUS
  <2>1. PICK u, v \in Vectors(freq) :
          Siblings(db, u, v) /\ ToSet(c) = u \cup v /\ ~ Pending(u, v)
    BY <1>1 DEF HistoryInv, LinesInv
  <2>2. u \in Itemset /\ v \in Itemset /\ y \in Itemset
    BY <1>3, <1>11, <2>1, EndVectors
  <2>3. (u = ToSet(s) /\ v = y) \/ (u = y /\ v = ToSet(s))
    BY <1>8, <1>11, <1>15, <2>1, <2>2, CandidateUnique
  <2> QED
    BY <1>4, <1>7, <1>11, <2>1, <2>3 DEF Pending
<1>17. CheckSupports(freq, c) <=> \A i \in ToSet(c) : ToSet(c) \ {i} \in Vectors(freq)
  <2>1. n \in Nat
    BY <1>3
  <2> QED
    BY <1>3, <1>13, <1>14, <2>1, CheckSupportsSets
<1>18. tidlist_cache[Len(s)] = Tidset(db, ToSet(s))
  <2>1. Len(s) \in DOMAIN s /\ SubSeq(s, 1, Len(s)) = s
    BY <1>3, <1>8, SubSeqFull
  <2>2. \A d \in DOMAIN s : tidlist_cache[d] = Tidset(db, ToSet(SubSeq(s, 1, d)))
    BY <1>1 DEF HistoryInv, MinerInv, CacheExact, s
  <2> QED
    BY <2>1, <2>2
<1>19. Support(db, ToSet(c)) = Cardinality(tidlist_cache[Len(s)] \cap Tidset(db, {diff}))
  <2>1. Tidset(db, ToSet(s) \cup {diff}) = Tidset(db, ToSet(s)) \cap Tidset(db, {diff})
    BY TidsetUnion
  <2> QED
    BY <1>14, <1>18, <2>1 DEF Support
<1> QED
  BY <1>2, <1>4, <1>7, <1>11, <1>12, <1>13, <1>14, <1>15, <1>16, <1>17, <1>18, <1>19
     DEF s, list, diff, y, c

LEMMA TryCandidateHistory ==
  ASSUME HistoryInv, TryCandidate, Remember
  PROVE  HistoryInv'
<1> DEFINE s == current_string
           diff == SiblingList[cand + 1]
           y == ToSet(Append(Front(s), diff))
           c == MergeItem(s, diff)
           m == Cardinality(tidlist_cache[Len(s)] \cap Tidset(db, {diff}))
<1>1. /\ pc = "cand" /\ pc' = "cand" /\ cand' = cand + 1
      /\ \/ freq_next' = Insert(freq_next, c) /\ out' = Append(out, Line(c, m))
         \/ UNCHANGED <<freq_next, out>>
      /\ UNCHANGED <<inputs, edge, k, freq, walk>>
  BY DEF TryCandidate
<1>2. walked' = walked /\ last' = last
  BY <1>1 DEF Remember, Reports
<1>3. /\ last \in walked
      /\ y \in Remaining /\ Remaining' = Remaining \ {y}
      /\ y \in Vectors(freq) /\ last \in Vectors(freq) /\ Siblings(db, last, y)
      /\ c \in Seq(Item) /\ Len(c) = k /\ OrderedBy(db, c)
      /\ ToSet(c) = last \cup y /\ ToSet(c) \notin Vectors(freq_next)
  BY TryCandidateJoins
<1> HIDE DEF s, diff, y, c, m
<1>4. MinerInv'
  BY TryCandidateStep DEF HistoryInv
<1>5. ItemsInv'
  BY <1>1, ItemsKept DEF HistoryInv
<1>6. k \in Nat \ {0} /\ cand \in Nat /\ HasDepth(freq_next, k) /\ Whole(db, freq_next, k)
  BY DEF HistoryInv, MinerInv, TypeOK, TriesInv, WalkedInv
<1>7. WalkedInv'
  <2>1. Whole(db, freq_next', k)
    <3>1. Whole(db, Insert(freq_next, c), k)
      BY <1>3, <1>6, InsertWhole
    <3> QED
      BY <1>1, <1>6, <3>1
  <2>2. Last(Front(iter_stack)) <= cand + 1
    <3> DEFINE a == Last(Front(iter_stack))
    <3>1. a <= cand
      BY <1>1 DEF HistoryInv, WalkedInv
    <3>2. a \in Nat
      <4>1. iter_stack # << >> /\ current_string \in freq.ends
        BY <1>1 DEF HistoryInv, MinerInv, StacksInv
      <4>2. /\ k - 1 \in Nat \ {0} /\ HasDepth(freq, k - 1)
            /\ iter_stack \in Seq(Nat \ {0})
            /\ Len(iter_stack) = Len(current_string) + 1
        BY <1>1, <4>1, PathFacts
      <4>3. Len(current_string) = k - 1
        BY <4>1, <4>2 DEF HasDepth
      <4>4. /\ Front(iter_stack) \in Seq(Nat \ {0})
            /\ Len(Front(iter_stack)) = Len(iter_stack) - 1
        BY <4>1, <4>2, FrontType
      <4> DEFINE I == Front(iter_stack)
      <4>5. I \in Seq(Nat \ {0}) /\ Len(I) \in Nat \ {0}
        <5>1. Len(iter_stack) - 1 = k - 1
          BY <1>6, <4>2, <4>3
        <5> QED
          BY <4>2, <4>4, <5>1
      <4> HIDE DEF I
      <4>6. Last(I) \in Nat
        BY <4>5 DEF Last
      <4> QED
        BY <4>6 DEF I
    <3> HIDE DEF a
    <3>3. a <= cand + 1
      BY <1>6, <3>1, <3>2
    <3> QED
      BY <3>3 DEF a
  <2> QED
    BY <1>1, <1>2, <2>1, <2>2 DEF HistoryInv, WalkedInv, inputs, walk
<1>8. /\ \A n \in DOMAIN out : LET l == out[n].items IN
           Len(l) <= k /\ (Len(l) = k => ToSet(l) \in Vectors(freq_next))
      /\ \A X \in Vectors(freq_next) : \E u, v \in Vectors(freq) :
           Siblings(db, u, v) /\ X = u \cup v /\ ~ Pending(u, v)
  BY <1>1 DEF HistoryInv, LinesInv
<1>9. ASSUME NEW u, NEW v, Pending(u, v)' PROVE Pending(u, v)
  BY <1>2, <1>3, <1>9 DEF Pending
<1>10. ASSUME NEW u, NEW v, u = last, v = y PROVE ~ Pending(u, v)'
  <2>1. last # y
    <3>1. last \in Itemset /\ y \in Itemset
      <4>1. k - 1 \in Nat \ {0} /\ HasDepth(freq, k - 1) /\ Whole(db, freq, k - 1)
        <5>1. iter_stack # << >>
          BY <1>1 DEF HistoryInv, MinerInv, StacksInv
        <5> QED
          BY <1>1, <5>1, PathFacts
      <4> QED
        BY <1>3, <4>1, EndVectors
    <3> QED
      BY <1>3, <3>1, SiblingsJoin
  <2> QED
    BY <1>2, <1>3, <1>10, <2>1 DEF Pending
<1>11. CASE freq_next' = Insert(freq_next, c) /\ out' = Append(out, Line(c, m))
  <2>1. Vectors(freq_next') = Vectors(freq_next) \cup {ToSet(c)}
    BY <1>11, InsertVectors
  <2>2. out \in Lines
    BY DEF HistoryInv, MinerInv, TypeOK, Lines
  <2>3. ASSUME NEW n \in DOMAIN out
        PROVE  Len(out[n].items) <= Len(c) /\ ToSet(out[n].items) # ToSet(c)
    <3> DEFINE l == out[n].items
    <3>1. Len(l) <= k /\ (Len(l) = k => ToSet(l) \in Vectors(freq_next))
      BY <1>8
    <3>2. l \in Seq(Item) /\ OrderedBy(db, l)
      <4>1. l \in Seq(Item)
        BY LineItems DEF HistoryInv
      <4> QED
        BY <4>1 DEF HistoryInv, LinesInv, LinesOrdered, Greater, OrderedBy
    <3> HIDE DEF l
    <3>3. Cardinality(ToSet(l)) = Len(l) /\ Cardinality(ToSet(c)) = k
      BY <1>3, <3>2, OrderedSize
    <3> QED
      BY <1>3, <3>1, <3>3 DEF l
  <2>4. LinesOrdered'
    <3>1. LinesOrdered /\ db' = db
      BY <1>1 DEF HistoryInv, LinesInv, inputs
    <3> QED
      BY <1>3, <1>11, <2>2, <2>3, <3>1, LinesAppended
  <2>5. ASSUME NEW n \in DOMAIN out'
        PROVE  LET l == out'[n].items IN
               Len(l) <= k /\ (Len(l) = k => ToSet(l) \in Vectors(freq_next'))
    <3> DEFINE l == out'[n].items
    <3>1. n \in DOMAIN out \/ n = Len(out) + 1
      BY <1>11, <2>2 DEF Lines
    <3>2. CASE n \in DOMAIN out
      <4>1. l = out[n].items
        BY <1>11, <2>2, <3>2 DEF Lines
      <4>2. /\ Len(out[n].items) <= k
            /\ Len(out[n].items) = k => ToSet(out[n].items) \in Vectors(freq_next)
        BY <1>8, <3>2
      <4> HIDE DEF l
      <4>3. Len(l) <= k /\ (Len(l) = k => ToSet(l) \in Vectors(freq_next'))
        BY <2>1, <4>1, <4>2
      <4> QED
        BY <4>3 DEF l
    <3>3. CASE n = Len(out) + 1
      <4>1. l = c
        BY <1>11, <2>2, <3>3 DEF Lines, Line
      <4> HIDE DEF l
      <4>2. Len(l) = k /\ ToSet(l) \in Vectors(freq_next')
        BY <1>3, <2>1, <4>1
      <4>3. Len(l) <= k
        BY <1>6, <4>2
      <4> QED
        BY <4>2, <4>3 DEF l
    <3> QED
      BY <3>1, <3>2, <3>3
  <2>6. \A X \in Vectors(freq_next') : \E u, v \in Vectors(freq) :
          Siblings(db, u, v) /\ X = u \cup v /\ ~ Pending(u, v)'
    <3> TAKE X \in Vectors(freq_next')
    <3>1. CASE X \in Vectors(freq_next)
      BY <1>8, <1>9, <3>1
    <3>2. CASE X = ToSet(c)
      <4>1. PICK u, v \in Vectors(freq) : u = last /\ v = y
        BY <1>3
      <4>2. Siblings(db, u, v) /\ X = u \cup v /\ ~ Pending(u, v)'
        BY <1>3, <1>10, <3>2, <4>1
      <4> QED
        BY <4>2
    <3> QED
      BY <2>1, <3>1, <3>2
  <2>7. LinesInv'
    BY <1>1, <2>4, <2>5, <2>6 DEF LinesInv, inputs
  <2> QED
    BY <1>4, <1>5, <1>7, <2>7 DEF HistoryInv
<1>12. CASE UNCHANGED <<freq_next, out>>
  <2>1. \A u, v \in Vectors(freq) : Pending(u, v)' => Pending(u, v)
    BY <1>9
  <2>2. UNCHANGED <<inputs, k, freq, freq_next, out>>
    BY <1>1, <1>12
  <2>3. LinesInv'
    BY <1>1, <2>1, <2>2, LinesWalked
  <2> QED
    BY <1>4, <1>5, <1>7, <2>3 DEF HistoryInv
<1> QED
  BY <1>1, <1>11, <1>12

-----------------------------------------------------------------------------
(* The history and the order of the lines.                                 *)

LEMMA HistoryStep == HistoryInv /\ [HNext]_<<vars, historyVars>> => HistoryInv'
<1> SUFFICES ASSUME HistoryInv, [HNext]_<<vars, historyVars>> PROVE HistoryInv'
  OBVIOUS
<1>1. CASE UNCHANGED <<vars, historyVars>>
  BY <1>1, StutterHistory
<1>2. CASE HNext
  <2>1. Next /\ Remember
    BY <1>2 DEF HNext
  <2>2. \/ OutputItems \/ ReturnItems \/ InsertPair \/ PairsInserted \/ StartLevel
        \/ Stop \/ Descend \/ Backtrack \/ TryCandidate \/ CandidatesOver \/ EndLevel
    BY <2>1 DEF Next
  <2> QED
    BY <2>1, <2>2, OutputItemsHistory, ReturnItemsHistory, InsertPairHistory,
       PairsInsertedHistory, StartLevelHistory, StopHistory, DescendHistory,
       BacktrackHistory, TryCandidateHistory, CandidatesOverHistory, EndLevelHistory
<1> QED
  BY <1>1, <1>2

\* The inductive invariant with the history variables holds of every run.
THEOREM HistoryInvariance == HSpec => []HistoryInv
  BY HistoryInit, HistoryStep, PTL DEF HSpec

\* The lines are ordered vectors in the order of their length, and no itemset
\* is written twice, however the walks scramble the siblings.
THEOREM LinesInOrder == HSpec => []LinesOrdered
<1>1. HistoryInv => LinesOrdered
  BY DEF HistoryInv, LinesInv
<1> QED
  BY HistoryInvariance, <1>1, PTL

-----------------------------------------------------------------------------
(* Miner implements Levelwise.                                             *)

\* Levelwise speaks of itemsets in the words of this module.
LEMMA AbstractWords ==
  /\ \A d, x, y : Abstract!Siblings(d, x, y) <=> Siblings(d, x, y)
  /\ \A d, x : Abstract!LastItem(d, x) = LastItem(d, x)
  /\ \A d, X : Abstract!Tidset(d, X) = Tidset(d, X)
  /\ \A d, X : Abstract!Support(d, X) = Support(d, X)
  /\ \A d, i : Abstract!Count(d, i) = Count(d, i)
  /\ \A X, n : Abstract!Pattern(X, n) = Pattern(X, n)
  /\ \A d, s, n : Abstract!FrequentOfSize(d, s, n) = FrequentOfSize(d, s, n)
  /\ \A n : Abstract!Beyond(n) <=> Beyond(n)
  /\ \A X : Abstract!Cardinality(X) = Cardinality(X)
  /\ Abstract!Item = Item
<1>1. Abstract!Item = Item /\ Abstract!Tid = Tid
  BY DEF Abstract!Item, Abstract!Tid, Item, Tid
<1>2. Abstract!Itemset = Itemset
  BY <1>1 DEF Abstract!Itemset, Itemset
<1>3. \A X : Abstract!Cardinality(X) = Cardinality(X)
  BY DEF Abstract!Cardinality, Cardinality, Abstract!IsFiniteSet, IsFiniteSet
<1>4. \A d, X : Abstract!Tidset(d, X) = Tidset(d, X)
  BY <1>1 DEF Abstract!Tidset, Tidset
<1>5. \A d, X : Abstract!Support(d, X) = Support(d, X)
  BY <1>3, <1>4 DEF Abstract!Support, Support
<1>6. \A d, i : Abstract!Count(d, i) = Count(d, i)
  BY <1>5 DEF Abstract!Count, Count
<1>7. \A d, i, j : Abstract!GreaterFreq(d, i, j) <=> GreaterFreq(d, i, j)
  BY <1>6 DEF Abstract!GreaterFreq, GreaterFreq
<1>8. \A d, a, X : Abstract!IsLast(d, a, X) <=> IsLast(d, a, X)
  BY <1>7 DEF Abstract!IsLast, IsLast
<1>9. \A d, x, y : Abstract!Siblings(d, x, y) <=> Siblings(d, x, y)
  BY <1>8 DEF Abstract!Siblings, Siblings
<1>10. \A d, x : Abstract!LastItem(d, x) = LastItem(d, x)
  BY <1>8 DEF Abstract!LastItem, LastItem
<1>11. \A X, n : Abstract!Pattern(X, n) = Pattern(X, n)
  BY DEF Abstract!Pattern, Pattern
<1>12. \A d, s, X : Abstract!Frequent(d, s, X) <=> Frequent(d, s, X)
  BY <1>5 DEF Abstract!Frequent, Frequent
<1>13. \A d, s, n : Abstract!FrequentOfSize(d, s, n) = FrequentOfSize(d, s, n)
  BY <1>2, <1>3, <1>12 DEF Abstract!FrequentOfSize, FrequentOfSize
<1>14. \A n : Abstract!Beyond(n) <=> Beyond(n)
  BY DEF Abstract!Beyond, Beyond
<1> QED
  BY <1>1, <1>3, <1>4, <1>5, <1>6, <1>9, <1>10, <1>11, <1>13, <1>14

\* The patterns of the lines when one more is written.
LEMMA PatternsAppended ==
  ASSUME NEW lines \in Lines, NEW s \in Seq(Item), NEW n \in Nat
  PROVE  Patterns(Append(lines, Line(s, n))) = Patterns(lines) \cup {Pattern(ToSet(s), n)}
<1> DEFINE l == Len(lines)
           now == Append(lines, Line(s, n))
<1>1. /\ l \in Nat /\ DOMAIN lines = 1 .. l /\ DOMAIN now = 1 .. l + 1
      /\ \A i \in 1 .. l : now[i] = lines[i]
      /\ now[l + 1] = Line(s, n)
  BY DEF Lines
<1>2. now[l + 1].items = s /\ now[l + 1].count = n
  BY <1>1 DEF Line
<1> HIDE DEF l, now
<1>3. \A i : i \in 1 .. l + 1 <=> i \in 1 .. l \/ i = l + 1
  BY <1>1
<1>4. \A p : p \in Patterns(now)
               <=> \E i \in 1 .. l + 1 : p = Pattern(ToSet(now[i].items), now[i].count)
  BY <1>1 DEF Patterns
<1>5. \A p : p \in Patterns(lines)
               <=> \E i \in 1 .. l : p = Pattern(ToSet(lines[i].items), lines[i].count)
  BY <1>1 DEF Patterns
<1>6. \A p : p \in Patterns(now)
               <=> p \in Patterns(lines) \/ p = Pattern(ToSet(s), n)
  BY <1>1, <1>2, <1>3, <1>4, <1>5
<1>7. Patterns(now) = Patterns(lines) \cup {Pattern(ToSet(s), n)}
  BY <1>6
<1> QED
  BY <1>7 DEF now

LEMMA AbstractInit == HInit => Abstract!Init
<1> SUFFICES ASSUME HInit PROVE Abstract!Init
  OBVIOUS
<1>1. /\ db \in Databases /\ support \in Supports /\ max_level \in MaxLevels
      /\ pc = "items" /\ k = 3 /\ freq = EmptyTrie /\ freq_next = EmptyTrie /\ out = << >>
      /\ walked = {} /\ last = {}
  BY DEF HInit, Init
<1>2. Vectors(freq) = {} /\ Vectors(freq_next) = {} /\ Patterns(out) = {} /\ Remaining = {}
  BY <1>1 DEF Vectors, EmptyTrie, Patterns, Remaining
<1> QED
  BY <1>1, <1>2 DEF Abstract!Init

LEMMA AbstractItems ==
  ASSUME HistoryInv, OutputItems, Remember
  PROVE  Abstract!OutputItems
<1>1. /\ pc = "items" /\ pc' = "pairs"
      /\ out' = [i \in DOMAIN F |-> Line(<<F[i]>>, Count(db, F[i]))]
      /\ UNCHANGED <<inputs, k, freq, freq_next>>
  BY DEF OutputItems
<1>2. walked' = walked /\ last' = last /\ Remaining = {} /\ Remaining' = {}
  BY <1>1 DEF Remember, Reports, Remaining
<1>3. /\ \A i \in Item : (\E n \in DOMAIN F : F[n] = i) <=> Count(db, i) >= support
      /\ \A n \in DOMAIN F : F[n] \in Item
  BY DEF HistoryInv, ItemsInv, MinerInv, TypeOK
<1>4. \A a : ToSet(<<a>>) = {a}
  BY DEF ToSet
<1>5. \A p : p \in Patterns(out') <=> \E n \in DOMAIN F : p = Pattern({F[n]}, Count(db, F[n]))
  BY <1>1, <1>4 DEF Patterns, Line
<1>6. \A i : i \in Abstract!F <=> i \in Item /\ Count(db, i) >= support
  BY AbstractWords DEF Abstract!F
<1>7. \A p : p \in Patterns(out') <=> \E i \in Abstract!F : p = Pattern({i}, Count(db, i))
  BY <1>3, <1>5, <1>6
<1>8. Patterns(out') = {Abstract!Pattern({i}, Abstract!Count(db, i)) : i \in Abstract!F}
  BY <1>7, AbstractWords
<1> QED
  BY <1>1, <1>2, <1>8 DEF Abstract!OutputItems, Abstract!inputs, inputs

LEMMA AbstractReturn ==
  ASSUME HistoryInv, ReturnItems, Remember
  PROVE  Abstract!ReturnItems
<1>1. /\ pc = "pairs" /\ pc' = "done" /\ Beyond(2)
      /\ UNCHANGED <<inputs, k, freq, freq_next, out>>
  BY DEF ReturnItems
<1>2. walked' = walked /\ last' = last /\ Remaining = {} /\ Remaining' = {}
  BY <1>1 DEF Remember, Reports, Remaining
<1> QED
  BY <1>1, <1>2, AbstractWords DEF Abstract!ReturnItems, Abstract!inputs, inputs

LEMMA AbstractPair ==
  ASSUME HistoryInv, InsertPair, Remember
  PROVE  Abstract!InsertPair
<1> DEFINE x == Reorder(F2[edge + 1])
           X == ToSet(x)
<1>1. /\ pc = "pairs" /\ pc' = "pairs" /\ ~ Beyond(2) /\ edge < Len(F2)
      /\ freq' = Insert(freq, x) /\ out' = Append(out, Line(x, Support(db, X)))
      /\ UNCHANGED <<inputs, k, freq_next>>
  BY DEF InsertPair
<1>2. walked' = walked /\ last' = last /\ Remaining = {} /\ Remaining' = {}
  BY <1>1 DEF Remember, Reports, Remaining
<1>3. x \in Seq(Item) /\ X \in FrequentOfSize(db, support, 2) /\ X \notin Vectors(freq)
  BY <1>1, NextEdge
<1> HIDE DEF x
<1>4. Vectors(freq') = Vectors(freq) \cup {X}
  BY <1>1, InsertVectors
<1>5. Patterns(out') = Patterns(out) \cup {Pattern(X, Support(db, X))}
  <2>1. out \in Lines
    BY DEF HistoryInv, MinerInv, TypeOK, Lines
  <2>2. Support(db, X) \in Nat
    BY SupportType
  <2>3. Patterns(Append(out, Line(x, Support(db, X)))) =
          Patterns(out) \cup {Pattern(ToSet(x), Support(db, X))}
    BY <1>3, <2>1, <2>2, PatternsAppended
  <2> QED
    BY <1>1, <2>3
<1> HIDE DEF X
<1>6. X \in Abstract!FrequentOfSize(db, support, 2) \ Vectors(freq)
  BY <1>3, AbstractWords
<1>7. Patterns(out') = Patterns(out) \cup {Abstract!Pattern(X, Abstract!Support(db, X))}
  BY <1>5, AbstractWords
<1>8. ~ Abstract!Beyond(2)
  BY <1>1, AbstractWords
<1> QED
  BY <1>1, <1>2, <1>4, <1>6, <1>7, <1>8 DEF Abstract!InsertPair, Abstract!inputs, inputs

LEMMA AbstractPairs ==
  ASSUME HistoryInv, PairsInserted, Remember
  PROVE  Abstract!PairsInserted
<1>1. /\ pc = "pairs" /\ pc' = "level" /\ ~ Beyond(2) /\ edge = Len(F2)
      /\ UNCHANGED <<inputs, k, freq, freq_next, out>>
  BY DEF PairsInserted
<1>2. walked' = walked /\ last' = last /\ Remaining = {} /\ Remaining' = {}
  BY <1>1 DEF Remember, Reports, Remaining
<1>3. Vectors(freq) = FrequentOfSize(db, support, 2)
  <2>1. F2 \in Seq(Item \X Item)
    BY DEF HistoryInv, MinerInv, TypeOK
  <2>2. DOMAIN F2 = 1 .. edge
    BY <1>1, <2>1
  <2> QED
    BY <1>1, <2>2 DEF HistoryInv, ItemsInv
<1> QED
  BY <1>1, <1>2, <1>3, AbstractWords DEF Abstract!PairsInserted, Abstract!inputs, inputs

\* The miner stops at an empty trie when Levelwise has no itemsets.
LEMMA EmptyLevel ==
  ASSUME HistoryInv
  PROVE  IsEmptyTrie(freq) <=> Vectors(freq) = {}
<1>1. k - 1 \in Nat \ {0} /\ HasDepth(freq, k - 1) /\ Whole(db, freq, k - 1)
  <2>1. k \in Nat \ {0, 1, 2}
    BY DEF HistoryInv, MinerInv, TypeOK
  <2>2. k - 1 \in Nat \ {0}
    BY <2>1
  <2> QED
    BY <2>2 DEF HistoryInv, MinerInv, TriesInv, WalkedInv
<1> QED
  BY <1>1, EmptyVectors

LEMMA AbstractStart ==
  ASSUME HistoryInv, StartLevel, Remember
  PROVE  Abstract!StartLevel
<1>1. /\ pc = "level" /\ pc' = "walk" /\ ~ Beyond(k) /\ ~ IsEmptyTrie(freq)
      /\ UNCHANGED <<inputs, k, freq, freq_next, out>>
  BY DEF StartLevel
<1>2. walked' = {} /\ last' = last /\ Remaining = {} /\ Remaining' = {}
  BY <1>1 DEF Remember, Reports, Remaining
<1>3. Vectors(freq) # {}
  BY <1>1, EmptyLevel
<1> QED
  BY <1>1, <1>2, <1>3, AbstractWords DEF Abstract!StartLevel, Abstract!inputs, inputs

LEMMA AbstractStop ==
  ASSUME HistoryInv, Stop, Remember
  PROVE  Abstract!Stop
<1>1. /\ pc = "level" /\ pc' = "done" /\ (IsEmptyTrie(freq) \/ Beyond(k))
      /\ UNCHANGED <<inputs, k, freq, freq_next, out>>
  BY DEF Stop
<1>2. walked' = walked /\ last' = last /\ Remaining = {} /\ Remaining' = {}
  BY <1>1 DEF Remember, Reports, Remaining
<1>3. IsEmptyTrie(freq) => Vectors(freq) = {}
  BY EmptyLevel
<1> QED
  BY <1>1, <1>2, <1>3, AbstractWords DEF Abstract!Stop, Abstract!inputs, inputs

\* Descending to a string is Levelwise moving on to its itemset; descending to
\* an inner node is invisible to it.
LEMMA AbstractDescend ==
  ASSUME HistoryInv, Descend, Remember
  PROVE  (\E x \in Vectors(freq) \ walked : Abstract!NextItemset(x)) \/ UNCHANGED Abstract!vars
<1>1. /\ pc = "walk" /\ UNCHANGED <<inputs, k, freq, freq_next, out>>
      /\ \/ pc' = "walk" /\ UNCHANGED <<walked, last>>
         \/ /\ pc' = "cand" /\ last' = ToSet(current_string')
            /\ last' \in Vectors(freq) \ walked /\ walked' = walked \cup {last'}
            /\ Remaining' = {y \in Vectors(freq) \ walked' : Siblings(db, last', y)}
  BY DescendReports
<1>2. Remaining = {}
  BY <1>1 DEF Remaining
<1>3. CASE pc' = "walk" /\ UNCHANGED <<walked, last>>
  <2>1. Remaining' = {}
    BY <1>3 DEF Remaining
  <2> QED
    BY <1>1, <1>2, <1>3, <2>1 DEF Abstract!vars, inputs
<1>4. CASE /\ pc' = "cand" /\ last' \in Vectors(freq) \ walked /\ walked' = walked \cup {last'}
           /\ Remaining' = {y \in Vectors(freq) \ walked' : Siblings(db, last', y)}
  <2>1. PICK x \in Vectors(freq) \ walked : x = last'
    BY <1>4
  <2>2. Remaining' = {y \in Vectors(freq) \ walked' : Abstract!Siblings(db, x, y)}
    BY <1>4, <2>1, AbstractWords
  <2>3. Abstract!NextItemset(x)
    BY <1>1, <1>2, <1>4, <2>1, <2>2 DEF Abstract!NextItemset, Abstract!inputs, inputs
  <2> QED
    BY <2>3
<1> QED
  BY <1>1, <1>3, <1>4

LEMMA AbstractBacktrack ==
  ASSUME HistoryInv, Backtrack, Remember
  PROVE  UNCHANGED Abstract!vars
<1>1. pc = "walk" /\ pc' = "walk" /\ UNCHANGED <<inputs, k, freq, freq_next, out>>
  BY BacktrackMoves
<1>2. walked' = walked /\ last' = last /\ Remaining = {} /\ Remaining' = {}
  BY <1>1 DEF Remember, Reports, Remaining
<1> QED
  BY <1>1, <1>2 DEF Abstract!vars, inputs

\* A turn of the candidate walk is Levelwise trying the sibling it stands on.
LEMMA AbstractTry ==
  ASSUME HistoryInv, TryCandidate, Remember
  PROVE  \E y \in Remaining : Abstract!TryCandidate(y)
<1> DEFINE s == current_string
           diff == SiblingList[cand + 1]
           sibling == ToSet(Append(Front(s), diff))
           c == MergeItem(s, diff)
           m == Cardinality(tidlist_cache[Len(s)] \cap Tidset(db, {diff}))
<1>1. /\ pc = "cand" /\ pc' = "cand"
      /\ IF CheckSupports(freq, c) /\ m >= support
         THEN freq_next' = Insert(freq_next, c) /\ out' = Append(out, Line(c, m))
         ELSE UNCHANGED <<freq_next, out>>
      /\ UNCHANGED <<inputs, k, freq>>
  BY DEF TryCandidate
<1>2. walked' = walked /\ last' = last
  BY <1>1 DEF Remember, Reports
<1>3. /\ sibling \in Remaining /\ Remaining' = Remaining \ {sibling}
      /\ LastItem(db, sibling) = diff
      /\ c \in Seq(Item) /\ ToSet(c) = last \cup {diff}
      /\ CheckSupports(freq, c) <=> \A i \in ToSet(c) : ToSet(c) \ {i} \in Vectors(freq)
      /\ tidlist_cache[Len(s)] = Tidset(db, last)
      /\ Support(db, ToSet(c)) = m
  BY TryCandidateJoins
<1>4. m = Cardinality(Tidset(db, last) \cap Tidset(db, {diff}))
  BY <1>3
<1>5. m \in Nat
  BY <1>3, SupportType
<1> HIDE DEF s, diff, sibling, c, m
<1>6. PICK y \in Remaining : y = sibling
  BY <1>3
<1>7. Abstract!LastItem(db, y) = diff
  BY <1>3, <1>6, AbstractWords
<1>8. Abstract!Cardinality(Abstract!Tidset(db, last) \cap Abstract!Tidset(db, {diff})) = m
  BY <1>4, AbstractWords
<1>9. Abstract!CheckSupports(last \cup {diff}) <=> CheckSupports(freq, c)
  BY <1>3 DEF Abstract!CheckSupports
<1>10. CASE CheckSupports(freq, c) /\ m >= support
  <2>1. Vectors(freq_next') = Vectors(freq_next) \cup {last \cup {diff}}
    BY <1>1, <1>3, <1>10, InsertVectors
  <2>2. Patterns(out') = Patterns(out) \cup {Abstract!Pattern(last \cup {diff}, m)}
    <3>1. out \in Lines
      BY DEF HistoryInv, MinerInv, TypeOK, Lines
    <3>2. Patterns(Append(out, Line(c, m))) = Patterns(out) \cup {Pattern(ToSet(c), m)}
      BY <1>3, <1>5, <3>1, PatternsAppended
    <3> QED
      BY <1>1, <1>3, <1>10, <3>2, AbstractWords
  <2>3. Abstract!TryCandidate(y)
    BY <1>1, <1>2, <1>3, <1>6, <1>7, <1>8, <1>9, <1>10, <2>1, <2>2
       DEF Abstract!TryCandidate, Abstract!inputs, inputs
  <2> QED
    BY <2>3
<1>11. CASE ~ (CheckSupports(freq, c) /\ m >= support)
  <2>1. Abstract!TryCandidate(y)
    BY <1>1, <1>2, <1>3, <1>6, <1>7, <1>8, <1>9, <1>11
       DEF Abstract!TryCandidate, Abstract!inputs, inputs
  <2> QED
    BY <2>1
<1> QED
  BY <1>10, <1>11

LEMMA AbstractOver ==
  ASSUME HistoryInv, CandidatesOver, Remember
  PROVE  UNCHANGED Abstract!vars
<1>1. /\ pc = "cand" /\ pc' = "walk" /\ cand >= Len(SiblingList)
      /\ UNCHANGED <<inputs, k, freq, freq_next, out>>
  BY DEF CandidatesOver
<1>2. walked' = walked /\ last' = last /\ Remaining' = {}
  BY <1>1 DEF Remember, Reports, Remaining
<1>3. Remaining = {}
  <2> DEFINE n == k - 1
             s == current_string
             list == freq.kids[Front(s)]
  <2>1. cand \in DOMAIN list /\ cand >= Len(list) /\ s \in freq.ends /\ iter_stack # << >>
    BY <1>1 DEF HistoryInv, MinerInv, StacksInv, SiblingList
  <2>2. /\ s \in Seq(Item) /\ Len(s) \in Nat
        /\ n \in Nat \ {0} /\ HasDepth(freq, n) /\ Whole(db, freq, n)
        /\ iter_stack \in Seq(Nat \ {0}) /\ Len(iter_stack) = Len(s) + 1
        /\ OnString(freq, s, iter_stack)
    BY <1>1, <2>1, PathFacts
  <2>3. Len(s) = n
    BY <2>1, <2>2 DEF HasDepth
  <2>4. list \in Seq(Item)
    <3> HIDE DEF n, s
    <3>1. Len(iter_stack) = n + 1
      BY <2>2, <2>3
    <3>2. s \in freq.ends
      BY <2>1
    <3> QED
      BY <2>2, <2>3, <3>1, <3>2, SiblingEnds
  <2>5. cand \in Nat /\ Len(list) \in Nat
    BY <2>4 DEF HistoryInv, MinerInv, TypeOK
  <2>6. Rest(freq, s, cand) = {}
    BY <2>1, <2>5, RestOver
  <2> QED
    BY <1>1, <2>6 DEF Remaining
<1> QED
  BY <1>1, <1>2, <1>3 DEF Abstract!vars, inputs

LEMMA AbstractEnd ==
  ASSUME HistoryInv, EndLevel, Remember
  PROVE  Abstract!EndLevel
<1>1. /\ pc = "walk" /\ pc' = "level" /\ iter_stack = << >>
      /\ freq' = freq_next /\ freq_next' = EmptyTrie /\ k' = k + 1
      /\ UNCHANGED <<inputs, out>>
  BY DEF EndLevel
<1>2. walked' = walked /\ last' = last /\ Remaining = {} /\ Remaining' = {}
  BY <1>1 DEF Remember, Reports, Remaining
<1>3. walked = Vectors(freq) /\ Vectors(freq_next') = {}
  BY <1>1 DEF HistoryInv, WalkedInv, Vectors, EmptyTrie
<1> QED
  BY <1>1, <1>2, <1>3 DEF Abstract!EndLevel, Abstract!inputs, inputs

\* Each step of discover() is a step of Levelwise or a stutter.
LEMMA AbstractNext ==
  HistoryInv /\ [HNext]_<<vars, historyVars>> => [Abstract!Next]_(Abstract!vars)
<1> SUFFICES ASSUME HistoryInv, [HNext]_<<vars, historyVars>>
             PROVE  Abstract!Next \/ UNCHANGED Abstract!vars
  OBVIOUS
<1>1. CASE UNCHANGED <<vars, historyVars>>
  <2>1. Remaining' = Remaining
    BY <1>1 DEF vars, Remaining
  <2> QED
    BY <1>1, <2>1 DEF vars, historyVars, Abstract!vars
<1>2. CASE HNext
  <2>1. Next /\ Remember
    BY <1>2 DEF HNext
  <2>2. CASE OutputItems \/ ReturnItems \/ InsertPair \/ PairsInserted \/ StartLevel
             \/ Stop \/ EndLevel
    BY <2>1, <2>2, AbstractItems, AbstractReturn, AbstractPair, AbstractPairs,
       AbstractStart, AbstractStop, AbstractEnd DEF Abstract!Next
  <2>3. CASE Descend
    BY <2>1, <2>3, AbstractDescend DEF Abstract!Next
  <2>4. CASE TryCandidate
    BY <2>1, <2>4, AbstractTry DEF Abstract!Next
  <2>5. CASE Backtrack \/ CandidatesOver
    BY <2>1, <2>5, AbstractBacktrack, AbstractOver
  <2> QED
    BY <2>1, <2>2, <2>3, <2>4, <2>5 DEF Next
<1> QED
  BY <1>1, <1>2

\* Tries, stacks, iterators and caches do nothing but what Levelwise allows: on
\* sets of itemsets, Miner is the level-wise algorithm.
THEOREM RefinesLevelwise == HSpec => Abstract!Init /\ [][Abstract!Next]_(Abstract!vars)
  BY AbstractInit, HistoryInvariance, AbstractNext, PTL DEF HSpec

-----------------------------------------------------------------------------
(* What LevelwiseProofs proves of Levelwise, read for Miner.               *)

Proved == INSTANCE LevelwiseProofs WITH
  pc <- IF pc = "cand" THEN "walk" ELSE pc,
  freq <- Vectors(freq),
  freq_next <- Vectors(freq_next),
  itemset <- last,
  siblings <- Remaining,
  out <- Patterns(out)

LEMMA ProvedWords ==
  /\ \A X : Abstract!Cardinality(X) = Proved!Cardinality(X)
  /\ \A d, X : Abstract!Tidset(d, X) = Proved!Tidset(d, X)
  /\ \A d, X : Abstract!Support(d, X) = Proved!Support(d, X)
  /\ \A d, i : Abstract!Count(d, i) = Proved!Count(d, i)
<1>1. \A X : Abstract!Cardinality(X) = Proved!Cardinality(X)
  BY DEF Abstract!Cardinality, Proved!Cardinality, Abstract!IsFiniteSet,
         Proved!IsFiniteSet
<1>2. \A d, X : Abstract!Tidset(d, X) = Proved!Tidset(d, X)
  BY DEF Abstract!Tidset, Proved!Tidset, Abstract!Tid, Proved!Tid
<1> QED
  BY <1>1, <1>2 DEF Abstract!Support, Proved!Support, Abstract!Count, Proved!Count

\* The two instances of Levelwise, with and without its theorems, are one.
LEMMA ProvedNext == [Abstract!Next]_(Abstract!vars) => [Proved!Next]_(Proved!vars)
<1>1. Abstract!OutputItems => Proved!OutputItems
  BY ProvedWords
     DEF Abstract!OutputItems, Proved!OutputItems, Abstract!Item, Proved!Item,
         Abstract!Support, Proved!Support, Abstract!Count, Proved!Count,
         Abstract!Pattern, Proved!Pattern, Abstract!F, Proved!F,
         Abstract!inputs, Proved!inputs
<1>2. Abstract!ReturnItems => Proved!ReturnItems
  BY ProvedWords
     DEF Abstract!ReturnItems, Proved!ReturnItems, Abstract!Beyond,
         Proved!Beyond, Abstract!inputs, Proved!inputs
<1>3. Abstract!InsertPair => Proved!InsertPair
  BY ProvedWords
     DEF Abstract!InsertPair, Proved!InsertPair, Abstract!Item, Proved!Item,
         Abstract!Itemset, Proved!Itemset, Abstract!Frequent, Proved!Frequent,
         Abstract!FrequentOfSize, Proved!FrequentOfSize, Abstract!Pattern,
         Proved!Pattern, Abstract!Beyond, Proved!Beyond, Abstract!inputs,
         Proved!inputs
<1>4. Abstract!PairsInserted => Proved!PairsInserted
  BY ProvedWords
     DEF Abstract!PairsInserted, Proved!PairsInserted, Abstract!Item,
         Proved!Item, Abstract!Itemset, Proved!Itemset, Abstract!Frequent,
         Proved!Frequent, Abstract!FrequentOfSize, Proved!FrequentOfSize,
         Abstract!Beyond, Proved!Beyond, Abstract!inputs, Proved!inputs
<1>5. Abstract!StartLevel => Proved!StartLevel
  BY ProvedWords
     DEF Abstract!StartLevel, Proved!StartLevel, Abstract!Beyond,
         Proved!Beyond, Abstract!inputs, Proved!inputs
<1>6. Abstract!Stop => Proved!Stop
  BY ProvedWords
     DEF Abstract!Stop, Proved!Stop, Abstract!Beyond, Proved!Beyond,
         Abstract!inputs, Proved!inputs
<1>7. \A x : Abstract!NextItemset(x) => Proved!NextItemset(x)
  BY ProvedWords
     DEF Abstract!NextItemset, Proved!NextItemset, Abstract!GreaterFreq,
         Proved!GreaterFreq, Abstract!IsLast, Proved!IsLast,
         Abstract!Siblings, Proved!Siblings, Abstract!inputs, Proved!inputs
<1>8. \A x : Abstract!TryCandidate(x) => Proved!TryCandidate(x)
  BY DEF Abstract!TryCandidate, Proved!TryCandidate, Abstract!Item,
         Proved!Item, Abstract!Tid, Proved!Tid, Abstract!Tidset,
         Proved!Tidset, Abstract!Support, Proved!Support, Abstract!Count,
         Proved!Count, Abstract!GreaterFreq, Proved!GreaterFreq,
         Abstract!IsLast, Proved!IsLast, Abstract!LastItem, Proved!LastItem,
         Abstract!Cardinality, Proved!Cardinality, Abstract!IsFiniteSet,
         Proved!IsFiniteSet, Abstract!CheckSupports, Proved!CheckSupports,
         Abstract!Pattern, Proved!Pattern, Abstract!inputs, Proved!inputs
<1>9. Abstract!EndLevel => Proved!EndLevel
  BY ProvedWords
     DEF Abstract!EndLevel, Proved!EndLevel, Abstract!inputs, Proved!inputs
<1> QED
  BY <1>1, <1>2, <1>3, <1>4, <1>5, <1>6, <1>7, <1>8, <1>9
     DEF Abstract!Next, Proved!Next, Abstract!vars, Proved!vars

LEMMA ProvedExact ==
  ASSUME Proved!TypeOK, Proved!Soundness, Proved!Completeness
  PROVE  OutputExact
<1> DEFINE Asked == {Y \in Itemset : /\ Frequent(db, support, Y)
                                     /\ max_level = 0 \/ Cardinality(Y) <= max_level}
<1>1. /\ \A X : Proved!Support(db, X) = Support(db, X)
      /\ \A X : Proved!Frequent(db, support, X) <=> Frequent(db, support, X)
      /\ \A X : Proved!Cardinality(X) = Cardinality(X)
      /\ Proved!Itemset = Itemset
  BY AbstractWords, ProvedWords
     DEF Proved!Frequent, Frequent, Proved!Itemset, Itemset, Proved!Item, Item
<1>2. \A p \in Patterns(out) : p = Pattern(p.items, p.count) /\ p.items \in Itemset
  BY <1>1 DEF Proved!TypeOK, Pattern
<1>3. \A p \in Patterns(out) : p.items \in Asked /\ p.count = Support(db, p.items)
  BY <1>1, <1>2 DEF Proved!Soundness, Proved!WithinLevel
<1>4. Patterns(out) \subseteq Wanted
  BY <1>2, <1>3 DEF Wanted
<1>5. ASSUME pc = "done", NEW X \in Asked PROVE Pattern(X, Support(db, X)) \in Patterns(out)
  <2>1. PICK p \in Patterns(out) : p.items = X
    BY <1>1, <1>5 DEF Proved!Completeness, Proved!WithinLevel, Proved!Reported
  <2> QED
    BY <1>2, <1>3, <2>1
<1> QED
  BY <1>4, <1>5 DEF OutputExact, Wanted

\* On its tries, caches and walks too, discover() writes just the frequent
\* itemsets within max_level, with their supports.
THEOREM MinesExactly == HSpec => []OutputExact
<1>0. Databases \subseteq Proved!Database
  BY InputAssumption DEF Proved!Database, Database, Proved!Tid, Tid, Proved!Item, Item
<1>1. Abstract!Init => Proved!IInv
  <2>1. Abstract!Init => Proved!Init
    BY DEF Abstract!Init, Proved!Init
  <2> QED
    BY <1>0, <2>1, SizesAssumption, InputAssumption, Proved!InvInit
<1>2. Proved!IInv /\ [Abstract!Next]_(Abstract!vars) => Proved!IInv'
  BY <1>0, SizesAssumption, InputAssumption, ProvedNext, Proved!InvNext
<1>3. Proved!IInv => OutputExact
  BY ProvedExact DEF Proved!IInv
<1> QED
  BY <1>1, <1>2, <1>3, RefinesLevelwise, PTL
-----------------------------------------------------------------------------
(* The steps come to an end.                                               *)

\* No level is walked above the number of items.
LevelBound == k <= NumItems + 3 /\ (pc \in {"walk", "cand"} => k <= NumItems + 1)

LEMMA LevelBounded == HSpec => []LevelBound
<1>1. HInit => LevelBound
  BY SizesAssumption DEF HInit, Init, LevelBound
<1>2. HistoryInv /\ LevelBound /\ [HNext]_<<vars, historyVars>> => LevelBound'
  <2> SUFFICES ASSUME HistoryInv, LevelBound, [HNext]_<<vars, historyVars>>
               PROVE  LevelBound'
    OBVIOUS
  <2>1. k \in Nat /\ NumItems \in Nat
    BY SizesAssumption DEF HistoryInv, MinerInv, TypeOK
  <2>2. CASE StartLevel
    <3>1. k - 1 \in Nat \ {0} /\ HasDepth(freq, k - 1) /\ Whole(db, freq, k - 1)
      <4>1. k \in Nat \ {0, 1, 2}
        BY DEF HistoryInv, MinerInv, TypeOK
      <4>2. k - 1 \in Nat \ {0}
        BY <4>1
      <4> QED
        BY <4>2 DEF HistoryInv, MinerInv, TriesInv, WalkedInv
    <3>2. Vectors(freq) # {}
      BY <2>2, EmptyLevel DEF StartLevel
    <3>3. PICK X \in Vectors(freq) : X \in Itemset /\ Cardinality(X) = k - 1
      <4> DEFINE n == k - 1
      <4>1. n \in Nat \ {0} /\ HasDepth(freq, n) /\ Whole(db, freq, n)
        BY <3>1
      <4> HIDE DEF n
      <4>2. \A X \in Vectors(freq) : X \in Itemset /\ Cardinality(X) = n
        BY <4>1, EndVectors
      <4> QED
        BY <3>2, <4>2 DEF n
    <3>4. Cardinality(X) <= NumItems
      BY <3>3, ItemsetSize
    <3>5. k' = k /\ k <= NumItems + 1
      BY <2>1, <2>2, <3>3, <3>4 DEF StartLevel
    <3> QED
      BY <2>1, <3>5 DEF LevelBound
  <2>3. CASE EndLevel
    <3>1. k' = k + 1 /\ pc' = "level" /\ k <= NumItems + 1
      BY <2>3 DEF EndLevel, LevelBound
    <3> QED
      BY <2>1, <3>1 DEF LevelBound
  <2>4. CASE UNCHANGED <<vars, historyVars>>
    BY <2>4 DEF vars, LevelBound
  <2>5. ASSUME k' = k, pc' \in {"walk", "cand"} => pc \in {"walk", "cand"}
        PROVE  LevelBound'
    BY <2>5 DEF LevelBound
  <2>6. CASE \/ OutputItems \/ ReturnItems \/ InsertPair \/ PairsInserted \/ Stop
    BY <2>5, <2>6 DEF OutputItems, ReturnItems, InsertPair, PairsInserted, Stop
  <2>7. CASE \/ Descend \/ Backtrack \/ TryCandidate \/ CandidatesOver
    BY <2>5, <2>7 DEF Descend, Backtrack, TryCandidate, CandidatesOver
  <2> QED
    BY <2>2, <2>3, <2>4, <2>6, <2>7 DEF HNext, Next
<1> QED
  BY <1>1, <1>2, HistoryInvariance, PTL DEF HSpec

\* What is left to do: the phases, the levels, the pairs to insert or the
\* nodes the walk has not left behind, the depth below it, and the siblings.
Phase == IF pc = "items" THEN 3 ELSE IF pc = "pairs" THEN 2 ELSE IF pc = "done" THEN 0 ELSE 1

LevelsLeft == NumItems + 3 - k

NodeSets == {ToSet(p) : p \in Nodes(freq)}

Ahead == {ToSet(p) : p \in {q \in Nodes(freq) : ~ Behind(freq, current_string, iter_stack, q)}}

ToWalk == IF pc = "pairs" THEN Len(F2) - edge
          ELSE IF pc = "level" THEN Cardinality(NodeSets) + 1
          ELSE IF iter_stack = << >> THEN 0 ELSE Cardinality(Ahead)

Below == IF pc \in {"walk", "cand"} THEN k - Len(current_string) ELSE 0

SiblingsLeft == IF pc = "cand" THEN Len(SiblingList) + 1 - cand ELSE 0

ToDo == <<Phase, LevelsLeft, ToWalk, Below, SiblingsLeft>>

\* The nodes of a trie are ordered vectors, so that each is told by its items.
LEMMA NodesOrdered ==
  ASSUME NEW d, NEW t, NEW n \in Nat, HasDepth(t, n), Whole(d, t, n),
         NEW p \in Nodes(t)
  PROVE  p \in Seq(Item) /\ OrderedBy(d, p) /\ ToSet(p) \in SUBSET Item
<1>1. p \in Seq(Item)
  BY DEF HasDepth, IsVector
<1>2. OrderedBy(d, p)
  <2>1. CASE p = << >>
    <3>1. DOMAIN p = {}
      BY <2>1
    <3> QED
      BY <3>1 DEF OrderedBy
  <2>2. CASE p # << >>
    <3>1. PICK e \in t.ends : Len(p) <= Len(e) /\ SubSeq(e, 1, Len(p)) = p
      BY <2>2 DEF Whole
    <3>2. e \in Seq(Item) /\ OrderedBy(d, e)
      BY DEF HasDepth, Whole, IsVector
    <3> DEFINE l == Len(p)
    <3>3. l \in 0 .. Len(e) /\ DOMAIN p = 1 .. l
      BY <1>1, <3>1, <3>2
    <3>4. SubSeq(e, 1, l) = p
      BY <3>1
    <3> HIDE DEF l
    <3>5. \A i \in 1 .. l : p[i] = e[i]
      BY <3>2, <3>3, <3>4, PrefixType
    <3>6. \A i \in 1 .. l : i \in DOMAIN e
      BY <3>2, <3>3
    <3> QED
      BY <3>2, <3>3, <3>5, <3>6 DEF OrderedBy
  <2> QED
    BY <2>1, <2>2
<1> QED
  BY <1>1, <1>2, OrderedSize

\* The candidate walk is on a list of siblings.
LEMMA SiblingsTyped ==
  ASSUME HistoryInv, pc = "cand"
  PROVE  SiblingList \in Seq(Item) /\ cand \in DOMAIN SiblingList
<1>1. /\ iter_stack # << >> /\ current_string \in freq.ends /\ cand \in DOMAIN SiblingList
  BY DEF HistoryInv, MinerInv, StacksInv
<1>2. /\ k - 1 \in Nat \ {0} /\ HasDepth(freq, k - 1) /\ Whole(db, freq, k - 1)
      /\ iter_stack \in Seq(Nat \ {0}) /\ Len(iter_stack) = Len(current_string) + 1
      /\ OnString(freq, current_string, iter_stack)
  BY <1>1, PathFacts
<1>3. Len(iter_stack) = (k - 1) + 1
  BY <1>1, <1>2 DEF HasDepth
<1>4. freq.kids[Front(current_string)] \in Seq(Item)
  <2> DEFINE n == k - 1
  <2>1. /\ n \in Nat \ {0} /\ HasDepth(freq, n) /\ Whole(db, freq, n)
        /\ Len(iter_stack) = n + 1
    BY <1>2, <1>3
  <2> HIDE DEF n
  <2> QED
    BY <1>1, <1>2, <2>1, SiblingEnds
<1> QED
  BY <1>1, <1>4 DEF SiblingList

\* These are numbers.
ToDoTyped ==
  /\ Phase \in Nat /\ LevelsLeft \in Nat /\ ToWalk \in Nat
  /\ Below \in Nat /\ SiblingsLeft \in Nat

LEMMA Numbers == HSpec => []ToDoTyped
<1>1. HistoryInv /\ LevelBound => ToDoTyped
  <2> SUFFICES ASSUME HistoryInv, LevelBound PROVE ToDoTyped
    OBVIOUS
  <2>1. /\ k \in Nat /\ edge \in Nat /\ cand \in Nat /\ F2 \in Seq(Item \X Item)
        /\ MinerInv /\ IsTrie(freq)
    BY DEF HistoryInv, MinerInv, TypeOK
  <2>2. Phase \in Nat
    BY DEF Phase
  <2>3. LevelsLeft \in Nat
    BY <2>1, SizesAssumption DEF LevelsLeft, LevelBound
  <2>4. ToWalk \in Nat
    <3>1. /\ NodeSets \in SUBSET SUBSET Item /\ Ahead \in SUBSET SUBSET Item
      <4>1. \A p \in Nodes(freq) : ToSet(p) \in SUBSET Item
        BY <2>1 DEF IsTrie, IsVector, ToSet
      <4> QED
        BY <4>1 DEF NodeSets, Ahead
    <3>2. Cardinality(NodeSets) \in Nat /\ Cardinality(Ahead) \in Nat
      BY ONLY <3>1, FamilySize
    <3>3. pc = "pairs" => edge <= Len(F2)
      BY DEF HistoryInv, ItemsInv
    <3>4. Len(F2) \in Nat
      BY <2>1
    <3> HIDE DEF NodeSets, Ahead
    <3> QED
      BY <2>1, <3>2, <3>3, <3>4 DEF ToWalk
  <2>5. Below \in Nat
    <3>1. CASE pc \in {"walk", "cand"} /\ iter_stack # << >>
      <4>1. Len(current_string) \in 0 .. k - 1
        BY <2>1, <3>1, WalkFacts
      <4> QED
        BY <2>1, <4>1 DEF Below
    <3>2. CASE pc \in {"walk", "cand"} /\ iter_stack = << >>
      <4>1. pc = "walk" /\ current_string = << >>
        BY <2>1, <3>2 DEF MinerInv, StacksInv
      <4>2. Len(current_string) = 0
        BY <4>1
      <4> QED
        BY <2>1, <4>2 DEF Below
    <3> QED
      BY <3>1, <3>2 DEF Below
  <2>6. SiblingsLeft \in Nat
    <3>1. CASE pc = "cand"
      <4>1. cand \in DOMAIN SiblingList /\ current_string \in freq.ends
        BY <2>1, <3>1 DEF MinerInv, StacksInv
      <4>2. SiblingList \in Seq(Item)
        BY <3>1, SiblingsTyped
      <4> QED
        BY <3>1, <4>1, <4>2 DEF SiblingsLeft
    <3> QED
      BY <3>1 DEF SiblingsLeft
  <2> QED
    BY <2>2, <2>3, <2>4, <2>5, <2>6 DEF ToDoTyped
<1> QED
  BY <1>1, HistoryInvariance, LevelBounded, PTL

LEMMA ToDoFalls ==
  ASSUME ToDoTyped, ToDoTyped',
         \/ Phase' < Phase
         \/ Phase' = Phase /\ LevelsLeft' < LevelsLeft
         \/ Phase' = Phase /\ LevelsLeft' = LevelsLeft /\ ToWalk' < ToWalk
         \/ /\ Phase' = Phase /\ LevelsLeft' = LevelsLeft /\ ToWalk' = ToWalk
            /\ Below' < Below
         \/ /\ Phase' = Phase /\ LevelsLeft' = LevelsLeft /\ ToWalk' = ToWalk
            /\ Below' = Below /\ SiblingsLeft' < SiblingsLeft
  PROVE  Falls(5, ToDo, ToDo')
<1> DEFINE a == Phase
           b == LevelsLeft
           c == ToWalk
           d == Below
           e == SiblingsLeft
           a2 == Phase'
           b2 == LevelsLeft'
           c2 == ToWalk'
           d2 == Below'
           e2 == SiblingsLeft'
<1>1. /\ a \in Nat /\ b \in Nat /\ c \in Nat /\ d \in Nat /\ e \in Nat
      /\ a2 \in Nat /\ b2 \in Nat /\ c2 \in Nat /\ d2 \in Nat /\ e2 \in Nat
  BY DEF ToDoTyped
<1>2. \/ a2 < a
      \/ a2 = a /\ b2 < b
      \/ a2 = a /\ b2 = b /\ c2 < c
      \/ a2 = a /\ b2 = b /\ c2 = c /\ d2 < d
      \/ a2 = a /\ b2 = b /\ c2 = c /\ d2 = d /\ e2 < e
  OBVIOUS
<1>3. ToDo = <<a, b, c, d, e>> /\ ToDo' = <<a2, b2, c2, d2, e2>>
  BY DEF ToDo
<1> HIDE DEF a, b, c, d, e, a2, b2, c2, d2, e2
<1> QED
  BY <1>1, <1>2, <1>3, FallsFive

\* Going down leaves no node behind and comes nearer to the strings.
LEMMA DescendFalls ==
  ASSUME HistoryInv, Descend
  PROVE  ToWalk' = ToWalk /\ Below' < Below
<1> DEFINE s == current_string
           iters == iter_stack
           a == Subtries[Last(iters)]
<1>1. /\ pc = "walk" /\ iters # << >> /\ Last(iters) <= Len(Subtries)
      /\ current_string' = Append(s, a) /\ iter_stack' = Append(iters, 1)
      /\ freq' = freq /\ k' = k
  BY DEF Descend
<1>2. /\ s \in Seq(Item) /\ iters \in Seq(Nat \ {0}) /\ Len(iters) = Len(s) + 1
      /\ HasDepth(freq, k - 1)
      /\ \A q \in Nodes(freq) : freq.kids[q] \in Seq(Item)
  BY <1>1, PathFacts
<1>3. /\ current_string' \in Nodes(freq) /\ iter_stack' \in Seq(Nat \ {0})
      /\ Len(iter_stack') = Len(current_string') + 1
      /\ pc' \in {"walk", "cand"}
  BY DescendMoves
<1>4. a \in Item /\ Len(s) \in Nat /\ k \in Nat
  <2>1. /\ Subtries \in Seq(Item) /\ Last(iters) \in Nat \ {0} /\ k \in Nat
        /\ Len(Subtries) \in Nat
    BY <1>1, WalkFacts DEF HistoryInv
  <2>2. Last(iters) \in DOMAIN Subtries
    BY <1>1, <2>1
  <2> QED
    BY <1>2, <2>1, <2>2
<1> HIDE DEF a, s, iters
<1>5. ASSUME NEW p \in Nodes(freq)
      PROVE  Behind(freq, current_string', iter_stack', p)
               <=> Behind(freq, current_string, iter_stack, p)
  <2>1. p \in Seq(Item)
    BY <1>2 DEF HasDepth, IsVector
  <2>2. Append(s, a) \in Nodes(freq)
    BY <1>1, <1>3
  <2> QED
    BY <1>1, <1>2, <1>4, <2>1, <2>2, BehindDown DEF s, iters
<1>6. Ahead' = Ahead
  BY <1>1, <1>5 DEF Ahead
<1>7. iter_stack' # << >>
  BY <1>1, <1>2
<1>8. ToWalk' = ToWalk
  BY <1>1, <1>3, <1>6, <1>7 DEF ToWalk, iters
<1>9. Len(current_string') = Len(s) + 1
  BY <1>1, <1>2, <1>4, FrontAppend
<1>10. Below' < Below
  <2> DEFINE l == Len(current_string')
             m == Len(s)
  <2>1. l = m + 1 /\ m \in Nat
    BY <1>4, <1>9
  <2>2. Below' = k - l /\ Below = k - m
    BY <1>1, <1>3 DEF Below, s
  <2> HIDE DEF l, m, Below
  <2> QED
    BY ONLY <1>4, <2>1, <2>2
<1> QED
  BY <1>8, <1>10

\* Going back leaves a node behind that was not, and none comes back.
LEMMA BacktrackFalls ==
  ASSUME HistoryInv, Backtrack
  PROVE  ToWalk' < ToWalk
<1> DEFINE s == current_string
           iters == iter_stack
           back == [Front(iters) EXCEPT ![Len(iters) - 1] = @ + 1]
           n == k - 1
<1>1. /\ pc = "walk" /\ pc' = "walk" /\ iters # << >> /\ s # << >>
      /\ freq' = freq /\ db' = db
      /\ Last(iters) > Len(freq.kids[s])
      /\ current_string' = Front(s)
      /\ iter_stack' = << >> \/ iter_stack' = back
  <2>1. pc' = "walk" /\ UNCHANGED <<inputs, freq>>
    BY BacktrackMoves
  <2> QED
    BY <2>1 DEF Backtrack, Subtries, inputs
<1>2. /\ n \in Nat \ {0} /\ HasDepth(freq, n) /\ Whole(db, freq, n)
      /\ s \in Nodes(freq) /\ s \in Seq(Item)
      /\ iters \in Seq(Nat \ {0}) /\ Len(iters) = Len(s) + 1
      /\ OnString(freq, s, iters)
  BY <1>1, PathFacts
<1> HIDE DEF n
<1>3. ~ Behind(freq, s, iters, s)
  <2>1. n \in Nat
    BY <1>2
  <2> QED
    BY <1>2, <2>1, StandsOn
<1>4. ASSUME NEW p \in Nodes(freq)
      PROVE  Behind(freq, Front(s), back, p) <=> p = s \/ Behind(freq, s, iters, p)
  <2>1. n \in Nat
    BY <1>2
  <2> QED
    BY <1>1, <1>2, <2>1, BehindUp
<1>5. /\ \A p \in Nodes(freq) : /\ p \in Seq(Item) /\ OrderedBy(db, p)
                                /\ ToSet(p) \in SUBSET Item
  <2>1. n \in Nat
    BY <1>2
  <2> QED
    BY <1>2, <2>1, NodesOrdered
<1>6. ToSet(s) \in Ahead /\ Ahead \in SUBSET SUBSET Item
  BY <1>2, <1>3, <1>5 DEF Ahead
<1>7. Cardinality(Ahead) \in Nat
  BY ONLY <1>6, FamilySize
<1>8. ToWalk = Cardinality(Ahead)
  BY <1>1 DEF ToWalk
<1> HIDE DEF back
<1>9. CASE iter_stack' = << >>
  <2>1. ToWalk' = 0
    BY <1>1, <1>9 DEF ToWalk
  <2>2. Cardinality(Ahead) # 0
    <3>1. {} \in SUBSET Ahead /\ {} # Ahead
      BY <1>6
    <3>2. Cardinality({}) \in Nat /\ Cardinality({}) < Cardinality(Ahead)
      BY ONLY <1>6, <3>1, FamilySize
    <3> QED
      BY ONLY <1>7, <3>2
  <2> QED
    BY ONLY <1>7, <1>8, <2>1, <2>2
<1>10. CASE iter_stack' = back /\ iter_stack' # << >>
  <2>1. Ahead' = {ToSet(p) : p \in {q \in Nodes(freq) : ~ Behind(freq, Front(s), back, q)}}
    BY <1>1, <1>10 DEF Ahead
  <2>2. Ahead' \in SUBSET Ahead
    BY <1>4, <2>1 DEF Ahead
  <2>3. ToSet(s) \notin Ahead'
    <3> SUFFICES ASSUME NEW p \in Nodes(freq), ~ Behind(freq, Front(s), back, p),
                        ToSet(p) = ToSet(s)
                 PROVE  FALSE
      BY <2>1
    <3>1. p = s
      BY <1>2, <1>5, OrderedUnique
    <3> QED
      BY <1>4, <3>1
  <2>4. Ahead' # Ahead
    BY <1>6, <2>3
  <2>5. Cardinality(Ahead)' < Cardinality(Ahead)
    BY ONLY <1>6, <2>2, <2>4, FamilySize
  <2>6. ToWalk' = Cardinality(Ahead)'
    BY <1>1, <1>10 DEF ToWalk
  <2> QED
    BY <1>8, <2>5, <2>6
<1> QED
  BY <1>1, <1>9, <1>10

\* Each step of discover() on its tries leaves less to do, in the order of
\* these numbers: by FallsEnd no behaviour takes steps for ever.
THEOREM StepsRunOut == HSpec => [][Falls(5, ToDo, ToDo')]_vars
<1>1. /\ HistoryInv /\ ToDoTyped /\ LevelBound /\ ToDoTyped' /\ LevelBound'
      /\ [HNext]_<<vars, historyVars>>
      => [Falls(5, ToDo, ToDo')]_vars
  <2> SUFFICES ASSUME HistoryInv, ToDoTyped, LevelBound, ToDoTyped', LevelBound', Next
               PROVE  Falls(5, ToDo, ToDo')
    BY DEF HNext
  <2>1. /\ k \in Nat /\ edge \in Nat /\ cand \in Nat /\ F2 \in Seq(Item \X Item)
        /\ MinerInv /\ NumItems \in Nat
    BY SizesAssumption DEF HistoryInv, MinerInv, TypeOK
  <2>2. CASE OutputItems \/ ReturnItems \/ PairsInserted \/ Stop
    <3>1. Phase' < Phase
      BY <2>2 DEF OutputItems, ReturnItems, PairsInserted, Stop, Phase
    <3> QED
      BY <3>1, ToDoFalls
  <2>3. CASE InsertPair
    <3>1. Phase' = Phase /\ LevelsLeft' = LevelsLeft
      BY <2>3 DEF InsertPair, Phase, LevelsLeft
    <3>2. ToWalk = Len(F2) - edge /\ ToWalk' = Len(F2) - (edge + 1)
      BY <2>3 DEF InsertPair, ToWalk, inputs
    <3>3. Len(F2) \in Nat
      BY <2>1
    <3>4. ToWalk' < ToWalk
      BY ONLY <2>1, <3>2, <3>3
    <3> QED
      BY <3>1, <3>4, ToDoFalls
  <2>4. CASE StartLevel
    <3>1. Phase' = Phase /\ LevelsLeft' = LevelsLeft
      BY <2>4 DEF StartLevel, Phase, LevelsLeft
    <3>2. /\ ToWalk = Cardinality(NodeSets) + 1 /\ ToWalk' = Cardinality(Ahead)'
          /\ freq' = freq
      BY <2>4 DEF StartLevel, ToWalk
    <3>3. NodeSets \in SUBSET SUBSET Item
      BY <2>1 DEF NodeSets, MinerInv, TypeOK, IsTrie, IsVector, ToSet
    <3>4. Ahead' \in SUBSET NodeSets
      BY <3>2 DEF Ahead, NodeSets
    <3>5. /\ Cardinality(NodeSets) \in Nat /\ Cardinality(Ahead)' \in Nat
          /\ Cardinality(Ahead)' <= Cardinality(NodeSets)
      BY ONLY <3>3, <3>4, FamilySize
    <3>6. ToWalk' < ToWalk
      <4> DEFINE u == Cardinality(NodeSets)
                 v == Cardinality(Ahead)'
      <4>1. u \in Nat /\ v \in Nat /\ v <= u /\ ToWalk = u + 1 /\ ToWalk' = v
        BY ONLY <3>2, <3>5
      <4> HIDE DEF u, v
      <4> QED
        BY ONLY <4>1
    <3> QED
      BY <3>1, <3>6, ToDoFalls
  <2>5. CASE Descend
    <3>1. Phase' = Phase /\ LevelsLeft' = LevelsLeft
      <4>1. pc' \in {"walk", "cand"}
        BY <2>5, DescendMoves
      <4> QED
        BY <2>5, <4>1 DEF Descend, Phase, LevelsLeft
    <3> QED
      BY <2>5, <3>1, DescendFalls, ToDoFalls
  <2>6. CASE Backtrack
    <3>1. Phase' = Phase /\ LevelsLeft' = LevelsLeft
      <4>1. pc' = "walk"
        BY <2>6, BacktrackMoves
      <4> QED
        BY <2>6, <4>1 DEF Backtrack, Phase, LevelsLeft
    <3> QED
      BY <2>6, <3>1, BacktrackFalls, ToDoFalls
  <2>7. CASE TryCandidate \/ CandidatesOver
    <3>1. /\ pc = "cand" /\ pc' \in {"walk", "cand"}
          /\ UNCHANGED <<k, freq, current_string, iter_stack>>
      BY <2>7 DEF TryCandidate, CandidatesOver, walk
    <3>2. Phase' = Phase /\ LevelsLeft' = LevelsLeft
      BY <3>1 DEF Phase, LevelsLeft
    <3>3. ToWalk' = ToWalk /\ Below' = Below
      BY <3>1 DEF ToWalk, Below, Ahead
    <3>4. SiblingList' = SiblingList /\ SiblingList \in Seq(Item) /\ cand \in DOMAIN SiblingList
      BY <3>1, SiblingsTyped DEF SiblingList
    <3>5. Len(SiblingList) \in Nat /\ cand <= Len(SiblingList)
      BY <3>4
    <3>6. SiblingsLeft' < SiblingsLeft
      <4> DEFINE l == Len(SiblingList)
      <4>1. l \in Nat /\ cand <= l /\ SiblingsLeft = l + 1 - cand
        BY <3>1, <3>5 DEF SiblingsLeft
      <4>2. \/ SiblingsLeft' = l + 1 - (cand + 1)
            \/ SiblingsLeft' = 0
        BY <2>7, <3>4 DEF TryCandidate, CandidatesOver, SiblingsLeft
      <4> HIDE DEF l
      <4> QED
        BY ONLY <2>1, <4>1, <4>2
    <3> QED
      BY <3>2, <3>3, <3>6, ToDoFalls
  <2>8. CASE EndLevel
    <3>1. Phase' = Phase
      BY <2>8 DEF EndLevel, Phase
    <3>2. LevelsLeft' = NumItems + 3 - (k + 1) /\ LevelsLeft = NumItems + 3 - k
      BY <2>8 DEF EndLevel, LevelsLeft
    <3>3. LevelsLeft' < LevelsLeft
      BY ONLY <2>1, <3>2
    <3> QED
      BY <3>1, <3>3, ToDoFalls
  <2> QED
    BY <2>2, <2>3, <2>4, <2>5, <2>6, <2>7, <2>8 DEF Next
<1> QED
  BY <1>1, HistoryInvariance, Numbers, LevelBounded, PTL DEF HSpec
=============================================================================
