------------------------------ MODULE Itemsets ------------------------------
(***************************************************************************)
(* The vocabulary every miner of the repository shares: items are the      *)
(* indices 0 .. num_items-1 of the count vector, transactions are numbered *)
(* in the order they are scanned, and a transaction is read as a set of    *)
(* items.  The support of an itemset is the number of transactions that    *)
(* contain it, which is what the tidlist intersections compute.            *)
(***************************************************************************)
EXTENDS Integers, FiniteSets

CONSTANTS NumItems,  \* TS_Counter::num_items, the length of the count vector
          NumTxn     \* TS_Counter::num_transactions

ASSUME SizesAssumption == NumItems \in Nat /\ NumTxn \in Nat

Item == 0 .. NumItems - 1
Tid  == 0 .. NumTxn - 1

\* A database maps each transaction id to the items of that transaction.
Database == [Tid -> SUBSET Item]

Itemset == (SUBSET Item) \ {{}}

\* The transactions an itemset occurs in: what a Tid_List of it denotes.
Tidset(db, X) == {t \in Tid : X \subseteq db[t]}

Support(db, X) == Cardinality(Tidset(db, X))

\* The count vector, as the counter fills it for single items.
Count(db, i) == Support(db, {i})

\* Vertical_DB::Greater_Freq: decreasing count, equal counts by item index.
GreaterFreq(db, i, j) ==
  IF Count(db, i) = Count(db, j) THEN i < j ELSE Count(db, i) > Count(db, j)

\* The elements of a set as a vector in a strict total order of theirs.
Sorted(S, Before(_, _)) ==
  [n \in 1 .. Cardinality(S) |->
     CHOOSE x \in S : Cardinality({y \in S : Before(y, x)}) = n - 1]

\* a is the item a vector holding X in greater_freq order ends with.
IsLast(db, a, X) == a \in X /\ \A i \in X \ {a} : GreaterFreq(db, i, a)

\* Mutant of Siblings: joins itemsets that differ in any one item.
AnyJoin(db, x, y) == \E a \in x, b \in y : a # b /\ x \ {a} = y \ {b}

\* x and y are vectors of one length that differ in their last item only: the
\* pairs Trie::Candidate_Walk joins to candidates.
Siblings(db, x, y) ==
  \E a \in x, b \in y :
    /\ a # b
    /\ x \ {a} = y \ {b}
    /\ IsLast(db, a, x)
    /\ IsLast(db, b, y)

\* The pairs of siblings of a trie: what its candidate walks yield.
SiblingPairs(db, trie) ==
  {p \in SUBSET trie : \E x, y \in p : p = {x, y} /\ Siblings(db, x, y)}

\* Mutant of LastItem: last in the order of the item numbers.
HighestItem(db, y) == CHOOSE b \in y : \A i \in y : i <= b

LastItem(db, y) == CHOOSE b \in y : IsLast(db, b, y)

Frequent(db, minsup, X) == Support(db, X) >= minsup

\* The itemsets of n items that occur in at least minsup transactions.
FrequentOfSize(db, minsup, n) ==
  {X \in Itemset : Cardinality(X) = n /\ Frequent(db, minsup, X)}

\* The line a miner writes for an itemset: its items and their frequency.
Pattern(X, n) == [items |-> X, count |-> n]
=============================================================================
