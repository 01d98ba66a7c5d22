------------------------------ MODULE Counter -------------------------------
(***************************************************************************)
(* TS_Counter (2-items/Count.cxx) as its callers use it: items and, for    *)
(* level 2, pairs of frequent items are counted.  The scans are kDCI's     *)
(* (2-items/kdci.hxx): they number the items that reach min_count in the   *)
(* order of their counts, and count pairs in an array of counters as       *)
(* narrow as the largest item count allows.  The counts go to an upper     *)
(* triangular matrix over F, and the frequent pairs from there, by a walk, *)
(* to the adjacency lists of the graph F2.                                 *)
(***************************************************************************)
EXTENDS Itemsets, Sequences, FiniteSetsExt

CONSTANTS Databases,  \* the databases considered
          Supports,   \* the absolute supports considered
          Percents,   \* the relative supports considered, in percent
          Unset,      \* what an int that nothing was assigned to may hold
          Byte, Short, Word  \* how many values the unsigned integers hold

ASSUME CounterAssumption ==
  /\ Databases \subseteq Database
  /\ Supports \subseteq Nat \ {0}
  /\ Percents \subseteq 0 .. 100
  /\ Unset \subseteq Int
  /\ {Byte, Short, Word} \subseteq Nat \ {0}
  /\ NumTxn < Word /\ NumItems + 1 < Word

VARIABLES
  db,
  relative, percent,  \* relative_support and real_support
  level,              \* 1 or 2
  support,
  num_items, count,   \* the count vector and its length
  unmap, max_support, \* kDCI's numbering of items and largest count
  F,
  item_f,             \* the frequent items' indices in the matrix
  tid,                \* the next transaction of the second scan
  buf,                \* the counters of pairs
  two_items,          \* the matrix, row after row
  i, j, k,            \* the loops over the pairs, and the walk's pointer
  F2,                 \* adjacency lists
  pc

inputs == <<db, relative, percent, level, support>>
items == <<num_items, count, unmap, max_support>>
loops == <<i, j, k>>
vars == <<inputs, items, F, item_f, tid, buf, two_items, loops, F2, pc>>

-----------------------------------------------------------------------------

\* get_m1(), the number of items kDCI counts pairs of.
m1 == Cardinality(DOMAIN unmap)

min_count == IF relative THEN 1 ELSE support

\* Numberings of a set of items by increasing count, as std::sort may yield.
Numberings(S, c) ==
  {f \in [0 .. Cardinality(S) - 1 -> S] :
     \A x, y \in DOMAIN f : x < y => f[x] # f[y] /\ c[f[x]] <= c[f[y]]}

\* An integer type of the chain of only_second_scan's instances.
Width(n) == IF n < Byte THEN Byte ELSE IF n < Short THEN Short ELSE Word

ItemWidth == Width(m1 + 1)

\* Mutant of CounterWidth: chosen by the number of items.
CounterWidthItems == Width(m1)

CounterWidth == Width(max_support)

\* direct_position2: the pair x, y, x < y, in the counters of pairs.
Position(x, y) == x * (m1 - 1) - (x * (x + 1)) \div 2 + y - 1

Rows == Cardinality(F)

\* Mutant of Elt: without the offset of the diagonal.
EltShifted(u, v) ==
  (Rows * (Rows + 1) - (Rows - u) * (Rows - u + 1)) \div 2 + v

\* UT_Matrix::elt.
Elt(u, v) == (Rows * (Rows + 1) - (Rows - u) * (Rows - u + 1)) \div 2 + v - u

Matrix == 0 .. (Rows * (Rows + 1)) \div 2 - 1

\* Undir_Mtx_Graph::add.
AddToMatrix(G, u, v, w) ==
  LET e == IF u > v THEN Elt(v, u) ELSE Elt(u, v)
  IN  [G EXCEPT ![e] = @ + w]

\* Adjacency::add: a neighbor already there gets the weight.
AddToList(s, v, w) ==
  IF \E n \in DOMAIN s : s[n].neighbor = v
  THEN [n \in DOMAIN s |->
          IF s[n].neighbor = v THEN [s[n] EXCEPT !.weight = @ + w] ELSE s[n]]
  ELSE Append(s, [neighbor |-> v, weight |-> w])

\* Graph::addu.
AddEdge(G, u, v, w) ==
  [G EXCEPT ![u] = AddToList(@, v, w), ![v] = AddToList(@, u, w)]

-----------------------------------------------------------------------------

Init ==
  /\ db \in Databases
  /\ level \in {1, 2}
  /\ \/ relative = FALSE /\ percent = 0 /\ support \in Supports
     \/ relative = TRUE /\ percent \in Percents /\ support \in Unset
  /\ num_items = 0 /\ count = << >>
  /\ unmap = << >> /\ max_support = 0
  /\ F = {}
  /\ item_f = << >>
  /\ tid = 0
  /\ buf = << >>
  /\ two_items = << >>
  /\ i = 0 /\ j = 0 /\ k = 0
  /\ F2 = << >>
  /\ pc = "items"

\* count_1_items_local: the vector ends with the last item that occurs.
CountItems ==
  /\ pc = "items"
  /\ num_items' = Max({x + 1 : x \in UNION Range(db)} \cup {0})
  /\ count' = [x \in 0 .. num_items' - 1 |-> Count(db, x)]
  /\ LET counted == {x \in 0 .. num_items' - 1 : count'[x] >= min_count}
     IN  /\ unmap' \in Numberings(counted, count')
         /\ max_support' = Max({count'[x] : x \in counted} \cup {0})
  /\ pc' = "large"
  /\ UNCHANGED <<inputs, F, item_f, tid, buf, two_items, loops, F2>>

\* large_items, and whether count_items_serial goes on to pairs.
LargeItems ==
  /\ pc = "large"
  /\ F' = F \cup {x \in 0 .. num_items - 1 : count[x] >= support}
  /\ pc' = IF level = 2 /\ F' # {} THEN "map" ELSE "done"
  /\ UNCHANGED <<inputs, items, item_f, tid, buf, two_items, loops, F2>>

\* count_2_items_local up to the second scan.
MapItems ==
  /\ pc = "map"
  /\ item_f' = [x \in 0 .. num_items - 1 |->
                  IF x \in F THEN Cardinality({y \in F : y < x}) ELSE -100]
  /\ F2' = [u \in 0 .. Rows - 1 |-> << >>]
  /\ two_items' = [e \in Matrix |-> 0]
  /\ buf' = [p \in 0 .. (m1 * (m1 - 1)) \div 2 - 1 |-> 0]
  /\ pc' = IF max_support = 0 \/ m1 < 2 THEN "prune" ELSE "pairs"
  /\ UNCHANGED <<inputs, items, F, tid, loops>>

\* The numbers of a transaction's items, held in the narrow item type.
Mapped(t) == {x % ItemWidth : x \in {y \in DOMAIN unmap : unmap[y] \in db[t]}}

\* only_second_scan reads a transaction and counts its pairs.
CountPairs ==
  /\ pc = "pairs"
  /\ tid \in Tid
  /\ LET positions == {Position(p[1], p[2]) :
                         p \in {q \in Mapped(tid) \X Mapped(tid) : q[1] < q[2]}}
     IN  buf' = [p \in DOMAIN buf |->
                   IF p \in positions
                   THEN (buf[p] + 1) % CounterWidth
                   ELSE buf[p]]
  /\ tid' = tid + 1
  /\ UNCHANGED <<inputs, items, F, item_f, two_items, loops, F2, pc>>

PairsCounted ==
  /\ pc = "pairs"
  /\ tid \notin Tid
  /\ i' = 0 /\ j' = 1 /\ k' = 0
  /\ pc' = "copy"
  /\ UNCHANGED <<inputs, items, F, item_f, tid, buf, two_items, F2>>

\* The counters are read in the order of the loops, and those of pairs of
\* frequent items added to the matrix.
CopyPair ==
  /\ pc = "copy"
  /\ i < m1 - 1
  /\ LET u == item_f[unmap[i]]
         v == item_f[unmap[j]]
     IN  two_items' = IF u >= 0 /\ v >= 0
                      THEN AddToMatrix(two_items, u, v, buf[k])
                      ELSE two_items
  /\ k' = k + 1
  /\ i' = IF j = m1 - 1 THEN i + 1 ELSE i
  /\ j' = IF j = m1 - 1 THEN i + 2 ELSE j + 1
  /\ UNCHANGED <<inputs, items, F, item_f, tid, buf, F2, pc>>

PairsCopied ==
  /\ pc = "copy"
  /\ i >= m1 - 1
  /\ i' = 0 /\ j' = 0 /\ k' = 0
  /\ pc' = "prune"
  /\ UNCHANGED <<inputs, items, F, item_f, tid, buf, two_items, F2>>

\* Mutant of NextEntry: a row starts at column 0.
NextEntrySquare ==
  /\ k' = k + 1
  /\ i' = IF j + 1 = Rows THEN i + 1 ELSE i
  /\ j' = IF j + 1 = Rows THEN 0 ELSE j + 1

\* Const_Walk::next: a row starts at the diagonal.
NextEntry ==
  /\ k' = k + 1
  /\ i' = IF j + 1 = Rows THEN i + 1 ELSE i
  /\ j' = IF j + 1 = Rows THEN i + 1 ELSE j + 1

\* prune_2_items at the walk's place (i, j).
PruneEntry ==
  /\ pc = "prune"
  /\ k \in Matrix
  /\ F2' = IF two_items[k] >= support /\ i # j
           THEN AddEdge(F2, i, j, two_items[k])
           ELSE F2
  /\ NextEntry
  /\ UNCHANGED <<inputs, items, F, item_f, tid, buf, two_items, pc>>

Pruned ==
  /\ pc = "prune"
  /\ k \notin Matrix
  /\ pc' = "done"
  /\ UNCHANGED <<inputs, items, F, item_f, tid, buf, two_items, loops, F2>>

Next ==
  \/ CountItems
  \/ LargeItems
  \/ MapItems
  \/ CountPairs
  \/ PairsCounted
  \/ CopyPair
  \/ PairsCopied
  \/ PruneEntry
  \/ Pruned

\* One process, and nothing it waits for.
Spec == Init /\ [][Next]_vars /\ WF_vars(Next)

-----------------------------------------------------------------------------

TypeOK ==
  /\ db \in Databases /\ support \in Int
  /\ num_items \in 0 .. NumItems
  /\ DOMAIN count = 0 .. num_items - 1
  /\ Range(unmap) \subseteq DOMAIN count
  /\ max_support \in 0 .. NumTxn
  /\ F \subseteq DOMAIN count
  /\ tid \in 0 .. NumTxn
  /\ \A p \in DOMAIN buf : buf[p] \in 0 .. CounterWidth - 1
  /\ pc = "prune" /\ k \in Matrix => i \in 0 .. j /\ j \in 0 .. Rows - 1
  /\ \A u \in DOMAIN F2 :
       F2[u] \in Seq([neighbor : 0 .. Rows - 1, weight : 0 .. NumTxn])
  /\ pc \in {"items", "large", "map", "pairs", "copy", "prune", "done"}

\* How many of the first n transactions contain a and b.
PairCount(d, n, a, b) == Cardinality({t \in Tid : t < n /\ {a, b} \subseteq d[t]})

(***************************************************************************)
(* During the second scan the counter of each pair of items that are       *)
(* numbered holds the number of transactions read that contain both: no    *)
(* two pairs share a counter, and none of the narrow counters and item     *)
(* numbers wraps around.                                                   *)
(***************************************************************************)
CountersExact ==
  pc = "pairs" =>
    \A x, y \in DOMAIN unmap :
      x < y => buf[Position(x, y)] = PairCount(db, tid, unmap[x], unmap[y])

f_item(u) == CHOOSE x \in F : item_f[x] = u

(***************************************************************************)
(* The results are the frequent items and, for level 2, a graph whose      *)
(* lists hold each frequent pair once from either end with its support:    *)
(* three ways of laying out a triangle, by kDCI's formula, by the matrix   *)
(* and by its walk, agree, whatever order kDCI gives the items.            *)
(***************************************************************************)
PairsExact ==
  pc = "done" /\ support > 0 =>
    /\ F = {x \in Item : Frequent(db, support, {x})}
    /\ level = 2 =>
         /\ DOMAIN F2 = 0 .. Rows - 1
         /\ \A u \in DOMAIN F2 :
              LET partners == {v \in DOMAIN F2 \ {u} :
                                 Frequent(db, support, {f_item(u), f_item(v)})}
              IN  /\ Len(F2[u]) = Cardinality(partners)
                  /\ Range(F2[u]) =
                       {[neighbor |-> v,
                         weight |-> Support(db, {f_item(u), f_item(v)})] :
                           v \in partners}

\* A relative support stands for this number of transactions, truncated
\* (Count.cxx 107: "support = (int) trunc(num_transactions * real_support)").
AbsoluteSupport == (NumTxn * percent) \div 100

(***************************************************************************)
(* The miners take support from the counter when it is done (Miner.cxx     *)
(* 114: "counter knows absolute support").                                 *)
(***************************************************************************)
SupportKnown == pc = "done" /\ relative => support = AbsoluteSupport

-----------------------------------------------------------------------------
(***************************************************************************)
(* The inductive invariant behind these properties, phase by phase.        *)
(***************************************************************************)

Numbered == {x \in DOMAIN count : count[x] >= min_count}

\* What the first scan leaves: no item with a count is past the vector, and
\* kDCI's numbers are one for each item that reaches min_count.
ItemsInv ==
  pc # "items" =>
    /\ \A x \in Item : Count(db, x) > 0 => x < num_items
    /\ count = [x \in 0 .. num_items - 1 |-> Count(db, x)]
    /\ m1 \in 0 .. NumItems /\ DOMAIN unmap = 0 .. m1 - 1
    /\ \A x, y \in DOMAIN unmap : unmap[x] = unmap[y] => x = y
    /\ Range(unmap) = Numbered
    /\ \A x \in Numbered : count[x] <= max_support

\* Whether the pairs are, or have been, counted.
Pairwise ==
  \/ pc \in {"pairs", "copy", "prune"}
  \/ pc = "done" /\ level = 2 /\ F # {}

LargeInv ==
  /\ relative = FALSE => support > 0
  /\ pc \in {"items", "large"} => F = {}
  /\ pc \notin {"items", "large"} =>
       F = {x \in DOMAIN count : count[x] >= support}
  /\ pc \in {"map", "pairs", "copy", "prune"} => level = 2 /\ F # {}
  /\ ~ Pairwise => loops = <<0, 0, 0>> /\ tid = 0 /\ buf = << >> /\ F2 = << >>

\* The place of a pair of frequent items in the matrix.
Cell(a, b) ==
  IF item_f[a] > item_f[b] THEN Elt(item_f[b], item_f[a])
                           ELSE Elt(item_f[a], item_f[b])

NoLists == [u \in 0 .. Rows - 1 |-> << >>]

MapInv ==
  Pairwise =>
    /\ item_f = [x \in DOMAIN count |->
                   IF x \in F THEN Cardinality({y \in F : y < x}) ELSE -100]
    /\ two_items \in [Matrix -> 0 .. NumTxn]
    /\ DOMAIN buf = 0 .. (m1 * (m1 - 1)) \div 2 - 1

ScanInv ==
  pc \in {"pairs", "copy"} => m1 >= 2 /\ F2 = NoLists

\* The pairs read from the counters are those before i and j.
CopyInv ==
  /\ pc = "pairs" => two_items = [e \in Matrix |-> 0]
  /\ pc = "copy" =>
       /\ i \in 0 .. m1 - 1
       /\ i < m1 - 1 => j \in i + 1 .. m1 - 1 /\ k = Position(i, j)
       /\ \A x, y \in DOMAIN unmap :
            x < y =>
              /\ buf[Position(x, y)] = Support(db, {unmap[x], unmap[y]})
              /\ {unmap[x], unmap[y]} \subseteq F =>
                   two_items[Cell(unmap[x], unmap[y])] =
                     IF x < i \/ (x = i /\ y < j)
                     THEN Support(db, {unmap[x], unmap[y]})
                     ELSE 0

MatrixInv ==
  Pairwise /\ pc \in {"prune", "done"} /\ support > 0 =>
    \A a, b \in F : a # b => two_items[Cell(a, b)] = Support(db, {a, b})

\* The walk's pointer follows its row and column to the matrix's end.
WalkInv ==
  Pairwise /\ pc \in {"prune", "done"} =>
    \/ /\ pc = "prune"
       /\ j \in 0 .. Rows - 1 /\ i \in 0 .. j /\ k = Elt(i, j)
    \/ i = Rows /\ k \notin Matrix

CellOf(u, v) == IF u > v THEN Elt(v, u) ELSE Elt(u, v)

\* The walk has passed the pair u, v.
Passed(u, v) ==
  IF u < v THEN u < i \/ (u = i /\ v < j) ELSE v < i \/ (v = i /\ u < j)

Partners(u) ==
  {v \in 0 .. Rows - 1 :
     v # u /\ Passed(u, v) /\ two_items[CellOf(u, v)] >= support}

Weights(u) == [v \in 0 .. Rows - 1 |-> two_items[CellOf(u, v)]]

\* A list holds each of these neighbors once, with its weight.
Lists(s, neighbors, weights) ==
  /\ s \in Seq([neighbor : DOMAIN weights, weight : 0 .. NumTxn])
  /\ Len(s) = Cardinality(neighbors)
  /\ \A n \in 1 .. Len(s) : /\ s[n].neighbor \in neighbors
                           /\ s[n].weight = weights[s[n].neighbor]
  /\ \A v \in neighbors : \E n \in 1 .. Len(s) : s[n].neighbor = v

ListsInv ==
  Pairwise /\ pc \in {"prune", "done"} =>
    /\ DOMAIN F2 = 0 .. Rows - 1
    /\ \A u \in 0 .. Rows - 1 : Lists(F2[u], Partners(u), Weights(u))

CountInv ==
  /\ TypeOK
  /\ ItemsInv
  /\ LargeInv
  /\ MapInv
  /\ ScanInv
  /\ CountersExact
  /\ CopyInv
  /\ MatrixInv
  /\ WalkInv
  /\ ListsInv
=============================================================================
