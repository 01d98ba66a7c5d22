------------------------------ MODULE FPGrowth ------------------------------
(***************************************************************************)
(* The FP-Growth miner: Pattern_Miner::discover (fp-tree/Pattern_Miner.cxx *)
(* 71-134) and FP_Tree (fp-tree/FP_Tree.cxx) with its tries (FP_Trie.hxx). *)
(*                                                                         *)
(* A tree is the function from the paths of its nodes, which no two nodes  *)
(* share, to their counts; the root is not a node of it.  The nodes linked *)
(* in the item table under a symbol are those whose path ends in it.  The  *)
(* recursion of fp_growth is a stack of frames, the innermost first.       *)
(***************************************************************************)
EXTENDS Itemsets, Combinations, Sequences, SequencesExt, Bags

CONSTANTS Databases,  \* the databases considered
          Supports    \* the absolute supports considered

ASSUME FPGrowthAssumption ==
  /\ Databases \subseteq Database
  /\ Supports \subseteq Nat \ {0}

VARIABLES
  db, epsilon,     \* the transactions and the absolute support
  count, F,        \* TS_Counter's counts of the items and frequent items
  tid,             \* the next transaction of the scan
  tree,            \* the FP-tree of the database
  stack,           \* the calls of fp_growth that have not returned
  out,             \* the bag of the lines written
  pattern_counts,  \* the numbers of patterns by length that are printed
  pc

inputs == <<db, epsilon, count, F>>
vars == <<inputs, tid, tree, stack, out, pattern_counts, pc>>

-----------------------------------------------------------------------------
(* Trees.                                                                  *)

EmptyTree == << >>

\* The nodes on a path from the root: its prefixes but the empty one.
NodesOn(s) == Prefixes(s) \ {<< >>}

\* Mutant of Insert: only the last node of the path gets the count.
InsertLast(t, s, n) ==
  [p \in DOMAIN t \cup NodesOn(s) |->
     (IF p \in DOMAIN t THEN t[p] ELSE 0) + (IF p = s THEN n ELSE 0)]

\* Adds n to the node of each prefix, making those that are missing.
Insert(t, s, n) ==
  [p \in DOMAIN t \cup NodesOn(s) |->
     (IF p \in DOMAIN t THEN t[p] ELSE 0)
       + (IF p \in NodesOn(s) THEN n ELSE 0)]

\* By decreasing count, equal counts by item.
Precedes(counts, i, j) ==
  IF counts[i] = counts[j] THEN i < j ELSE counts[i] > counts[j]

InOrder(S, counts) == Sorted(S, LAMBDA i, j : Precedes(counts, i, j))

Symbols(t) == {Last(p) : p \in DOMAIN t}

NodesOf(t, s) == {p \in DOMAIN t : Last(p) = s}

SumOver(P, t) == FoldSet(LAMBDA p, n : n + t[p], 0, P)

\* The items on the way to a node, itself excluded.
PrefixItems(p) == ToSet(Front(p))

\* count_symbols: the counts of all items in the prefix paths of s.
PrefixCounts(t, s) ==
  [i \in Item |-> SumOver({p \in NodesOf(t, s) : i \in PrefixItems(p)}, t)]

Large(counts) == {i \in Item : counts[i] >= epsilon}

\* Mutant of ConditionalTree: each prefix path with the count 1.
ConditionalTreeOnes(t, s, counts) ==
  LET Add(p, u) ==
        Insert(u, InOrder(PrefixItems(p) \cap Large(counts), counts), 1)
  IN  FoldSet(Add, EmptyTree, NodesOf(t, s))

\* insert_cond_patterns: each prefix path with the count of its node, without
\* infrequent items and in the order of the new counts.
ConditionalTree(t, s, counts) ==
  LET Add(p, u) ==
        Insert(u, InOrder(PrefixItems(p) \cap Large(counts), counts), t[p])
  IN  FoldSet(Add, EmptyTree, NodesOf(t, s))

SinglePath(t) == \A p, q \in DOMAIN t : Len(p) = Len(q) => p = q

\* The items and the counts down a single path; symbols below epsilon pruned.
Path(t) ==
  LET nodeAt(n) == CHOOSE p \in DOMAIN t : Len(p) = n
      info(n) == [symbol |-> Last(nodeAt(n)), count |-> t[nodeAt(n)]]
      pruned[n \in 0 .. Cardinality(DOMAIN t)] ==
        IF n = 0 THEN << >>
        ELSE IF info(n).count >= epsilon THEN Append(pruned[n - 1], info(n))
        ELSE pruned[n - 1]
  IN  pruned[Cardinality(DOMAIN t)]

-----------------------------------------------------------------------------
(* The miner.                                                              *)

\* A call of fp_growth for the pattern alpha on a tree ordered by counts.
Call(t, counts, alpha, n) ==
  [tree |-> t, counts |-> counts, alpha |-> alpha, count |-> n,
   left |-> Symbols(t)]

Init ==
  /\ db \in Databases
  /\ epsilon \in Supports
  /\ count = [i \in Item |-> Count(db, i)]
  /\ F = {i \in Item : Frequent(db, epsilon, {i})}
  /\ tid = 0
  /\ tree = EmptyTree
  /\ stack = << >>
  /\ out = EmptyBag
  /\ pattern_counts = [k \in {} |-> 0]
  /\ pc = "scan"

\* insert(t): infrequent items pruned, the others by decreasing count.
InsertTransaction ==
  /\ pc = "scan"
  /\ tid \in Tid
  /\ tree' = Insert(tree, InOrder(db[tid] \cap F, count), 1)
  /\ tid' = tid + 1
  /\ UNCHANGED <<inputs, stack, out, pattern_counts, pc>>

\* discover_patterns: the frequent items are written from F.
OutputItems ==
  /\ pc = "scan"
  /\ tid \notin Tid
  /\ out' = SetToBag({Pattern({i}, count[i]) : i \in F})
  /\ stack' = <<Call(tree, count, {}, 0)>>
  /\ pc' = "grow"
  /\ UNCHANGED <<inputs, tid, tree, pattern_counts>>

\* pattern_counts[l] += n, for each l of a set of lengths.
AddCounts(n, lengths) ==
  pattern_counts' =
    [l \in DOMAIN pattern_counts \cup lengths |->
       (IF l \in DOMAIN pattern_counts THEN pattern_counts[l] ELSE 0)
         + (IF l \in lengths THEN n[l] ELSE 0)]

\* Mutant of Combination: with the count of the last node of the path.
CombinationLast(call, path, c) ==
  Pattern({path[m].symbol : m \in c} \cup call.alpha, path[Len(path)].count)

\* A combination of the nodes of a path, with alpha: the count is that of the
\* rarest, min(minimum_count(c), alpha.count).
Combination(call, path, c) ==
  LET counts == {path[m].count : m \in c}
  IN  Pattern({path[m].symbol : m \in c} \cup call.alpha,
              Min(counts \cup IF call.alpha = {} THEN {} ELSE {call.count}))

\* fp_growth of a single path: every combination of its items, with alpha.
GrowSinglePath ==
  /\ pc = "grow"
  /\ stack # << >>
  /\ SinglePath(Head(stack).tree)
  /\ LET call == Head(stack)
         path == Path(call.tree)
         n == Len(path)
         a == Cardinality(call.alpha)
     IN  /\ out' = out (+) SetToBag({Combination(call, path, c) :
                                       c \in AllCombinations(n)})
         /\ AddCounts([l \in a + 1 .. a + n |-> Choose(n, l - a)],
                      a + 1 .. a + n)
  /\ stack' = Tail(stack)
  /\ UNCHANGED <<inputs, tid, tree, pc>>

\* One round of fp_growth's loop over the item table, an ordered map: beta is
\* written, but that a single item is not, and count_symbols counts the items
\* of a conditional tree.
GrowSymbol ==
  /\ pc = "grow"
  /\ stack # << >>
  /\ ~ SinglePath(Head(stack).tree)
  /\ Head(stack).left # {}
  /\ LET call == Head(stack)
         symbol == Min(call.left)
         beta == call.alpha \cup {symbol}
         n == call.counts[symbol]
     IN  /\ IF Cardinality(beta) > 1 /\ n >= epsilon
            THEN /\ out' = out (+) SetToBag({Pattern(beta, n)})
                 /\ AddCounts([l \in {Cardinality(beta)} |-> 1],
                              {Cardinality(beta)})
            ELSE UNCHANGED <<out, pattern_counts>>
         /\ stack' =
              <<Call(EmptyTree, PrefixCounts(call.tree, symbol), beta, n)>>
                \o <<[call EXCEPT !.left = @ \ {symbol}]>> \o Tail(stack)
  /\ pc' = "condition"
  /\ UNCHANGED <<inputs, tid, tree>>

\* The conditional tree is filled, and mined unless it is empty.
GrowConditional ==
  /\ pc = "condition"
  /\ LET call == stack[1]
         caller == stack[2]
         symbol == CHOOSE s \in call.alpha : s \notin caller.alpha
         cond == ConditionalTree(caller.tree, symbol, call.counts)
     IN  stack' = IF cond = EmptyTree
                  THEN Tail(stack)
                  ELSE <<Call(cond, call.counts, call.alpha, call.count)>>
                         \o Tail(stack)
  /\ pc' = "grow"
  /\ UNCHANGED <<inputs, tid, tree, out, pattern_counts>>

\* Mutant of ReturnFromGrowth: the call is not left.
ReturnNot ==
  /\ pc = "grow"
  /\ stack # << >>
  /\ ~ SinglePath(Head(stack).tree)
  /\ Head(stack).left = {}
  /\ UNCHANGED vars

ReturnFromGrowth ==
  /\ pc = "grow"
  /\ stack # << >>
  /\ ~ SinglePath(Head(stack).tree)
  /\ Head(stack).left = {}
  /\ stack' = Tail(stack)
  /\ UNCHANGED <<inputs, tid, tree, out, pattern_counts, pc>>

\* print_pattern_counts: the lengths 0 and 1 are set here.
PrintCounts ==
  /\ pc = "grow"
  /\ stack = << >>
  /\ pattern_counts' =
       [l \in DOMAIN pattern_counts \cup {0, 1} |->
          CASE l = 0 -> 1
            [] l = 1 -> Cardinality(F)
            [] OTHER -> pattern_counts[l]]
  /\ pc' = "done"
  /\ UNCHANGED <<inputs, tid, tree, stack, out>>

Next ==
  \/ InsertTransaction
  \/ OutputItems
  \/ GrowSinglePath
  \/ GrowSymbol
  \/ GrowConditional
  \/ ReturnFromGrowth
  \/ PrintCounts

\* One process, and nothing it waits for.
Spec == Init /\ [][Next]_vars /\ WF_vars(Next)

-----------------------------------------------------------------------------

TypeOK ==
  /\ db \in Databases /\ epsilon \in Supports
  /\ tid \in 0 .. NumTxn
  /\ \A p \in DOMAIN tree : p \in Seq(Item) /\ IsInjective(p)
  /\ \A p \in DOMAIN tree : tree[p] \in 1 .. NumTxn
  /\ \A n \in 1 .. Len(stack) :
       /\ stack[n].alpha \subseteq Item
       /\ stack[n].left \subseteq Symbols(stack[n].tree)
       /\ stack[n].counts \in [Item -> 0 .. NumTxn]
  /\ IsABag(out)
  /\ DOMAIN out \subseteq [items : Itemset, count : 1 .. NumTxn]
  \* The length 1 is printed even if there is no item.
  /\ DOMAIN pattern_counts \subseteq (0 .. NumItems) \cup {1}
  /\ pc \in {"scan", "grow", "condition", "done"}

\* How many of the transactions a tree stands for contain X, which is not
\* empty: each is counted at its node of the last item of X.
SupportIn(t, X) ==
  SumOver({p \in DOMAIN t : Last(p) \in X /\ X \subseteq ToSet(p)}, t)

(***************************************************************************)
(* The tree of the call that runs stands for the transactions with the     *)
(* items of alpha, projected on those that are frequent with alpha and     *)
(* come before them: however often the paths were cut, reordered by other  *)
(* counts and merged, each support in it is the one in the database.       *)
(***************************************************************************)
TreesExact ==
  pc = "grow" /\ stack # << >> =>
    LET call == Head(stack)
    IN  /\ \A X \in (SUBSET Symbols(call.tree)) \ {{}} :
             SupportIn(call.tree, X) = Support(db, call.alpha \cup X)
        /\ \A i \in Symbols(call.tree) :
             call.counts[i] = Support(db, call.alpha \cup {i})

(***************************************************************************)
(* All frequent itemsets are written with their supports, each once: the   *)
(* combinations of a single path make up for the recursion it saves, and   *)
(* no other branch writes them.  Only when the tree of the whole database  *)
(* is a single path are single items written again, after the lines        *)
(* discover_patterns has written for them.                                 *)
(***************************************************************************)
FoundExact ==
  pc = "done" =>
    LET frequent == {X \in Itemset : Frequent(db, epsilon, X)}
    IN  out = [l \in {Pattern(X, Support(db, X)) : X \in frequent} |->
                 IF Cardinality(l.items) = 1 /\ SinglePath(tree) THEN 2 ELSE 1]

(***************************************************************************)
(* The numbers printed are those of the frequent itemsets of each length,  *)
(* though single paths are counted by formula (FP_Tree.cxx 502: "print     *)
(* numbers of frequent patterns found").                                   *)
(***************************************************************************)
NumbersExact ==
  pc = "done" =>
    /\ {0, 1} \subseteq DOMAIN pattern_counts
    /\ \A l \in 1 .. NumItems :
         Cardinality(FrequentOfSize(db, epsilon, l)) =
           IF l \in DOMAIN pattern_counts THEN pattern_counts[l] ELSE 0

(***************************************************************************)
(* The inductive invariant.  Each tree is the one grown from the           *)
(* transactions with alpha, projected on the items that are large in its   *)
(* own counts; what a call still owes are the frequent itemsets of alpha   *)
(* and such items whose last, in its order, is a symbol left.              *)
(***************************************************************************)

\* The tree that has for each transaction in T the path of its vector.
Grown(T, vectors) ==
  [p \in UNION {NodesOn(vectors[t]) : t \in T} |->
     Cardinality({t \in T : p \in NodesOn(vectors[t])})]

VectorsBy(counts) == [t \in Tid |-> InOrder(db[t] \cap Large(counts), counts)]

FrequentSets == {X \in Itemset : Frequent(db, epsilon, X)}

IsLastBy(counts, s, X) ==
  s \in X /\ \A i \in X \ {s} : Precedes(counts, i, s)

Owed(call, left) ==
  {Z \in FrequentSets :
     \E X \in SUBSET Large(call.counts), s \in left :
       IsLastBy(call.counts, s, X) /\ Z = call.alpha \cup X}

\* The innermost call has no tree yet when its items are counted.
Unfilled == IF pc = "condition" THEN 1 ELSE 0

LeftIn(calls, unfilled, n) ==
  IF n = unfilled THEN Large(calls[n].counts) ELSE calls[n].left

OwedByAll(calls, unfilled) ==
  UNION {Owed(calls[n], LeftIn(calls, unfilled, n)) : n \in 1 .. Len(calls)}

InputInv ==
  /\ db \in Databases /\ epsilon \in Supports
  /\ count = [i \in Item |-> Count(db, i)]
  /\ F = {i \in Item : Frequent(db, epsilon, {i})}

MainTreeInv ==
  /\ tid \in 0 .. NumTxn
  /\ tree = Grown(0 .. tid - 1, VectorsBy(count))
  /\ pc # "scan" => tid = NumTxn

CountsInv(call) ==
  /\ call.alpha \subseteq Item
  /\ call.counts \in [Item -> 0 .. NumTxn]
  /\ \A i \in Large(call.counts) :
       /\ i \notin call.alpha
       /\ call.counts[i] = Support(db, call.alpha \cup {i})
  /\ call.count = IF call.alpha = {} THEN 0 ELSE Support(db, call.alpha)

TreeInv(call) ==
  /\ call.tree = Grown(Tidset(db, call.alpha), VectorsBy(call.counts))
  /\ call.left \subseteq Large(call.counts)
  /\ SinglePath(call.tree) => call.left = Large(call.counts)
  /\ call.alpha = {} => call.counts = count /\ call.tree = tree

UnfilledInv(call) ==
  call.alpha # {} /\ call.tree = EmptyTree /\ call.left = {}

\* The inner call is for the symbol s of the outer one, which is not left, and
\* looks at what precedes s only.
Within(inner, outer, s) ==
  /\ s \in Large(outer.counts) \ outer.left
  /\ s \in inner.alpha
  /\ outer.alpha \subseteq inner.alpha
  /\ \A i \in inner.alpha \cup Large(inner.counts) :
       \/ i \in outer.alpha
       \/ i = s
       \/ i \in Large(outer.counts) /\ Precedes(outer.counts, i, s)

CallsInv(calls, unfilled) ==
  /\ \A n \in 1 .. Len(calls) :
       /\ CountsInv(calls[n])
       /\ n = unfilled => UnfilledInv(calls[n])
       /\ n # unfilled => TreeInv(calls[n])
  /\ \A m, n \in 1 .. Len(calls) :
       m < n => \E s \in Item : Within(calls[m], calls[n], s)
  /\ unfilled = 1 =>
       /\ Len(calls) >= 2
       /\ \E s \in Item \ calls[2].alpha :
            /\ Within(calls[1], calls[2], s)
            /\ calls[1].alpha = calls[2].alpha \cup {s}
            /\ calls[1].counts = PrefixCounts(calls[2].tree, s)

StackInv ==
  /\ CallsInv(stack, Unfilled)
  /\ pc \in {"scan", "done"} => stack = << >>

\* The lines written when the sets of owed are still to come.
Written(owed) ==
  [l \in {Pattern(X, Support(db, X)) :
            X \in {X \in FrequentSets : Cardinality(X) = 1 \/ X \notin owed}} |->
     IF Cardinality(l.items) = 1 /\ SinglePath(tree) /\ l.items \notin owed
     THEN 2 ELSE 1]

OutInv == out = IF pc = "scan" THEN EmptyBag ELSE Written(OwedByAll(stack, Unfilled))

\* Below 13, from which on a factorial no longer fits an int.
ShortPatterns == \A X \in FrequentSets : Cardinality(X) <= 12

LinesOf(lines, l) == {line \in lines : Cardinality(line.items) = l}

Number(l) == IF l \in DOMAIN pattern_counts THEN pattern_counts[l] ELSE 0

\* The numbers of patterns of two or more items are those of the lines written
\* so far; print_pattern_counts sets the two others.
NumbersInv ==
  /\ \A l \in 2 .. NumItems : Number(l) = Cardinality(LinesOf(DOMAIN out, l))
  /\ pc = "done" => /\ {0, 1} \subseteq DOMAIN pattern_counts
                    /\ pattern_counts[1] = Cardinality(F)

IInv ==
  /\ InputInv
  /\ MainTreeInv
  /\ StackInv
  /\ OutInv
  /\ DOMAIN pattern_counts \subseteq (0 .. NumItems) \cup {1}
  /\ pc \in {"scan", "grow", "condition", "done"}

\* The recursion comes to an end and the numbers are printed.
Termination == <>(pc = "done")
=============================================================================
