# A verification development for Bitdrill

Bitdrill mines frequent itemsets: given transactions, each a set of items, and
a support, it writes every itemset that occurs in at least that many
transactions, with its frequency. The programs are sequential: one thread, one
pass from input file to output file, nothing persisted between runs. What is
hard in them is not concurrency but long sequences of steps over mutable
structures that only stay meaningful together: tries whose lists change order,
iterators kept on stacks, caches that are overwritten in place, two
representations of one set, and loops that must neither lose nor repeat an
itemset.

Paths below are relative to `src/src/` unless they start with `src/`.

## Inventory

### Components, their state and how they interact

| component | state | operations | uses |
|---|---|---|---|
| `bitdrill/Miner` | level `k`, tries `freq` and `freq_next`, output stream | `discover` (whole database; from given patterns), `gen_candidates`, `discover_cand`, `discover_cand_serial` | TS_Counter for items and pairs, Vertical_DB for tidlists, Trie and its walks |
| `bitdrill/Trie` | slist of (symbol, subtrie), endmark | `insert`, `query`, `check_supports`, `encode`/`decode`; walks `Walk`, `Walk_K`, `Walk_Tidlist`, `Candidate_Walk` | Vertical_DB (the tidlist walk) |
| `bitdrill/Tid_List` over `Bit_Vector` and `Tid_Vector` | which representation, and both members | `reset`, `add_transaction`, two `intersect`, `count`, `intersect_and_count`, `count_intersection` | |
| `bitdrill/Vertical_DB` | `F` by decreasing count, item maps, one tidlist per item | constructor by scan, constructor by merging two, `frequency`, `tidlist`, `reorder` | Transaction_Set scanner, counts of TS_Counter |
| `2-items/Count` (TS_Counter) | `count`, `F`, `F2`, item maps, support | counting items and pairs, `large_items`, `prune_2_items`, projections, statistics | kDCI's first scans, matrix graph, Graph |
| `bitdrill/Merge_Itemsets` | tries per level of two partitions and of the merge | `merge_itemsets` | Miner's tries, Vertical_DB |
| `bitdrill/Pattern` (Pattern_Set) | list of patterns, `bysize`, `count` | `read`, `write`, projection, `compute`, `decompose_by_size` | Trie |
| `fp-tree` | FP trie with item table, counts | `insert`, `sort`, `fp_growth`, conditional trees | Transaction_Set, TS_Counter |
| `transaction-db` | transactions in file, memory or message form | scanners, `encode`/`decode`, `split`, `large_items`, pruning | |
| `graph` | adjacency lists, packed upper triangular matrix | `add`, walks, `encode`/`decode`, subgraphs | |
| `math` | none | factorials, combinations, Kruskal-Katona bounds | |
| `cli` | none | one program per miner | all of the above |

Calls are plain function calls. State is shared by reference: a walk holds
pointers into a trie and a reference to the vertical database, and
`greater_freq` holds a reference to the counter's count vector, so that every
vector order in a run depends on counts that must not change after it starts.

### What is hard, and what makes each component correct

* **Miner**: at level k exactly the frequent itemsets of k-1 items are in the
  trie; each candidate is generated once; nothing frequent is pruned; the
  loop ends. Hard because the walk, the candidate iterator and the trie's list
  order must fit together, and because `discover()` inserts without looking.
* **Trie walks**: each string is reported once and the cache belongs to it; the
  stacks are never popped empty. Hard because stale cache lines stay behind
  and `next()` has no test for the empty string.
* **Tid_List**: four pairs of representations mean one operation; partial last
  words; results that held something else.
* **Vertical_DB**: lists stand for the right transactions, in the order of `F`.
* **TS_Counter**: counts, `F` and `F2` agree with the transactions, for absolute
  and relative supports.
* **Merge_Itemsets**: the merge has the patterns of both partitions and the cross
  patterns, each once.
* **FP-Growth**: the same promise as Miner by another route.
* **Pattern_Set, Transaction_Set, Graph, math**: sizes, round trips, bounds.

PROJECT.json lists the hazards at their lines with the properties that watch
them.

## Modules

| module | role |
|---|---|
| `Itemsets` | vocabulary: items, databases, tidsets, support, `greater_freq`, siblings of a trie |
| `Inputs` | the databases, supports and max_levels a run may be given |
| `FrequentSets` | abstract specification: what any frequent itemset miner promises |
| `Levelwise` | `Miner::discover()` as an algorithm on sets; its properties; its inductive invariant |
| `Trie` | `bitdrill/Trie.hxx` as a value: children in list order, endmarks, insert, query, check_supports |
| `Miner` | `Miner::discover()` on its tries, walk stacks, tidlist cache and ordered output |
| `MinerHistory` | history variables and the refinement of `Levelwise` by `Miner` |
| `CandMiner` | mining on from given patterns: `discover()` with patterns, `gen_candidates`, `discover_cand`, `discover_cand_serial` |
| `MergeItemsets` | `merge_itemsets`: the cross product, the join and the conditional joins of two parts mined apart |
| `BitVector`, `TidList` | words and masks; both representations of a tidlist |
| `VerticalDB` | the scan that builds the tidlists and the clients that intersect them |
| `Reorder` | the two quicksorts behind `Vertical_DB::reorder` and FP_Tree's `sort` |
| `Counter` | TS_Counter: kDCI's two scans, packed counters, the matrix and the graph of pairs |
| `Combinations` | `factorial` and `choose` in a 32-bit int, combinations of a vector |
| `FPGrowth` | `Pattern_Miner::discover` and FP_Tree: trees, conditional trees, the recursion |
| `ItemsetsProofs` | lemmas on supports, orders, cardinalities, sequences and recursion; what falls with every step ends |
| `LevelwiseProofs`, `CandMinerProofs`, `MergeItemsetsProofs`, `CounterProofs`, `FPGrowthProofs` | inductive invariants and theorems of the module of that name |
| `MinerProofs` | those of `Miner` and of `MinerHistory` |
| `VerticalDBProofs` | those of `VerticalDB` and of `Reorder`, whose specification is `SortSpec` |
| `MCLevelwise`, `MCMiner`, `MCCandMiner`, `MCMergeItemsets`, `MCVerticalDB`, `MCReorder`, `MCCounter`, `MCFPGrowth` | instances for TLC |

They fit together as the components do. `Miner` => `Levelwise` => `FrequentSets` is
the chain of refinements of the level-wise miner: TLC checks both steps with their
fairness (runs *miner* and *levelwise*), and their safety parts, like the safety
properties of `Levelwise`, are proved for every size. `Counter` justifies that the
miners take `F` and `F2` for the frequent items and pairs; `VerticalDB`, that an
intersection of lists is the intersection of the sets they stand for; `Reorder`,
that a vector in `greater_freq` order is what a sort leaves. `CandMiner` and
`MergeItemsets` start where a level-wise miner stopped, with its patterns.
`FPGrowth` is the other miner and promises the same itemsets, uses `Reorder`'s order
and calls `Combinations`.

### State and actions against the code

`Levelwise`: `freq`, `freq_next`, `k` and `max_level` are the variables of that name
in `discover()`; `walked`, `itemset` and `siblings` are what a `Walk_Tidlist` and a
`Candidate_Walk` have passed, stand on and still have to yield. `OutputItems`,
`InsertPair`, `StartLevel`, `TryCandidate` and `EndLevel` are the blocks of
`Miner.cxx` 121-127, 139-154, 156-167, 184-218 and 222-233; `ReturnItems` is the
early return at 129-132. The walk order is left open, so that no property of
this module depends on the order of an slist.

`Miner` pins that order. A trie node is named by its string; `kids` is its slist
with the newest arc in front. One step is one turn of the loop in
`Walk_Tidlist::next` (`Descend`, `Backtrack`) or one sibling of the candidate walk
(`TryCandidate`). `trie_stack` is determined by `current_string` and is not kept
twice. `F` and `F2` are what the Vertical_DB constructor and the counter hand over.

`CandMiner` takes a level for a step. `route` says which function goes on from the
given patterns; `GenerateLevel` is a turn of the loop of `gen_candidates`,
`ReadCandidates` the head of the candidate miners, where the levels to mine are
read off the candidates, with `ReadCount` what `Pattern_Set::read` makes of
`num_transactions`, `CountLevel` and `CountNext` the levels of `discover_cand`
and `discover_cand_serial`, `MineLevel` those of `discover()`. `pc = "undefined"`
is where C++ gives the next step no meaning: `begin()` of no patterns
(`ReadNothing`), a walk of an empty trie or an item without a tidlist
(`CountUndefined`), an index past `bysize` (`PastBysize`). One more such step does not
end a run: a file of candidates has no line without items, so `read` takes the count
of the first element of an empty list (`bitdrill/Pattern.cxx` 194). In the builds this
yields some `int`, and `num_transactions` becomes any of `Unset`. The given patterns are
the file of a run from the start, which begins with such a line; the file a resumed
run writes has neither that line nor single items and is not gone on from. No program
calls `discover_cand_serial`; it is modelled as the member function it is.

`MergeItemsets`: `freq1` and `freq2` are the patterns of the parts, `freq_prev` the cross
itemsets of the level before, `CrossProduct` the level 2 join, `Join` and
`JoinConditional` the joins of the other levels, `CountCandidates` the counting and the
swap. `num_candidates` counts insertions, so a candidate made twice shows.

`VerticalDB`: `tidlists` are the members of the database, indexed by item instead of
by position in `F`; `string` and `cache` are those of a `Walk_Tidlist` that may follow
any string of distinct items, more than any one trie would let it; `Frequency`
is a call of `Vertical_DB::frequency` between two walks, `pc = "exited"` the
`exit(1)` of `Tid_List::error`.

`Reorder`: `A`, `p`, `r`, `x`, `i` and `j` are those of `partition`; the recursion is a stack
of ranges, each read of the vector by a scan a step (`ScanDown`, `ScanUp`), and `by`
and `block` say which pass runs and where its next block of equal counts starts.

`Counter`: `CountItems` is kDCI's first scan, which numbers the items that reach
`min_count` in any order `std::sort` may leave; `CountPairs` is one transaction of the
second scan on the packed counters `buf`; `CopyPair` is one pair of the two loops
that read them back (`Count.cxx` 329-345), `PruneEntry` one step of the matrix walk
in `prune_2_items`.

`FPGrowth`: the stack of frames is the recursion of `fp_growth`. A frame has the tree,
its counts, the pattern `alpha` with its count and the symbols of the item table
still to come. `GrowSymbol` writes beta and counts the conditional items,
`GrowConditional` fills and enters the conditional tree, `GrowSinglePath` writes every
combination of a tree with one path, `PrintCounts` prints the numbers.

### Abstractions

A transaction is the set of its items and an item is its number (in `Reorder` a
vector may repeat an item). Words are sets of bit positions, so `numbits` is a
cardinality. Writing to the output file is appending to `out`; the first line,
logs, timings and the case without an output file are left out. A pattern file
or the temporary file returns what was written to it. The miners take counts
and pairs from the database directly, as `Counter` shows they may.

Integer widths are modelled where they decide: the 8, 16 and 32-bit counters and
item numbers of the second scan are taken modulo `Byte`, `Short` and `Word`, and
`Combinations` wraps an `int` as the builds do (in C++ a signed overflow is
undefined). An `int` that nothing was assigned to, or that is read from an empty
list, is any of a few values (`Unset`). Counts of items, levels and indices are bounded by the number of
transactions and items.

An FP-tree is a function from the paths of its nodes to their counts, since no
two nodes share a path; node links are then the nodes with the same last item.
The conditional tries of the merge are sets of itemsets. The joins of a level in
`CandMiner` and `MergeItemsets` are one step, since `Levelwise`, `Miner` and their proofs
show what a walk with its candidate walks yields.

## Runs

| run | bounds | shows |
|---|---|---|
| `levelwise` | 4 items, 3 transactions, supports 1 and 2, max_level 0, 1, 3 | `Soundness`, `Completeness`, `LevelExact`, `GeneratedOnce`, refinement of `FrequentSets`, `Termination` |
| `miner` | the same | `WalkDefined`, `CacheExact`, `LinesOrdered`, refinement of `Levelwise` with its fairness, `Termination` |
| `candminer` | 4 items, 3 transactions, supports 1 and 2 (of the patterns and of the mining), patterns of 1 or 2 items, max_level 0, 2, 3 of either program, an `int` read from an empty list 0 or 3 | `CandidatesExact`, `FoundExact`, `UndefinedOnly`, `Termination` |
| `merge` | 4 items, 3 transactions, supports 1 and 2, every division of the items, start level 2 and 3 | `MergeSound`, `MergeComplete`, `CrossLevelExact`, `MergeGeneratedOnce`, `Termination` |
| `verticaldb` | 3 items, 1 to 4 transactions, words of 2 bits, a list is sparse from 1 in 2, strings of up to 3 items | `ListsExact`, `CountsExact`, `PairFrequencyExact` |
| `reorder` | vectors of up to 4 of 4 items with repetitions, counts 1 to 3 | `ReadsInRange`, `SortsInput`, `Termination` |
| `counter` | 4 items, 4 transactions, absolute supports 1 and 2, levels 1 and 2, types of 3, 4 and 100 values | `CountersExact`, `PairsExact` |
| `fpgrowth` | 4 items, 4 transactions, supports 1 and 2 | `TreesExact`, `FoundExact`, `NumbersExact`, `Termination` |
| `frequency` (violation) | as `verticaldb` | `FrequencyExact` fails |
| `mergepruning` (violation) | as `merge` | `SubsetsPresent` fails |
| `patternnumbers` (violation) | one transaction of 13 items, support 1 | `NumbersExact` fails |
| `relative` (violation) | 3 items, 2 transactions, 50 and 100 percent, an unset int of 0 to 2 | `SupportKnown` fails |

Four items are enough for two joining levels (3 and 4), for tries with several
branches of several depths, for candidates pruned by `check_supports` and by
counting, for every order of the four counts, and for cross itemsets with one,
two or three items in a part, which take different joins. Three transactions
give item counts 0 to 3 and so all ties and inequalities against supports 1 and
2; the max_levels cover no limit, the early return, a stop inside the loop and
limits below and above the candidates. FP-Growth needs four transactions for a
conditional tree that branches and whose items change order. Words of two bits
with one to four transactions give one or two words, full and partial; with
sparsity 2 each pair of representations occurs. The counter's types are so small
that a largest count of up to 4 selects each of the three and 5 numbers of items
more than one. Vectors of four elements make a partition whose parts are again
partitioned, and three counts make blocks of equal counts at either end and inside. Every database is taken up to the order of its transactions (in
`verticaldb`, up to the names of items), which no definition tells apart.

Deadlock is not checked: each program ends. **Fairness** is weak fairness of the
whole next-state relation: the programs run alone in one thread and wait for
nothing, so a step that is possible is taken.

Each property of a passing run has a mutant of a modelled operation that
violates it, written next to that operation.

## Proofs

`ItemsetsProofs` proves, for all sizes, that support is antitone, that tidsets of
unions are intersections, that `greater_freq` is a strict total order with a unique
last element on every nonempty itemset, and that a set of n items has subsets of
each smaller size (by a minimal counterexample over the well-founded strict
subset order, since the induction theorems cannot be instantiated). The two
lemmas that carry both joins are `JoinCovers`, every itemset of two or more items
is the union of two siblings, and `CandidateUnique`, of only one pair.

**`LevelwiseProofs`**, for every set of items, number of transactions, set of
databases, supports and max_levels (`SizesAssumption`, `InputAssumption`):

* `TypeCorrect`, `Invariance`: `Spec => []TypeOK`, `Spec => []IInv`;
* `Sound`, `Complete`, `LevelsExact`, `CandidatesGeneratedOnce`;
* `RefinesPromise`: `Spec => KeepsPromise`, that is `Levelwise` implements `FrequentSets`.

`Soundness` and `Completeness` are not inductive: they say nothing of a walk that
is half done. `IInv` adds `JoinExact`: a pair of siblings has its union in
`freq_next` exactly if that union is frequent and the pair is no longer `Pending`
(both unwalked, or one stood on and the other still to be yielded). An empty
`Pending` at the end of a walk then means `freq_next` is the next level, and
`NoLargerFrequent` lets the loop stop at an empty level. The refinement needs
`ReportedExact` besides: at level k the output holds every frequent itemset of
fewer than k items, so a candidate is written after all of its subsets
(`SubsetsReported`), and with `Soundness` and `Completeness` what is written at the
end is what is owed (`AllOwed`).

**`MergeItemsetsProofs`**, for every division of the items and every start level
(`MergeAssumption`): `MergeInvariance`, `MergeTypeCorrect`, `MergeIsSound`, `MergeLevelsExact`,
`MergeIsComplete`, `MergeOnce`. The invariant says that `freq_prev` is exactly the
frequent cross itemsets of k-1 items and that what lies below is written. A
frequent cross itemset of k > 2 items has two or more items in each part, and then
`Join` makes it from two cross itemsets, or one item in a part, and then one of the
conditional joins makes it from what that item leaves; the cases exclude each
other, hence `MergeOnce`. It also shows that the missing pruning of run
*mergepruning* costs candidates and never a pattern.

**`CounterProofs`**, for every number of items, database, support, and widths of the
types (`CounterAssumption`): `Invariance`, `TypeCorrect`, `ScanExact`, `ResultsExact`. The three
layouts of a triangle (kDCI's formula, `UT_Matrix::elt`, the walk) are reduced to one,
which is shown to be injective and to number the places consecutively; so no two
pairs share a counter, the loops read each pair's own counter and the walk
stands on (i, j). A pair counter is at most `max_support` and so below the width
chosen from it, and item numbers are below theirs. The ranks in `item_f` are shown to be
a bijection of `F` and the rows, whatever order kDCI gave the items. The
invariant then follows the phases: pairs before the loop's place are copied,
entries before the walk's place are in the lists, from both ends. With a relative
support it holds too, for whatever `support` happens to be (`PairsExact` then speaks
of that number).

**`MinerProofs`**, for the same inputs, first of `Miner`: `Invariance`, `TypeCorrect`, `WalksDefined`,
`CachesExact`. The invariant says that `freq` holds strings of k-1 items and
`freq_next` of k (`HasDepth`; an insertion, `InsertHasDepth`, and a merge, `MergeType`,
keep that), and that the stacks stand on a path: each prefix of `current_string` is a
node and each iterator is at the arc taken (`OnString`). A string has then never more
than k-1 items, so the cache is long enough; a node reached by going back is no
endmark; and the position the candidate walk starts from is that of the string
itself. That the root has an arc left, which `next` needs when it stands there, comes
from the test of the main loop and from the end of the walk emptying the stacks.
The proof that `F` and `F2` are vectors needs that in a strict total order every
rank is taken (`RankTaken`).

Then of `MinerHistory`: `HistoryInvariance`, `LinesInOrder`,
`RefinesLevelwise`, `MinesExactly`. The module adds what a walk has reported
(`walked`) and stands on (`last`), which no variable of `Miner` holds. Its invariant
says so in terms of the stacks: a string of the trie is reported if it is the
current one or was left `Behind`, on an arc before that of an iterator, at the
node where it leaves the current path (`Passed`). Each move of the walk is shown
to put just the string it arrives at into `Passed`, whatever order insertion at the
front gave the slists. That needs `Whole` tries: nodes are the prefixes of strings, no
two arcs of a node alike, strings in `greater_freq` order. Then strings are
itemsets (`EndVectors`), and what is left of a node's slist is exactly the siblings not walked
(`RestExact`), which is what `Levelwise` asks of `siblings`. A new candidate is in no
line, since it is the union of a pair still `Pending` and every itemset in `freq_next`
comes from a pair that is not, and by `CandidateUnique` no other pair gives it: hence
`LinesInOrder`. With one lemma for each action, every step of `Miner` is a step
of `Levelwise` or a stutter. `MinesExactly` then reads the theorems of `LevelwiseProofs`
through the refinement mapping: on its tries `discover()` writes wanted patterns
only, and all of them by its end.

**`CandMinerProofs`**, for every database and support, every level the given patterns
end at, and both counts of `mined` and `support` (`SizesAssumption`, `InputAssumption`, `FirstLevelsAssumption`, `UnsetAssumption`):
`Invariance`, `TypeCorrect`, `GeneratedExact`, `RoutesAgree`, `OnlyUndefined`. Call an
itemset *made of* the given patterns when all its subsets of the length they end at
are given. The invariant says that on each level the trie holds exactly the itemsets
made of given patterns, or the frequent ones of them, and that all shorter ones are
generated or written. `MadeOfParents` is why pruning one level at a time is enough:
an itemset is made of given patterns just when all its subsets with one item less
are. `CandidateLengths` is why the candidate routes find their first and last level in
the file: no length between the shortest and the longest candidate is missing. So
the three routes find the same patterns within their levels, and `OnlyUndefined`
names the only inputs that bring the functions of `Miner.cxx` to a step without
meaning. It says besides that the number of transactions, which `Pattern_Set::read`
leaves in doubt for every file of candidates, is right wherever patterns are given:
that is the only number of a Pattern_Set a vertical database is made with
(`cli/freq-bitdrill.cxx` 69).

**`VerticalDBProofs`**, for every number of items and transactions, word width and
sparsity (`SizesAssumption`, `WordAssumption`, `SparsityAssumption`, `InputAssumption`):
`Invariance`, `TypeCorrect`, `TidlistsExact`, `PairFrequencies`, `IntersectionCounts`.
`ListsExact` is not inductive: two bit vectors can only be met word by word if they have
the same number of bits, so `IInv` adds that each has `num_txn` (`Sized`), and that no
transaction is read once the walks begin (`ScanFirst`). The number of bits of a full
vector of words fixes the number of its words (`WordEnds`, `WordCount`), and a bit its
place (`Places`), whatever `num_txn` leaves of the last word. `IntersectMeets` then says of
`Intersect` and `CountIntersection`, in all four cases of representations, that they
compute the intersection and its size. Three operations are recursive functions: the
selection from a vector, the merge scan that counts, and `TidlistOf`. What they
compute is shown without the induction theorems: a function that satisfies the
recursion is exhibited (by a closed form, or by `RecursionExists`), so that CHOOSE
picks one, and its values are compared by `IntervalInduction`, which is induction over a
set of numbers and takes no operator. `PairFrequencyExact` is proved and
`FrequencyExact` is not, as it fails from the third item on (run *frequency*).

Then of `Reorder`, for vectors of any length with repetitions and any counts
(`ReorderAssumption`): `SortInvariance`, `SortTypeCorrect`, `StaysInRange`, `SortsEveryInput`,
`SortIsGreaterFreq`.
The invariant says that the ranges on the stack do not overlap, that every pair of
elements still out of order lies within one of them, that what each partition
has passed on either side is no better, and that ahead of each scan there is an
element that stops it: the pivot at first, an exchanged element after. The last is
what bounds the scans, which have no test of their own.
`SortIsGreaterFreq` ties it to the other modules, which do not sort: where each item is
in the vector once and the counts are those of a database, what is left is `Sorted` by
`GreaterFreq` (`OrderedIsSorted`: the places of a vector so ordered count what is before each).

**`FPGrowthProofs`**, for every number of items and transactions, database and support
(`SizesAssumption`, `FPGrowthAssumption`): `Invariance`, `TypeCorrect`, `TreesCorrect`,
`FindsExactly`, `NumbersCorrect`. The invariant states what each tree is without its history: `Grown`, the
tree that has for each transaction with the items of `alpha` the path of its vector by
the counts of the call. One insertion grows it by one transaction (`InsertMany`); the supports
read off it are those in the database (`GrownSupport`, since in each path an itemset ends
at one node, `OneEnd`); and filling a conditional tree from the prefix paths of a symbol
grows the tree of alpha with that symbol (`ConditionalTrees`), though the fold takes the
nodes in any order: after some nodes the tree is the one grown from the transactions at them.
What is still to come is stated by `Owed`: a call owes the frequent itemsets of alpha and large
items whose last, in its own order, is a symbol left. A round of the loop moves what
it owes for its symbol to beta and the new call (`NewCall`), a single path is left with all
it owes written (`SinglePathFinds`), and an empty conditional tree owes nothing (`FilledCall`).
Frames lie `Within` each other, the inner one looking only at what precedes the symbol
the outer one is at; so no itemset is owed twice (`NotOwed`), which is why no line is
written twice. `FoldSet` is reasoned about by `FoldExists` and `FoldInduction`, which again
exhibit the function and induct over a set of numbers.
`NumbersCorrect` proves `NumbersExact` where no frequent itemset has more than 12 items
(`ShortPatterns`), and no further, since it is false from 13 on (run *patternnumbers*). Up to
there the 32-bit `Factorial` does not wrap (`FactorialsExact`), factorials count the subsets
of each size (`SubsetsCounted`, Pascal's rule multiplied out), and so `Choose`, with its
division, is the number of subsets (`ChooseCounts`). `NumbersInv` then says that at
every step the numbers count the lines written, length by length: the lines that
a single path writes at once are as many as the formula adds (`PathLines`).

**The steps run out.** `FallsEnd` (`ItemsetsProofs`): vectors of n numbers that get smaller with
every step, in the order of the dictionary, take finitely many steps. Each module of
a program that is to end has a vector `ToDo` and a theorem that each of its steps makes
`ToDo` smaller, from the invariant of that module and the bounds of its loops:

| theorem | what falls, most significant first |
|---|---|
| `StepsRunOut` (`Levelwise`) | the phase; the levels up to the number of items; the head of the loop; the pairs to insert, or the itemsets not walked; the siblings to join |
| `StepsRunOut` (`Miner`) | the phase; the levels; the edges to insert, or the trie nodes not left behind; the depth below the walk; the siblings to come |
| `StepsRunOut` (`CandMiner`) | the function of the route; its levels |
| `MergeStepsRunOut` | the return; the levels; the joins of a level |
| `StepsRunOut` (`Counter`) | the phase; the transactions to read, or the rows; what is left of the row |
| `StepsRunOut` (`FPGrowth`) | the phase; the transactions to insert; the patterns the calls still owe; the tree to fill; the calls |
| `SortStepsRunOut` (`Reorder`) | the passes and blocks; the neighbours still in one range; the ranges; the distance of the two scans; the exchange |

So no behaviour changes the state for ever, whatever the fairness. For `Miner` this rests
on the walk: going back leaves a node `Behind` that was not, and nodes are told apart by
their itemsets (`NodesOrdered`), which are finitely many. For FP-Growth it is the exactness
of the recursion: a round of the loop passes on what it owes, or finds the symbol
infrequent, and nothing is owed twice. For the quicksort it is that a range with two
elements or more is split between two neighbours. `VerticalDB`'s walks may go on for
ever by design and have no such theorem.

Only model-checked: the `Termination` properties themselves, which need besides that a
step is possible until the end (ENABLED) and is taken (fairness), both beyond this
prover; and that `Miner`'s fairness implies that of `Levelwise`.

## Findings

* `Tid_List::intersect` without a result (`bitdrill/Tid_List.hxx` 56-67) meets a tid
  vector with the unused, empty tid vector of a list that is a bit vector, and
  treats two tid vectors as an error. `Vertical_DB::frequency` calls it from the
  third item on and so returns 0 for itemsets that occur. The miners do not call
  `frequency`; they intersect with a result, which is right in all four cases
  (runs `frequency`, `verticaldb`).
* A conditional candidate of the merge whose k-1 items in one part are longer than
  any pattern of that part is kept, though the comments at
  `bitdrill/Merge_Itemsets.cxx` 342 and 390 say they must be present. It is counted and
  dropped, so the output is right (runs `mergepruning`, `merge`).
* `choose` divides factorials held in an `int`, which wrap from 13 on: the numbers of
  patterns printed for a single path of 13 items are wrong, choose(13,2) being 24
  instead of 78. The patterns are right (run `patternnumbers`).
* `count_items_serial` never turns a relative support into an absolute one
  (`2-items/Count.cxx` 82), though `count_1_items_serial`, which nothing calls, does.
  `support` stays unset, and the miners take it from the counter (run `relative`).

Besides, by `FoundExact` of `fpgrowth`, a tree that is a single path at the top level
prints its single items a second time, though `doc/TODO` 102 has "don't generate
patterns of length 1, already known" among the things done. By `UndefinedOnly` of
`candminer` the candidate miners must not be given an empty file of candidates, a
support above that of the patterns or, the serial one, a max_level above the longest
candidate; and reading any file of candidates takes the front of an empty list
(`bitdrill/Pattern.cxx` 193-194, and `compute`, which nothing calls, at 237-238), a
value no miner uses.

## Not modelled

Parts of components that are modelled:

* The constructor of `Vertical_DB` that merges two databases (52-104; the merge
  program scans the transactions anew), `Bit_Vector::unset`,
  `Tid_List::intersect_and_count`, `Trie::encode` and `decode`, `FP_Tree::query` and
  `test_path`, `merge_itemsets_old`, `project_items_from`: nothing but manual test
  programs calls them.
* `Pattern_Set`: the text of pattern files, `compute`, comparing and projecting, which
  are formatting and sequential set operations.
* TS_Counter's statistics and load estimates, with the Kruskal-Katona bounds of
  `math` they use: numbers for the log.
* `Graph`: encode and decode, subgraphs, and the dot and METIS writers.
* Transactions with an item twice: data sets in these formats hold sets, and what
  the program does with others depends on the representation a tidlist has.

Whole components:

* `transaction-db`: reading and writing of three file formats. Every scan of a run
  goes through the same function, so that all see the same transactions.
* `cli`: argument parsing and one call each into the components above.
* `structure` and `Hash_Trie`: earlier or unused containers; `Miner2`: not compiled;
  `Chunk_Allocator`: dead code; the METIS interface: conversion for a library.
* The vendored miners and libraries (`kdci` beyond its two scans, `aim`, `lcm20`,
  `dci-closed`, `src/aux`), which make up most of the repository's lines, the Haskell
  prototypes, scripts and performance data. They are other programs, that these
  only accompany.
