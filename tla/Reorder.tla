------------------------------- MODULE Reorder -------------------------------
(***************************************************************************)
(* Vertical_DB::reorder (bitdrill/Vertical_DB.cxx 206-289): a vector of    *)
(* items is sorted by decreasing count with a quicksort of its own, and    *)
(* then each block of equal counts by item, with a second one.  FP_Tree    *)
(* sorts transactions by the same code (fp-tree/FP_Tree.cxx 379-464), in   *)
(* which an item may occur twice.  The recursion is a stack of ranges and  *)
(* each read of the vector a step.                                         *)
(***************************************************************************)
EXTENDS Itemsets, Sequences

CONSTANTS MaxLen,  \* the longest vector
          Counts   \* the count vectors considered

ASSUME ReorderAssumption ==
  /\ MaxLen \in Nat
  /\ Counts \subseteq [Item -> Nat]

VARIABLES
  count, input,  \* the count vector and the vector given
  len,           \* its length
  A,             \* the vector while it is sorted
  phase,
  by,            \* "count" in the first pass, "index" in the second
  block,         \* i of sort_decreasing_freq: where the next block starts
  stack,         \* the ranges still to sort, the first on top
  p, r, x,       \* the range being partitioned and its pivot
  i, j           \* the scans of the partition

given == <<count, input, len>>
range == <<p, r, x>>
sortVars == <<given, A, phase, by, block, stack, range, i, j>>

Vector(n) == [0 .. n - 1 -> Item]

Span(from, to) == [from |-> from, to |-> to]

\* The comparison of the running pass: does item a belong before item b?
Before(a, b) == IF by = "count" THEN count[a] > count[b] ELSE a < b

Swap(V, m, n) == [V EXCEPT ![m] = V[n], ![n] = V[m]]

\* Mutant of WholeVector: the end is one past the last element.
PastVector == Span(0, len)

\* The range the first pass sorts.
WholeVector == Span(0, len - 1)

SortInit ==
  /\ count \in Counts
  /\ len \in 0 .. MaxLen
  /\ input \in Vector(len)
  /\ A = input
  /\ phase = "sort"
  /\ by = "count"
  /\ block = 0
  /\ stack = <<WholeVector>>
  /\ p = 0 /\ r = -1 /\ x = 0
  /\ i = 0 /\ j = 0

\* quiksort and count_quiksort of a range of one element or none.
SortTrivial ==
  /\ phase = "sort"
  /\ stack # << >>
  /\ Head(stack).from >= Head(stack).to
  /\ stack' = Tail(stack)
  /\ UNCHANGED <<given, A, phase, by, block, range, i, j>>

\* partition and count_partition start with the scans outside the range.
StartPartition ==
  /\ phase = "sort"
  /\ stack # << >>
  /\ Head(stack).from < Head(stack).to
  /\ stack' = Tail(stack)
  /\ p' = Head(stack).from
  /\ r' = Head(stack).to
  /\ x' = A[Head(stack).from]
  /\ i' = Head(stack).from - 1
  /\ j' = Head(stack).to + 1
  /\ phase' = "down"
  /\ UNCHANGED <<given, A, by, block>>

\* do { j = j - 1; } while (A[j] > x)
ScanDown ==
  /\ phase = "down"
  /\ j' = j - 1
  /\ phase' = IF Before(x, A[j - 1]) THEN "down" ELSE "up"
  /\ UNCHANGED <<given, A, by, block, stack, range, i>>

\* do { i = i + 1; } while (A[i] < x)
ScanUp ==
  /\ phase = "up"
  /\ i' = i + 1
  /\ phase' = IF Before(A[i + 1], x) THEN "up" ELSE "swap"
  /\ UNCHANGED <<given, A, by, block, stack, range, j>>

\* Mutant of Exchange: leaves the elements where they are.
ExchangeNot ==
  /\ phase = "swap"
  /\ i < j
  /\ phase' = "down"
  /\ UNCHANGED <<given, A, by, block, stack, range, i, j>>

Exchange ==
  /\ phase = "swap"
  /\ i < j
  /\ A' = Swap(A, i, j)
  /\ phase' = "down"
  /\ UNCHANGED <<given, by, block, stack, range, i, j>>

\* The scans have met: sort the left part, then the right part.
Split ==
  /\ phase = "swap"
  /\ i >= j
  /\ stack' = <<Span(p, j), Span(j + 1, r)>> \o stack
  /\ phase' = "sort"
  /\ UNCHANGED <<given, A, by, block, range, i, j>>

\* The first pass is over.
StartBlocks ==
  /\ phase = "sort" /\ by = "count"
  /\ stack = << >>
  /\ by' = "index"
  /\ phase' = "block"
  /\ UNCHANGED <<given, A, block, stack, range, i, j>>

\* Mutant of EndOfBlock: stops one element early.
BeforeEndOfBlock(n) ==
  /\ n \in block .. len - 1
  /\ \A m \in block .. n : count[A[m]] = count[A[block]]
  /\ n < len - 2 => count[A[n + 1]] # count[A[block]]

\* The last element with the count of the one at block, and those between.
EndOfBlock(n) ==
  /\ n \in block .. len - 1
  /\ \A m \in block .. n : count[A[m]] = count[A[block]]
  /\ n < len - 1 => count[A[n + 1]] # count[A[block]]

\* A block of one element is not sorted.
SortBlock ==
  /\ phase = "block"
  /\ block < len - 1
  /\ \E n \in block .. len - 1 :
       /\ EndOfBlock(n)
       /\ stack' = IF n > block THEN <<Span(block, n)>> ELSE << >>
  /\ phase' = "sort"
  /\ UNCHANGED <<given, A, by, block, range, i, j>>

\* Mutant of NextBlock: starts over at the same element.
SameBlock ==
  /\ phase = "sort" /\ by = "index"
  /\ stack = << >>
  /\ phase' = "block"
  /\ UNCHANGED <<given, A, by, block, stack, range, i, j>>

\* A block sorted by item; the next one starts at the next element.
NextBlock ==
  /\ phase = "sort" /\ by = "index"
  /\ stack = << >>
  /\ block' = block + 1
  /\ phase' = "block"
  /\ UNCHANGED <<given, A, by, stack, range, i, j>>

Return ==
  /\ phase = "block"
  /\ block >= len - 1
  /\ phase' = "done"
  /\ UNCHANGED <<given, A, by, block, stack, range, i, j>>

SortNext ==
  \/ SortTrivial
  \/ StartPartition
  \/ ScanDown
  \/ ScanUp
  \/ Exchange
  \/ Split
  \/ StartBlocks
  \/ SortBlock
  \/ NextBlock
  \/ Return

\* A function call that runs in one thread.
SortSpec == SortInit /\ [][SortNext]_sortVars /\ WF_sortVars(SortNext)

-----------------------------------------------------------------------------

SortTypeOK ==
  /\ count \in [Item -> Nat]
  /\ len \in Nat
  /\ input \in Vector(len)
  /\ A \in Vector(len)
  /\ phase \in {"sort", "down", "up", "swap", "block", "done"}
  /\ by \in {"count", "index"}
  /\ block \in Nat
  /\ stack \in Seq([from : 0 .. len, to : -1 .. len - 1])
  /\ p \in 0 .. len /\ r \in -1 .. len - 1
  /\ i \in -1 .. len /\ j \in -1 .. len

(***************************************************************************)
(* The scans have no bound of their own: the pivot, and later the elements *)
(* exchanged, stop them.  Neither reads outside the range it partitions.   *)
(***************************************************************************)
ReadsInRange ==
  /\ phase = "down" => j - 1 \in p .. r
  /\ phase = "up" => i + 1 \in p .. r

\* Greater_Freq, the order the walks and joins of the miner rely on, but that
\* a vector may hold an item twice.
Ordered(V) ==
  \A m, n \in DOMAIN V :
    m < n => \/ count[V[m]] > count[V[n]]
             \/ count[V[m]] = count[V[n]] /\ V[m] <= V[n]

Shuffles ==
  {f \in [0 .. len - 1 -> 0 .. len - 1] :
     \A m, n \in 0 .. len - 1 : f[m] = f[n] => m = n}

\* V holds the items W does, each as often.
Rearranged(V, W) ==
  \E f \in Shuffles : \A n \in 0 .. len - 1 : V[n] = W[f[n]]

(***************************************************************************)
(* Two quicksorts, with the second over blocks it finds by reading the     *)
(* vector it sorts, come to what std::sort would with greater_freq.        *)
(***************************************************************************)
SortsInput == phase = "done" => Ordered(A) /\ Rearranged(A, input)

\* The two passes come to an end.
Termination == <>(phase = "done")
=============================================================================
