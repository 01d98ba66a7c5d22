-------------------------------- MODULE Miner --------------------------------
(***************************************************************************)
(* Miner::discover (bitdrill/Miner.cxx) with the data structures it runs   *)
(* on: the two tries of the double buffer, the stacks and the tidlist      *)
(* cache of Trie::Walk_Tidlist, the iterator of Trie::Candidate_Walk, and  *)
(* the order in which lines reach the output.  A tidlist is the set of its *)
(* transactions; module TidList models how it is stored.                   *)
(***************************************************************************)
EXTENDS Inputs, Trie

VARIABLES
  db, support, max_level,  \* the inputs of the run
  F,               \* Vertical_DB::F, the frequent items in its order
  F2,              \* the counter's graph of frequent pairs, as the vector of
                   \* its edges u < v in the order of the adjacency lists
  pc,              \* where discover() stands
  edge,            \* number of edges of F2 already inserted
  k,               \* level to mine
  freq,            \* trie of the frequent itemsets of k-1 items
  freq_next,       \* trie of those of k items found so far
  current_string,  \* Walk_Tidlist: the arcs followed from the root
  iter_stack,      \* position in the subtries of each node on that path;
                   \* empty when trie_stack is
  tidlist_cache,   \* tidlist of each prefix of current_string
  cand,            \* Candidate_Walk: position in the subtries of the parent
  out              \* the lines written, in order

inputs == <<db, support, max_level, F, F2>>
walk == <<current_string, iter_stack, tidlist_cache>>
vars == <<db, support, max_level, F, F2, pc, edge, k, freq, freq_next,
          current_string, iter_stack, tidlist_cache, cand, out>>

Pc == {"items", "pairs", "level", "walk", "cand", "done"}

Greater(i, j) == GreaterFreq(db, i, j)

\* The sort of the Vertical_DB constructor.
FrequentItems == Sorted({i \in Item : Count(db, i) >= support}, Greater)

\* TS_Counter::prune_2_items adds the pairs row by row.
FrequentPairs ==
  Sorted({e \in Item \X Item :
            e[1] < e[2] /\ Support(db, {e[1], e[2]}) >= support},
         LAMBDA e, f : e[1] < f[1] \/ (e[1] = f[1] /\ e[2] < f[2]))

Line(s, n) == [items |-> s, count |-> n]

\* Mutant of Reorder: leaves the items of an edge as they are.
ReorderNot(s) == s

\* Vertical_DB::reorder
Reorder(s) == Sorted(ToSet(s), Greater)

\* std::merge of a sorted vector with one item, under greater_freq
MergeItem(s, a) ==
  LET at == SelectInSeq(s, LAMBDA b : Greater(a, b))
  IN IF at = 0 THEN Append(s, a) ELSE InsertAt(s, at, a)

\* max_level && n > max_level
Beyond(n) == max_level # 0 /\ n > max_level

Init ==
  /\ db \in Databases
  /\ support \in Supports
  /\ max_level \in MaxLevels
  /\ F = FrequentItems
  /\ F2 = FrequentPairs
  /\ pc = "items"
  /\ edge = 0
  /\ k = 3
  /\ freq = EmptyTrie
  /\ freq_next = EmptyTrie
  /\ current_string = <<>>
  /\ iter_stack = <<>>
  /\ tidlist_cache = <<>>
  /\ cand = 0
  /\ out = <<>>

OutputItems ==
  /\ pc = "items"
  /\ out' = [i \in DOMAIN F |-> Line(<<F[i]>>, Count(db, F[i]))]
  /\ pc' = "pairs"
  /\ UNCHANGED <<inputs, edge, k, freq, freq_next, walk, cand>>

ReturnItems ==
  /\ pc = "pairs"
  /\ Beyond(2)
  /\ pc' = "done"
  /\ UNCHANGED <<inputs, edge, k, freq, freq_next, walk, cand, out>>

\* Insert and output one edge of F2.
InsertPair ==
  /\ pc = "pairs"
  /\ ~ Beyond(2)
  /\ edge < Len(F2)
  /\ LET x == Reorder(F2[edge + 1])
     IN /\ freq' = Insert(freq, x)
        /\ out' = Append(out, Line(x, Support(db, ToSet(x))))
  /\ edge' = edge + 1
  /\ UNCHANGED <<inputs, pc, k, freq_next, walk, cand>>

PairsInserted ==
  /\ pc = "pairs"
  /\ ~ Beyond(2)
  /\ edge = Len(F2)
  /\ pc' = "level"
  /\ UNCHANGED <<inputs, edge, k, freq, freq_next, walk, cand, out>>

\* Mutant of StartLevel: walks an empty trie.
StartUntested ==
  /\ pc = "level"
  /\ ~ Beyond(k)
  /\ current_string' = <<>>
  /\ iter_stack' = <<1>>
  /\ tidlist_cache' = [d \in 1 .. k |-> {}]
  /\ pc' = "walk"
  /\ UNCHANGED <<inputs, edge, k, freq, freq_next, cand, out>>

\* The head of the main loop; a new Walk_Tidlist stands on the root.
StartLevel ==
  /\ pc = "level"
  /\ ~ IsEmptyTrie(freq)
  /\ ~ Beyond(k)
  /\ current_string' = <<>>
  /\ iter_stack' = <<1>>
  /\ tidlist_cache' = [d \in 1 .. k |-> {}]
  /\ pc' = "walk"
  /\ UNCHANGED <<inputs, edge, k, freq, freq_next, cand, out>>

Stop ==
  /\ pc = "level"
  /\ IsEmptyTrie(freq) \/ Beyond(k)
  /\ pc' = "done"
  /\ UNCHANGED <<inputs, edge, k, freq, freq_next, walk, cand, out>>

Subtries == freq.kids[current_string]

\* Mutant of Visit: starts the candidate walk behind the first sibling.
VisitPast ==
  IF current_string' \in freq.ends
  THEN pc' = "cand" /\ cand' = Last(Front(iter_stack')) + 1
  ELSE UNCHANGED <<pc, cand>>

(***************************************************************************)
(* Walk_Tidlist::next returns when it stands on an endmark; discover()     *)
(* then starts a candidate walk at the parent's position.                  *)
(***************************************************************************)
Visit ==
  IF current_string' \in freq.ends
  THEN pc' = "cand" /\ cand' = Last(Front(iter_stack'))
  ELSE UNCHANGED <<pc, cand>>

\* Mutant of Descend: computes a list of the cache only the first time.
DescendCached ==
  LET depth == Len(iter_stack)
      arc == Subtries[Last(iter_stack)]
  IN /\ pc = "walk"
     /\ iter_stack # <<>>
     /\ Last(iter_stack) <= Len(Subtries)
     /\ current_string' = Append(current_string, arc)
     /\ iter_stack' = Append(iter_stack, 1)
     /\ tidlist_cache' =
          [tidlist_cache EXCEPT ![depth] =
             IF depth = 1 THEN Tidset(db, {arc})
             ELSE IF @ # {} THEN @
             ELSE tidlist_cache[depth - 1] \cap Tidset(db, {arc})]
     /\ Visit
     /\ UNCHANGED <<inputs, edge, k, freq, freq_next, out>>

\* One turn of the loop of Walk_Tidlist::next: follow the next arc.
Descend ==
  LET depth == Len(iter_stack)
      arc == Subtries[Last(iter_stack)]
  IN /\ pc = "walk"
     /\ iter_stack # <<>>
     /\ Last(iter_stack) <= Len(Subtries)
     /\ current_string' = Append(current_string, arc)
     /\ iter_stack' = Append(iter_stack, 1)
     /\ tidlist_cache' =
          [tidlist_cache EXCEPT ![depth] =
             IF depth = 1 THEN Tidset(db, {arc})
             ELSE tidlist_cache[depth - 1] \cap Tidset(db, {arc})]
     /\ Visit
     /\ UNCHANGED <<inputs, edge, k, freq, freq_next, out>>

\* Mutant of Backtrack: does not advance the parent's iterator.
BacktrackInPlace ==
  /\ pc = "walk"
  /\ iter_stack # <<>>
  /\ Last(iter_stack) > Len(Subtries)
  /\ current_string # <<>>
  /\ current_string' = Front(current_string)
  /\ iter_stack' = Front(iter_stack)
  /\ Visit
  /\ UNCHANGED <<inputs, edge, k, freq, freq_next, tidlist_cache, out>>

(***************************************************************************)
(* The other turn: the subbranch is over, go back and advance the parent.  *)
(* When the root is exhausted the stacks are emptied.  Popping an empty    *)
(* current_string is undefined and has no step here.                       *)
(***************************************************************************)
Backtrack ==
  LET parent == Front(current_string)
      back == [Front(iter_stack) EXCEPT ![Len(iter_stack) - 1] = @ + 1]
  IN /\ pc = "walk"
     /\ iter_stack # <<>>
     /\ Last(iter_stack) > Len(Subtries)
     /\ current_string # <<>>
     /\ current_string' = parent
     /\ IF parent = <<>> /\ Last(back) > Len(freq.kids[parent])
        THEN iter_stack' = <<>> /\ UNCHANGED <<pc, cand>>
        ELSE iter_stack' = back /\ Visit
     /\ UNCHANGED <<inputs, edge, k, freq, freq_next, tidlist_cache, out>>

SiblingList == freq.kids[Front(current_string)]

\* The body of the candidate walk, for the next sibling.
TryCandidate ==
  LET diff == SiblingList[cand + 1]
      candidate_itemset == MergeItem(current_string, diff)
      tidlist == tidlist_cache[Len(current_string)]
      frequency == Cardinality(tidlist \cap Tidset(db, {diff}))
  IN /\ pc = "cand"
     /\ cand < Len(SiblingList)
     /\ cand' = cand + 1
     /\ IF CheckSupports(freq, candidate_itemset) /\ frequency >= support
        THEN /\ freq_next' = Insert(freq_next, candidate_itemset)
             /\ out' = Append(out, Line(candidate_itemset, frequency))
        ELSE UNCHANGED <<freq_next, out>>
     /\ UNCHANGED <<inputs, pc, edge, k, freq, walk>>

CandidatesOver ==
  /\ pc = "cand"
  /\ cand >= Len(SiblingList)
  /\ pc' = "walk"
  /\ UNCHANGED <<inputs, edge, k, freq, freq_next, walk, cand, out>>

\* The walk is over: swap the double buffer.
EndLevel ==
  /\ pc = "walk"
  /\ iter_stack = <<>>
  /\ freq' = freq_next
  /\ freq_next' = EmptyTrie
  /\ k' = k + 1
  /\ pc' = "level"
  /\ UNCHANGED <<inputs, edge, walk, cand, out>>

Next ==
  \/ OutputItems
  \/ ReturnItems
  \/ InsertPair
  \/ PairsInserted
  \/ StartLevel
  \/ Stop
  \/ Descend
  \/ Backtrack
  \/ TryCandidate
  \/ CandidatesOver
  \/ EndLevel

\* discover() runs alone in its thread, so it never stops short of its end.
Spec == Init /\ [][Next]_vars /\ WF_vars(Next)

-----------------------------------------------------------------------------

IsVector(s) == s \in Seq(Item)

IsTrie(t) ==
  /\ \A p \in Nodes(t) : IsVector(p) /\ IsVector(t.kids[p])
  /\ t.ends \subseteq Nodes(t)

TypeOK ==
  /\ db \in Database
  /\ support \in Nat \ {0}
  /\ max_level \in Nat
  /\ F \in Seq(Item)
  /\ F2 \in Seq(Item \X Item)
  /\ pc \in Pc
  /\ edge \in Nat
  /\ k \in Nat \ {0, 1, 2}
  /\ IsTrie(freq)
  /\ IsTrie(freq_next)
  /\ IsVector(current_string)
  /\ iter_stack \in Seq(Nat \ {0})
  /\ tidlist_cache \in Seq(SUBSET Tid)
  /\ cand \in Nat
  /\ out \in Seq([items : Seq(Item), count : Nat])

(***************************************************************************)
(* Walk_Tidlist and Candidate_Walk never pop an empty string, never step   *)
(* past the end of an slist, and stay within the cache of k lists.  next() *)
(* does not test for these; "other walks may crash when trie is empty"     *)
(* (Trie.hxx:255), and only the test in the main loop keeps it out.        *)
(***************************************************************************)
WalkDefined ==
  /\ pc = "walk" /\ iter_stack # <<>> =>
       /\ Len(iter_stack) = Len(current_string) + 1
       /\ current_string = <<>> => Last(iter_stack) <= Len(Subtries)
       /\ Last(iter_stack) <= Len(Subtries) + 1
       /\ Len(current_string) < k
  /\ pc = "cand" =>
       /\ Len(iter_stack) = Len(current_string) + 1
       /\ Len(current_string) = k - 1
       /\ cand \in DOMAIN SiblingList
       /\ SiblingList[Last(Front(iter_stack))] = Last(current_string)

(***************************************************************************)
(* While the walk goes up and down, each list of the cache that belongs to *)
(* current_string is the tidlist of that prefix: backtracking leaves stale *)
(* lists behind, and the next descent must overwrite them before use.      *)
(***************************************************************************)
CacheExact ==
  pc \in {"walk", "cand"} =>
    \A d \in DOMAIN current_string :
      tidlist_cache[d] = Tidset(db, ToSet(SubSeq(current_string, 1, d)))

(***************************************************************************)
(* The vectors written keep the greater_freq order, which check_supports   *)
(* and the merge rely on, no two lines name the same itemset, and          *)
(* the lines come in the order of their length.                            *)
(***************************************************************************)
LinesOrdered ==
  /\ \A n \in DOMAIN out : LET s == out[n].items IN
       \A i, j \in DOMAIN s : i < j => Greater(s[i], s[j])
  /\ \A m, n \in DOMAIN out : m < n =>
       /\ ToSet(out[m].items) # ToSet(out[n].items)
       /\ Len(out[m].items) <= Len(out[n].items)

\* discover() returns.
Termination == <>(pc = "done")

-----------------------------------------------------------------------------
(***************************************************************************)
(* The inductive invariant behind WalkDefined and CacheExact.              *)
(***************************************************************************)

\* A trie of strings of n items: each arc leads to a node, and only the
\* strings have the full length.
HasDepth(t, n) ==
  /\ t.kids \in [Nodes(t) -> Seq(Item)]
  /\ <<>> \in Nodes(t)
  /\ \A p \in Nodes(t) : IsVector(p) /\ Len(p) <= n
  /\ \A p \in Nodes(t) : \A j \in DOMAIN t.kids[p] : Append(p, t.kids[p][j]) \in Nodes(t)
  /\ \A p \in t.ends : p \in Nodes(t) /\ Len(p) = n

\* The prefixes of the string are nodes and the iterators stand on its arcs.
OnString(t, s, iters) ==
  \A d \in 1 .. Len(s) :
    /\ SubSeq(s, 1, d - 1) \in Nodes(t)
    /\ iters[d] \in DOMAIN t.kids[SubSeq(s, 1, d - 1)]
    /\ t.kids[SubSeq(s, 1, d - 1)][iters[d]] = s[d]

\* Each of the two tries holds strings of its own level only.
TriesInv ==
  /\ HasDepth(freq, k - 1)
  /\ HasDepth(freq_next, k)
  /\ pc \in {"items", "pairs"} => k = 3

\* The stacks stand on a path of freq, the cursor on one of its arcs or behind
\* them; at the root, on an arc, or the stacks are empty.
StacksInv ==
  /\ pc \in {"walk", "cand"} => Len(tidlist_cache) = k
  /\ pc \in {"walk", "cand"} /\ iter_stack # <<>> =>
       /\ Len(iter_stack) = Len(current_string) + 1
       /\ current_string \in Nodes(freq)
       /\ OnString(freq, current_string, iter_stack)
       /\ Last(iter_stack) <= Len(Subtries) + 1
       /\ current_string = <<>> => Last(iter_stack) <= Len(Subtries)
  /\ pc = "walk" /\ iter_stack = <<>> => current_string = <<>>
  /\ pc = "cand" =>
       /\ iter_stack # <<>>
       /\ current_string \in freq.ends
       /\ cand \in DOMAIN SiblingList

\* All of it together; the edges of F2 join two items.
MinerInv ==
  /\ TypeOK
  /\ \A n \in DOMAIN F2 : F2[n][1] # F2[n][2]
  /\ TriesInv
  /\ StacksInv
  /\ CacheExact
=============================================================================
