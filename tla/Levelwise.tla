------------------------------ MODULE Levelwise ------------------------------
(***************************************************************************)
(* Miner::discover (bitdrill/Miner.cxx) as an algorithm on sets.  A trie   *)
(* of vectors sorted by greater_freq is the set of their itemsets; a walk  *)
(* of the trie passes each itemset once, in an order this module leaves    *)
(* open; the candidate walk of an itemset yields the siblings the walk has *)
(* not passed yet, those that share all but the last item.  Module Miner   *)
(* is the same function with its tries, stacks and caches.                 *)
(***************************************************************************)
EXTENDS Inputs

VARIABLES
  db, support, max_level,  \* the inputs of the run
  pc,         \* where discover() stands
  k,          \* level to mine
  freq,       \* the frequent itemsets of k-1 items
  freq_next,  \* those of k items found so far
  walked,     \* itemsets of freq the trie walk has passed
  itemset,    \* the one it stands on
  siblings,   \* what the candidate walk of itemset has still to yield
  out         \* the patterns written

inputs == <<db, support, max_level>>
vars == <<db, support, max_level, pc, k, freq, freq_next, walked, itemset,
          siblings, out>>

Pc == {"items", "pairs", "level", "walk", "done"}

F == {i \in Item : Count(db, i) >= support}

\* Trie::check_supports: every subset with one item less is in the trie.
CheckSupports(c) == \A i \in c : c \ {i} \in freq

\* Mutant of Beyond: stops one level short.
BeyondOrAt(n) == max_level # 0 /\ n >= max_level

\* max_level && n > max_level
Beyond(n) == max_level # 0 /\ n > max_level

Init ==
  /\ db \in Databases
  /\ support \in Supports
  /\ max_level \in MaxLevels
  /\ pc = "items"
  /\ k = 3
  /\ freq = {}
  /\ freq_next = {}
  /\ walked = {}
  /\ itemset = {}
  /\ siblings = {}
  /\ out = {}

\* Output the 1-items.
OutputItems ==
  /\ pc = "items"
  /\ out' = {Pattern({i}, Count(db, i)) : i \in F}
  /\ pc' = "pairs"
  /\ UNCHANGED <<inputs, k, freq, freq_next, walked, itemset, siblings>>

\* Return if no more than the 1-items are asked for.
ReturnItems ==
  /\ pc = "pairs"
  /\ Beyond(2)
  /\ pc' = "done"
  /\ UNCHANGED <<inputs, k, freq, freq_next, walked, itemset, siblings, out>>

\* Insert and output one edge of the counter's graph F2.
InsertPair ==
  /\ pc = "pairs"
  /\ ~ Beyond(2)
  /\ \E x \in FrequentOfSize(db, support, 2) \ freq :
       /\ freq' = freq \cup {x}
       /\ out' = out \cup {Pattern(x, Support(db, x))}
  /\ UNCHANGED <<inputs, pc, k, freq_next, walked, itemset, siblings>>

PairsInserted ==
  /\ pc = "pairs"
  /\ ~ Beyond(2)
  /\ freq = FrequentOfSize(db, support, 2)
  /\ pc' = "level"
  /\ UNCHANGED <<inputs, k, freq, freq_next, walked, itemset, siblings, out>>

\* The head of the main loop: mine level k, or stop.
StartLevel ==
  /\ pc = "level"
  /\ freq # {}
  /\ ~ Beyond(k)
  /\ walked' = {}
  /\ pc' = "walk"
  /\ UNCHANGED <<inputs, k, freq, freq_next, itemset, siblings, out>>

Stop ==
  /\ pc = "level"
  /\ freq = {} \/ Beyond(k)
  /\ pc' = "done"
  /\ UNCHANGED <<inputs, k, freq, freq_next, walked, itemset, siblings, out>>

\* The walk moves on to x and its candidate walk starts.
NextItemset(x) ==
  /\ pc = "walk"
  /\ siblings = {}
  /\ itemset' = x
  /\ walked' = walked \cup {x}
  /\ siblings' = {y \in freq \ walked' : Siblings(db, x, y)}
  /\ UNCHANGED <<inputs, pc, k, freq, freq_next, out>>

\* Mutant of TryCandidate: relies on check_supports alone.
TryUncounted(y) ==
  LET diff == LastItem(db, y)
      candidate == itemset \cup {diff}
      frequency == Cardinality(Tidset(db, itemset) \cap Tidset(db, {diff}))
  IN /\ pc = "walk"
     /\ siblings' = siblings \ {y}
     /\ IF CheckSupports(candidate)
        THEN /\ freq_next' = freq_next \cup {candidate}
             /\ out' = out \cup {Pattern(candidate, frequency)}
        ELSE UNCHANGED <<freq_next, out>>
     /\ UNCHANGED <<inputs, pc, k, freq, walked, itemset>>

\* Mutant of TryCandidate: a pruned candidate does not advance the walk.
TryAgain(y) ==
  LET candidate == itemset \cup {LastItem(db, y)}
  IN /\ pc = "walk"
     /\ CheckSupports(candidate)
     /\ Frequent(db, support, candidate)
     /\ siblings' = siblings \ {y}
     /\ freq_next' = freq_next \cup {candidate}
     /\ out' = out \cup {Pattern(candidate, Support(db, candidate))}
     /\ UNCHANGED <<inputs, pc, k, freq, walked, itemset>>

(***************************************************************************)
(* The body of the candidate walk: the candidate is the itemset with the   *)
(* last item of a sibling, pruned when a subset is not frequent, and       *)
(* counted by intersecting the itemset's tidlist with that item's.         *)
(***************************************************************************)
TryCandidate(y) ==
  LET diff == LastItem(db, y)
      candidate == itemset \cup {diff}
      frequency == Cardinality(Tidset(db, itemset) \cap Tidset(db, {diff}))
  IN /\ pc = "walk"
     /\ siblings' = siblings \ {y}
     /\ IF CheckSupports(candidate) /\ frequency >= support
        THEN /\ freq_next' = freq_next \cup {candidate}
             /\ out' = out \cup {Pattern(candidate, frequency)}
        ELSE UNCHANGED <<freq_next, out>>
     /\ UNCHANGED <<inputs, pc, k, freq, walked, itemset>>

\* Mutant of EndLevel: keeps the old trie as the next buffer.
EndLevelKeeping ==
  /\ pc = "walk"
  /\ siblings = {}
  /\ walked = freq
  /\ freq' = freq_next
  /\ freq_next' = freq
  /\ k' = k + 1
  /\ pc' = "level"
  /\ UNCHANGED <<inputs, walked, itemset, siblings, out>>

\* Mutant of EndLevel: swaps the buffers while the walk is under way.
EndLevelEarly ==
  /\ pc = "walk"
  /\ freq' = freq_next
  /\ freq_next' = {}
  /\ k' = k + 1
  /\ pc' = "level"
  /\ UNCHANGED <<inputs, walked, itemset, siblings, out>>

\* The walk is over: swap the double buffer.
EndLevel ==
  /\ pc = "walk"
  /\ siblings = {}
  /\ walked = freq
  /\ freq' = freq_next
  /\ freq_next' = {}
  /\ k' = k + 1
  /\ pc' = "level"
  /\ UNCHANGED <<inputs, walked, itemset, siblings, out>>

Next ==
  \/ OutputItems
  \/ ReturnItems
  \/ InsertPair
  \/ PairsInserted
  \/ StartLevel
  \/ Stop
  \/ \E x \in freq \ walked : NextItemset(x)
  \/ \E y \in siblings : TryCandidate(y)
  \/ EndLevel

\* discover() runs alone in its thread, so it never stops short of its end.
Spec == Init /\ [][Next]_vars /\ WF_vars(Next)

-----------------------------------------------------------------------------

TypeOK ==
  /\ db \in Database
  /\ support \in Nat \ {0}
  /\ max_level \in Nat
  /\ pc \in Pc
  /\ k \in Nat \ {0, 1, 2}
  /\ freq \subseteq Itemset
  /\ freq_next \subseteq Itemset
  /\ walked \subseteq Itemset
  /\ itemset \in SUBSET Item
  /\ siblings \subseteq freq
  /\ out \subseteq [items : Itemset, count : Nat]

Reported == {p.items : p \in out}

WithinLevel(X) == max_level = 0 \/ Cardinality(X) <= max_level

(***************************************************************************)
(* Every line written names a frequent itemset within the maximum level    *)
(* and its exact support: the tidlist of the walked itemset, met with that *)
(* of one more item, counts the whole candidate.                           *)
(***************************************************************************)
Soundness ==
  \A p \in out : /\ Frequent(db, support, p.items)
                 /\ p.count = Support(db, p.items)
                 /\ WithinLevel(p.items)

(***************************************************************************)
(* When discover() returns, no frequent itemset within the maximum level   *)
(* is missing: neither the prefix join nor check_supports loses one.       *)
(***************************************************************************)
Completeness ==
  pc = "done" =>
    \A X \in Itemset :
      Frequent(db, support, X) /\ WithinLevel(X) => X \in Reported

(***************************************************************************)
(* At the head and in the body of the main loop freq holds exactly the     *)
(* frequent itemsets of k-1 items, what the join at level k relies on.     *)
(***************************************************************************)
LevelExact ==
  pc \in {"level", "walk"} => freq = FrequentOfSize(db, support, k - 1)

(***************************************************************************)
(* "each candidate itemset is generated only once" (Miner.cxx:197): what   *)
(* the candidate walk has still to yield leads to an itemset that is not   *)
(* in freq_next already, so discover() need not look before it inserts.    *)
(***************************************************************************)
GeneratedOnce ==
  \A y \in siblings : itemset \cup y \notin freq_next

(***************************************************************************)
(* The miner keeps the promise of FrequentSets: each pattern is reported   *)
(* once, after all of its subsets, and the end comes when none is owed.    *)
(***************************************************************************)
Promise == INSTANCE FrequentSets WITH done <- pc = "done"

KeepsPromise == Promise!Spec

\* discover() returns: the levels run out of frequent itemsets.
Termination == <>(pc = "done")

-----------------------------------------------------------------------------
(***************************************************************************)
(* The inductive invariant behind these properties.  At level k the walk   *)
(* has still to join the pairs of siblings that are Pending; every other   *)
(* pair of siblings with a frequent union has put it into freq_next.       *)
(***************************************************************************)

Pending(x, y) ==
  \/ x \notin walked /\ y \notin walked
  \/ x = itemset /\ y \in siblings
  \/ y = itemset /\ x \in siblings

\* The frequent itemsets of at most n items.
FrequentUpTo(n) ==
  {X \in Itemset : Cardinality(X) <= n /\ Frequent(db, support, X)}

PhaseInv ==
  /\ pc \in {"items", "pairs"} => k = 3
  /\ pc # "walk" => freq_next = {} /\ siblings = {}
  /\ pc = "items" => freq = {} /\ out = {}
  /\ pc = "pairs" => freq \subseteq FrequentOfSize(db, support, 2)
  /\ pc = "pairs" /\ Beyond(2) => freq = {}
  /\ pc = "level" => ~ Beyond(k - 1)
  /\ pc = "walk" => ~ Beyond(k)

ReportedExact ==
  /\ pc = "pairs" => Reported = FrequentUpTo(1) \cup freq
  /\ pc = "level" => Reported = FrequentUpTo(k - 1)
  /\ pc = "walk" => Reported = FrequentUpTo(k - 1) \cup freq_next

WalkInv ==
  pc = "walk" =>
    /\ walked \subseteq freq
    /\ \A y \in siblings : y \notin walked /\ Siblings(db, itemset, y)
    /\ siblings # {} => itemset \in walked

JoinExact ==
  pc = "walk" =>
    /\ \A x, y \in freq : Siblings(db, x, y) =>
         (x \cup y \in freq_next
            <=> Frequent(db, support, x \cup y) /\ ~ Pending(x, y))
    /\ \A X \in freq_next :
         \E x, y \in freq : Siblings(db, x, y) /\ X = x \cup y

IInv ==
  /\ TypeOK
  /\ PhaseInv
  /\ Soundness
  /\ LevelExact
  /\ ReportedExact
  /\ WalkInv
  /\ JoinExact
  /\ Completeness
=============================================================================
