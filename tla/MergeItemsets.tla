--------------------------- MODULE MergeItemsets ---------------------------
(***************************************************************************)
(* merge_itemsets (bitdrill/Merge_Itemsets.cxx): the items are divided     *)
(* into two parts, each part has been mined on its own, and the merge      *)
(* finds the frequent itemsets with items in both parts, level by level.   *)
(* The itemsets of level k come from three joins: of two itemsets of level *)
(* k-1 with items in both parts, and, for those with one item in a part,   *)
(* of what is left of two itemsets that share that item.                   *)
(***************************************************************************)
EXTENDS Itemsets

CONSTANTS Databases, Supports,
          Parts,       \* the sets of items a first part may be
          StartLevels  \* the levels a merge may start from

ASSUME MergeAssumption ==
  /\ Databases \subseteq Database
  /\ Supports \subseteq Nat \ {0}
  /\ Parts \subseteq SUBSET Item
  /\ StartLevels \subseteq Nat \ {0, 1}

VARIABLES
  db, support, part1,  \* the inputs
  start,           \* the level the merge starts from
  freq1, freq2,    \* the frequent itemsets of each part
  pc,              \* where the main loop stands
  k,               \* level to merge
  freq_prev,       \* frequent itemsets of k-1 items in both parts
  candidates,      \* those to be counted at level k
  num_candidates,  \* how many insertions made them
  out              \* the patterns written

inputs == <<db, support, part1, start, freq1, freq2>>
vars == <<db, support, part1, start, freq1, freq2, pc, k, freq_prev,
          candidates, num_candidates, out>>

Pc == {"level", "joined", "count", "done"}

F == {i \in Item : Count(db, i) >= support}

F1_1 == F \cap part1
F1_2 == F \ part1

\* The patterns a miner finds when it is given the items of S only.
Mined(S) == {X \in (SUBSET S) \ {{}} : Frequent(db, support, X)}

MaxLength(patterns) ==
  CHOOSE n \in 0 .. NumItems :
    /\ \A X \in patterns : Cardinality(X) <= n
    /\ n = 0 \/ \E X \in patterns : Cardinality(X) = n

InBothParts(X) == X \cap F1_1 # {} /\ X \cap F1_2 # {}

\* Mutant of CheckSupports: leaves out subsets in one part, which freq_prev lacks.
CheckCrossSupports(c) ==
  \A i \in c : InBothParts(c \ {i}) => c \ {i} \in freq_prev

\* Trie::check_supports on freq_prev.
CheckSupports(c) == \A i \in c : c \ {i} \in freq_prev

\* Mutant of CheckMergeSupports: asks freq_prev for subsets in one part too.
CheckAllSupports(c) == \A i \in c : c \ {i} \in freq_prev

\* check_merge_supports: only subsets in both parts are in freq_prev.
CheckMergeSupports(c) ==
  \A i \in c : InBothParts(c \ {i}) => c \ {i} \in freq_prev

\* A candidate's share of a part is looked up among the patterns of the part,
\* if it has more than one item and the part has patterns as long.
Present(X, patterns) ==
  1 < Cardinality(X) /\ Cardinality(X) <= MaxLength(patterns) => X \in patterns

Accepted(c) ==
  /\ InBothParts(c)
  /\ Present(c \cap F1_1, freq1)
  /\ Present(c \cap F1_2, freq2)
  /\ CheckSupports(c)

\* The pairs of siblings of freq_prev whose candidate is not pruned.
JoinPairs == {p \in SiblingPairs(db, freq_prev) : Accepted(UNION p)}

\* freq_cond_1 and freq_cond_2: what is left of the itemsets of freq_prev whose
\* only item in a part is i.
FreqCond(i, part) == {x \ {i} : x \in {y \in freq_prev : y \cap part = {i}}}

\* The conditional candidates of the items of one part, patterns being those of
\* the other: an item with two siblings of its conditional trie.
CondPairs(part, patterns) ==
  {c \in UNION {{i} \X SiblingPairs(db, FreqCond(i, part)) : i \in part} :
     /\ Present(UNION c[2], patterns)
     /\ CheckMergeSupports({c[1]} \cup UNION c[2])}

(***************************************************************************)
(* The patterns given are those up to level start-1 of the whole database; *)
(* the assertion at the head wants one at least of that length.            *)
(***************************************************************************)
Init ==
  /\ db \in Databases
  /\ support \in Supports
  /\ part1 \in Parts
  /\ start \in {n \in StartLevels : FrequentOfSize(db, support, n - 1) # {}}
  /\ freq1 = Mined(F1_1)
  /\ freq2 = Mined(F1_2)
  /\ pc = "level"
  /\ k = start
  /\ freq_prev = {X \in FrequentOfSize(db, support, start - 1) : InBothParts(X)}
  /\ candidates = {}
  /\ num_candidates = 0
  /\ out = {}

\* At level 2 every item of the one part meets every item of the other.
CrossProduct ==
  /\ pc = "level"
  /\ k = 2
  /\ candidates' = {{i, j} : i \in F1_1, j \in F1_2}
  /\ num_candidates' = Cardinality(F1_1) * Cardinality(F1_2)
  /\ pc' = "count"
  /\ UNCHANGED <<inputs, k, freq_prev, out>>

\* Walk freq_prev and join its siblings.
Join ==
  /\ pc = "level"
  /\ k > 2
  /\ freq_prev # {}
  /\ candidates' = {UNION p : p \in JoinPairs}
  /\ num_candidates' = Cardinality(JoinPairs)
  /\ pc' = "joined"
  /\ UNCHANGED <<inputs, k, freq_prev, out>>

\* Mutant of JoinConditional: forgets the conditional tries of the second part.
JoinConditionalOneSide ==
  /\ pc = "joined"
  /\ LET pairs == CondPairs(F1_1, freq2)
     IN /\ candidates' = candidates \cup {{c[1]} \cup UNION c[2] : c \in pairs}
        /\ num_candidates' = num_candidates + Cardinality(pairs)
  /\ pc' = "count"
  /\ UNCHANGED <<inputs, k, freq_prev, out>>

\* Walk the conditional tries of the items of either part.
JoinConditional ==
  /\ pc = "joined"
  /\ LET pairs == CondPairs(F1_1, freq2) \cup CondPairs(F1_2, freq1)
     IN /\ candidates' = candidates \cup {{c[1]} \cup UNION c[2] : c \in pairs}
        /\ num_candidates' = num_candidates + Cardinality(pairs)
  /\ pc' = "count"
  /\ UNCHANGED <<inputs, k, freq_prev, out>>

\* Mutant of CountCandidates: counts the levels down.
CountCandidatesBack ==
  /\ pc = "count"
  /\ candidates # {}
  /\ freq_prev' = {X \in candidates : Frequent(db, support, X)}
  /\ out' = out \cup {Pattern(X, Support(db, X)) : X \in freq_prev'}
  /\ k' = k - 1
  /\ pc' = "level"
  /\ candidates' = {}
  /\ num_candidates' = 0
  /\ UNCHANGED inputs

\* Mutant of CountCandidates: keeps every candidate for the next level.
CountCandidatesAll ==
  /\ pc = "count"
  /\ candidates # {}
  /\ freq_prev' = candidates
  /\ out' = out \cup {Pattern(X, Support(db, X)) : X \in freq_prev'}
  /\ k' = k + 1
  /\ pc' = "level"
  /\ candidates' = {}
  /\ num_candidates' = 0
  /\ UNCHANGED inputs

\* The walk over the candidates with their tidlists: the frequent ones are
\* written and make freq_prev anew.
CountCandidates ==
  /\ pc = "count"
  /\ candidates # {}
  /\ freq_prev' = {X \in candidates : Frequent(db, support, X)}
  /\ out' = out \cup {Pattern(X, Support(db, X)) : X \in freq_prev'}
  /\ k' = k + 1
  /\ pc' = "level"
  /\ candidates' = {}
  /\ num_candidates' = 0
  /\ UNCHANGED inputs

\* The loop breaks without candidates and ends without itemsets to join.
Exhausted ==
  /\ \/ pc = "count" /\ candidates = {}
     \/ pc = "level" /\ freq_prev = {} /\ k # 2
  /\ pc' = "done"
  /\ UNCHANGED <<inputs, k, freq_prev, candidates, num_candidates, out>>

Next ==
  \/ CrossProduct
  \/ Join
  \/ JoinConditional
  \/ CountCandidates
  \/ Exhausted

\* merge_itemsets runs alone in its thread, so it never stops short of its end.
Spec == Init /\ [][Next]_vars /\ WF_vars(Next)

-----------------------------------------------------------------------------

TypeOK ==
  /\ db \in Database
  /\ support \in Nat \ {0}
  /\ part1 \in SUBSET Item
  /\ start \in Nat \ {0, 1}
  /\ freq1 \subseteq Itemset
  /\ freq2 \subseteq Itemset
  /\ pc \in Pc
  /\ k \in Nat \ {0, 1}
  /\ freq_prev \subseteq Itemset
  /\ candidates \subseteq Itemset
  /\ num_candidates \in Nat
  /\ out \subseteq [items : Itemset, count : Nat]

Reported == {p.items : p \in out}

(***************************************************************************)
(* What merge_itemsets writes are frequent itemsets with items in both     *)
(* parts, from the start level on, with their exact support.               *)
(***************************************************************************)
MergeSound ==
  \A p \in out : /\ InBothParts(p.items)
                 /\ Cardinality(p.items) >= start
                 /\ Frequent(db, support, p.items)
                 /\ p.count = Support(db, p.items)

(***************************************************************************)
(* Mining the parts apart and merging loses nothing: at the end each       *)
(* frequent itemset lies in one part, is below the start level, or has     *)
(* been written.                                                           *)
(***************************************************************************)
MergeComplete ==
  pc = "done" =>
    \A X \in Itemset :
      Frequent(db, support, X) =>
        X \in freq1 \cup freq2 \cup Reported \/ Cardinality(X) < start

(***************************************************************************)
(* At the head of the loop freq_prev holds exactly the frequent itemsets   *)
(* of k-1 items in both parts: the three joins together miss none.         *)
(***************************************************************************)
CrossLevelExact ==
  pc = "level" =>
    freq_prev = {X \in FrequentOfSize(db, support, k - 1) : InBothParts(X)}

(***************************************************************************)
(* No candidate is generated twice: neither by two pairs of siblings nor   *)
(* by two of the three joins, so num_candidates counts itemsets.           *)
(***************************************************************************)
MergeGeneratedOnce == num_candidates = Cardinality(candidates)

(***************************************************************************)
(* "k-1 itemset must be present in freq2" (Merge_Itemsets.cxx:342) and in  *)
(* freq1: a candidate's subset of k-1 items in one part is frequent.       *)
(***************************************************************************)
SubsetsPresent ==
  pc = "count" /\ k > 2 =>
    \A c \in candidates : \A i \in c :
      InBothParts(c \ {i}) \/ c \ {i} \in freq1 \cup freq2

\* merge_itemsets returns: the levels run out of candidates.
Termination == <>(pc = "done")

-----------------------------------------------------------------------------
(***************************************************************************)
(* The inductive invariant behind these properties.                        *)
(***************************************************************************)

\* The frequent itemsets of n items that the merge is for.
CrossFrequent(n) == {X \in FrequentOfSize(db, support, n) : InBothParts(X)}

PartsMined == freq1 = Mined(F1_1) /\ freq2 = Mined(F1_2)

LevelInv ==
  /\ k >= start
  /\ pc \in {"level", "joined"} => freq_prev = CrossFrequent(k - 1)
  /\ pc = "joined" => k > 2 /\ candidates = {UNION p : p \in JoinPairs}

\* A level's candidates cover what is frequent and have the level's size.
CountInv ==
  pc = "count" =>
    /\ CrossFrequent(k) \subseteq candidates
    /\ \A c \in candidates : Cardinality(c) = k /\ InBothParts(c)

\* All cross itemsets below the current level are reported, at the end all.
ReportedCross ==
  \A X \in Itemset :
    /\ InBothParts(X) /\ Frequent(db, support, X)
    /\ start <= Cardinality(X)
    /\ pc = "done" \/ Cardinality(X) < k
    => X \in Reported

MergeInv ==
  /\ TypeOK
  /\ PartsMined
  /\ LevelInv
  /\ CountInv
  /\ ReportedCross
  /\ MergeSound
=============================================================================
