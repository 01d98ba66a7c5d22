------------------------------ MODULE CandMiner ------------------------------
(***************************************************************************)
(* Mining on from given patterns (bitdrill/Miner.cxx 249-836).  The        *)
(* patterns are those of a run that stopped at some level.  Three routes   *)
(* go on from them: discover() with the patterns; gen_candidates, whose    *)
(* candidates discover_cand counts; or the same candidates counted by      *)
(* discover_cand_serial.  The candidates may have been generated up to     *)
(* another level than is mined, and the patterns mined with another        *)
(* support.  A level is one step; Levelwise has the walk within a level.   *)
(***************************************************************************)
EXTENDS Inputs

CONSTANTS FirstLevels,  \* the levels the given patterns may have been mined up to
          Unset         \* what the front of an empty list may hold for an int

ASSUME FirstLevelsAssumption == FirstLevels \subseteq Nat \ {0}

ASSUME UnsetAssumption == Unset \subseteq Int

VARIABLES
  db, support,   \* what is mined now
  mined,         \* the support the given patterns were mined with
  given,         \* the length of the longest of them
  route,         \* which way to go on
  gen_level,     \* the max_level of gen_candidates
  max_level,     \* the max_level of the miner
  pc,            \* where the functions stand
  k,             \* level to mine
  freq,          \* the trie the next level is joined from
  candidates,    \* the candidates generated
  out,           \* the patterns found
  num_transactions  \* that of the Pattern_Set read last

inputs == <<db, support, mined, given, route, gen_level>>
vars == <<db, support, mined, given, route, gen_level, max_level, pc, k, freq,
          candidates, out, num_transactions>>

Routes == {"resume", "cand", "serial"}

\* The programs are at "undefined" once C++ gives their next step no meaning.
Pc == {"gen", "read", "resume", "cand", "serial", "next", "done", "undefined"}

\* The items the vertical database has a tidlist of.
F == {i \in Item : Count(db, i) >= support}

\* max_level && k > max_level
Beyond(limit, n) == limit # 0 /\ n > limit

\* Mutant of CheckSupports: looks for the parents of the candidate only.
CheckParents(c) == \E i, j \in c : i # j /\ {c \ {i}, c \ {j}} \subseteq freq

\* Trie::check_supports
CheckSupports(c) == \A i \in c : c \ {i} \in freq

\* Mutant of Joined: keeps what two siblings share.
JoinedShared ==
  {c \in {x \cap y : x, y \in freq} : CheckSupports(c)}

\* What the walk of freq and its candidate walks yield, after pruning.
Joined == {c \in {UNION p : p \in SiblingPairs(db, freq)} : CheckSupports(c)}

FrequentAmong(S) == {X \in S : Frequent(db, support, X)}

Found(S) == {Pattern(X, Support(db, X)) : X \in S}

\* The candidates of one length: an entry of bysize.
OfSize(n) == {X \in candidates : Cardinality(X) = n}

\* Pattern_Set::max_length of the candidates.
Longest == CHOOSE n \in {Cardinality(X) : X \in candidates} : OfSize(n + 1) = {}

(***************************************************************************)
(* The given patterns are the frequent itemsets up to some level, the      *)
(* longest of which are put into freq; a file without any has nothing to   *)
(* go on from.  The first line of that file has no items and the number of *)
(* transactions.                                                           *)
(***************************************************************************)
Init ==
  /\ db \in Databases
  /\ support \in Supports
  /\ mined \in Supports
  /\ FrequentOfSize(db, mined, 1) # {}
  /\ \E first \in FirstLevels :
       given = CHOOSE n \in 1 .. first :
                 /\ FrequentOfSize(db, mined, n) # {}
                 /\ n = first \/ FrequentOfSize(db, mined, n + 1) = {}
  /\ route \in Routes
  /\ gen_level \in MaxLevels
  /\ max_level \in MaxLevels
  /\ pc = IF route = "resume" THEN "resume" ELSE "gen"
  /\ k = given + 1
  /\ freq = FrequentOfSize(db, mined, given)
  /\ candidates = {}
  /\ out = {}
  /\ num_transactions = NumTxn

\* One turn of the loop of gen_candidates.
GenerateLevel ==
  /\ pc = "gen"
  /\ freq # {} /\ ~ Beyond(gen_level, k)
  /\ freq' = Joined
  /\ candidates' = candidates \cup Joined
  /\ k' = k + 1
  /\ UNCHANGED <<inputs, max_level, pc, out, num_transactions>>

Generated ==
  /\ pc = "gen"
  /\ freq = {} \/ Beyond(gen_level, k)
  /\ pc' = "read"
  /\ UNCHANGED <<inputs, max_level, k, freq, candidates, out, num_transactions>>

\* Pattern_Set::read takes the number of transactions from the first pattern
\* without items; no candidate is one, and so from the front of an empty list.
ReadCount == num_transactions' \in Unset

\* min_length dereferences the first pattern of a set that may have none.
ReadNothing ==
  /\ pc = "read"
  /\ candidates = {}
  /\ ReadCount
  /\ pc' = "undefined"
  /\ UNCHANGED <<inputs, max_level, k, freq, candidates, out>>

\* Mutant of ReadCandidates: discover_cand takes max_level as it is.
ReadUncapped ==
  /\ pc = "read"
  /\ candidates # {}
  /\ ReadCount
  /\ k' = CHOOSE n \in {Cardinality(X) : X \in candidates} : OfSize(n - 1) = {}
  /\ max_level' = IF max_level = 0 THEN Longest ELSE max_level
  /\ freq' = {}
  /\ pc' = route
  /\ UNCHANGED <<inputs, candidates, out>>

\* The shortest candidates come first; discover_cand takes the longest for the
\* last, discover_cand_serial does so only without a max_level.
ReadCandidates ==
  /\ pc = "read"
  /\ candidates # {}
  /\ ReadCount
  /\ k' = CHOOSE n \in {Cardinality(X) : X \in candidates} : OfSize(n - 1) = {}
  /\ max_level' = CASE max_level = 0 -> Longest
                    [] route = "cand" /\ Longest < max_level -> Longest
                    [] OTHER -> max_level
  /\ freq' = {}
  /\ pc' = route
  /\ UNCHANGED <<inputs, candidates, out>>

\* The walk needs a candidate to start with, and a tidlist of each item.
Walkable(level) == level # {} /\ UNION level \subseteq F

\* Mutant of CountLevel: does not go on to the next level.
CountLevelAgain ==
  /\ \/ pc = "cand" /\ k <= max_level /\ pc' = "cand"
     \/ pc = "serial" /\ pc' = "next"
  /\ Walkable(OfSize(k))
  /\ freq' = FrequentAmong(OfSize(k))
  /\ out' = out \cup Found(freq')
  /\ UNCHANGED <<inputs, max_level, k, candidates, num_transactions>>

(***************************************************************************)
(* discover_cand counts the candidates level by level.  Both its levels    *)
(* and the first of discover_cand_serial walk a trie of all candidates of  *)
(* length k, which has no meaning for an empty trie or an unknown item.    *)
(***************************************************************************)
CountLevel ==
  /\ \/ pc = "cand" /\ k <= max_level /\ pc' = "cand"
     \/ pc = "serial" /\ pc' = "next"
  /\ Walkable(OfSize(k))
  /\ freq' = FrequentAmong(OfSize(k))
  /\ out' = out \cup Found(freq')
  /\ k' = k + 1
  /\ UNCHANGED <<inputs, max_level, candidates, num_transactions>>

CountUndefined ==
  /\ \/ pc = "cand" /\ k <= max_level
     \/ pc = "serial"
  /\ ~ Walkable(OfSize(k))
  /\ pc' = "undefined"
  /\ UNCHANGED <<inputs, max_level, k, freq, candidates, out, num_transactions>>

\* The further levels of discover_cand_serial: a join must be a candidate.
CountNext ==
  /\ pc = "next"
  /\ freq # {} /\ ~ Beyond(max_level, k)
  /\ k <= Longest
  /\ freq' = FrequentAmong(Joined \cap OfSize(k))
  /\ out' = out \cup Found(freq')
  /\ k' = k + 1
  /\ UNCHANGED <<inputs, max_level, pc, candidates, num_transactions>>

\* bysize has no entry k.
PastBysize ==
  /\ pc = "next"
  /\ freq # {} /\ ~ Beyond(max_level, k)
  /\ k > Longest
  /\ pc' = "undefined"
  /\ UNCHANGED <<inputs, max_level, k, freq, candidates, out, num_transactions>>

\* Mutant of MineLevel: keeps the infrequent joins in the trie.
MineLevelLoose ==
  /\ pc = "resume"
  /\ freq # {} /\ ~ Beyond(max_level, k)
  /\ freq' = Joined
  /\ out' = out \cup Found(freq')
  /\ k' = k + 1
  /\ UNCHANGED <<inputs, max_level, pc, candidates, num_transactions>>

\* One turn of the loop of discover() from given patterns.
MineLevel ==
  /\ pc = "resume"
  /\ freq # {} /\ ~ Beyond(max_level, k)
  /\ freq' = FrequentAmong(Joined)
  /\ out' = out \cup Found(freq')
  /\ k' = k + 1
  /\ UNCHANGED <<inputs, max_level, pc, candidates, num_transactions>>

Return ==
  /\ \/ pc \in {"resume", "next"} /\ (freq = {} \/ Beyond(max_level, k))
     \/ pc = "cand" /\ k > max_level
  /\ pc' = "done"
  /\ UNCHANGED <<inputs, max_level, k, freq, candidates, out, num_transactions>>

Next ==
  \/ GenerateLevel
  \/ Generated
  \/ ReadNothing
  \/ ReadCandidates
  \/ CountLevel
  \/ CountUndefined
  \/ CountNext
  \/ PastBysize
  \/ MineLevel
  \/ Return

\* Each program runs alone in one thread.
Spec == Init /\ [][Next]_vars /\ WF_vars(Next)

-----------------------------------------------------------------------------

TypeOK ==
  /\ db \in Database
  /\ support \in Nat \ {0}
  /\ mined \in Nat \ {0}
  /\ given \in Nat \ {0}
  /\ route \in Routes
  /\ gen_level \in Nat
  /\ max_level \in Nat
  /\ pc \in Pc
  /\ k \in Nat \ {0, 1}
  /\ freq \subseteq Itemset
  /\ candidates \subseteq Itemset
  /\ out \subseteq [items : Itemset, count : Nat]
  /\ num_transactions \in Int

\* The itemsets longer than the given patterns whose subsets of that length
\* are all among the given ones.
Covered(X) ==
  /\ Cardinality(X) > given
  /\ \A Y \in SUBSET X :
       Cardinality(Y) = given => Frequent(db, mined, Y)

(***************************************************************************)
(* gen_candidates yields exactly the itemsets, within its level, all of    *)
(* whose subsets of the given length are given patterns: pruning one level *)
(* at a time loses none and keeps no other.                                *)
(***************************************************************************)
CandidatesExact ==
  pc \in {"read", "cand", "serial", "next"} =>
    candidates = {X \in Itemset : Covered(X) /\ ~ Beyond(gen_level, Cardinality(X))}

\* discover_cand_serial mines its first level whatever its max_level is.
WithinLevels(X) ==
  /\ route # "resume" => ~ Beyond(gen_level, Cardinality(X))
  /\ \/ ~ Beyond(max_level, Cardinality(X))
     \/ route = "serial" /\ Cardinality(X) = given + 1

(***************************************************************************)
(* The three routes find the same: what is frequent now, longer than the   *)
(* given patterns and made of given patterns, within the levels asked for. *)
(***************************************************************************)
FoundExact ==
  pc = "done" =>
    out = Found({X \in FrequentAmong(Itemset) : Covered(X) /\ WithinLevels(X)})

\* The steps of Miner.cxx, with min_length, that have no meaning in C++.
MinerUndefinedOnly ==
  pc = "undefined" =>
    /\ route # "resume"
    /\ \/ candidates = {}
       \/ support > mined
       \/ route = "serial" /\ max_level > Longest

\* The number of transactions may be anything once candidates have been read.
CountUnknownOnly ==
  num_transactions # NumTxn => route # "resume" /\ pc \notin {"gen", "read"}

(***************************************************************************)
(* The functions of Miner.cxx come to a step without meaning only without  *)
(* candidates, by a support above that of the given patterns, or, in       *)
(* discover_cand_serial alone, by a max_level above that of the            *)
(* candidates: gen_candidates leaves no level empty that discover_cand     *)
(* walks.  Pattern_Set::read has another such step: of every file of       *)
(* candidates it takes front() of an empty list, and num_transactions may  *)
(* be any int from there on.  That value never gets to the vertical        *)
(* database which discover() from given patterns mines.                    *)
(***************************************************************************)
UndefinedOnly == MinerUndefinedOnly /\ CountUnknownOnly

\* Every route comes to an end.
Termination == <>(pc \in {"done", "undefined"})

-----------------------------------------------------------------------------
(***************************************************************************)
(* The inductive invariant behind these properties, route by route.        *)
(***************************************************************************)

\* Every subset of X with g items is a pattern of support m.
Made(d, m, g, X) == \A Y \in SUBSET X : Cardinality(Y) = g => Frequent(d, m, Y)

\* The itemsets of n items made of the given patterns.
Level(d, m, g, n) == {X \in Itemset : Cardinality(X) = n /\ Made(d, m, g, X)}

\* Those longer than the given patterns, of fewer than n items.
Below(d, m, g, n) ==
  {X \in Itemset : g < Cardinality(X) /\ Cardinality(X) < n /\ Made(d, m, g, X)}

\* The candidates a limit leaves.
Limited(d, m, g, limit) ==
  {X \in Itemset :
     g < Cardinality(X) /\ Made(d, m, g, X) /\ ~ Beyond(limit, Cardinality(X))}

\* A run stays on its route.
RouteInv ==
  /\ pc = "resume" => route = "resume"
  /\ pc \in {"gen", "read"} => route \in {"cand", "serial"} /\ out = {}
  /\ pc = "cand" => route = "cand"
  /\ pc \in {"serial", "next"} => route = "serial"

GenerateInv ==
  pc = "gen" =>
    /\ freq = Level(db, mined, given, k - 1)
    /\ candidates = Below(db, mined, given, k)
    /\ k = given + 1 \/ ~ Beyond(gen_level, k - 1)

CandidatesInv ==
  pc \in {"read", "cand", "serial", "next"} =>
    candidates = Limited(db, mined, given, gen_level)

\* The frequent candidates shorter than k have been found.
CountInv ==
  pc \in {"cand", "serial", "next"} =>
    /\ candidates # {}
    /\ max_level # 0
    /\ out = Found({X \in FrequentAmong(candidates) : Cardinality(X) < k})
    /\ pc = "cand" => max_level <= Longest /\ (k = given + 1 \/ k - 1 <= max_level)
    /\ pc = "serial" => k = given + 1
    /\ pc = "next" =>
         /\ k > given + 1
         /\ k = given + 2 \/ k - 1 <= max_level
         /\ freq = {X \in FrequentAmong(candidates) : Cardinality(X) = k - 1}

ResumeInv ==
  pc = "resume" =>
    /\ freq = IF k = given + 1
              THEN Level(db, mined, given, given)
              ELSE FrequentAmong(Level(db, mined, given, k - 1))
    /\ out = Found(FrequentAmong(Below(db, mined, given, k)))
    /\ k = given + 1 \/ ~ Beyond(max_level, k - 1)

CandInv ==
  /\ TypeOK
  /\ given < k
  /\ RouteInv
  /\ GenerateInv
  /\ CandidatesInv
  /\ CountInv
  /\ ResumeInv
  /\ FoundExact
  /\ UndefinedOnly
=============================================================================
