----------------------------- MODULE VerticalDB -----------------------------
(***************************************************************************)
(* bitdrill/Vertical_DB.cxx: the constructor scans the transactions once   *)
(* and fills a tidlist for each frequent item; afterwards clients walk     *)
(* down and up strings of items, each time intersecting into a cache as    *)
(* Trie::Walk_Tidlist does, or ask for the frequency of a whole itemset.   *)
(* The tidlists are named by their items, which folds the maps between     *)
(* items and positions in F into the index.                                *)
(***************************************************************************)
EXTENDS Itemsets, TidList

CONSTANTS Databases, Supports,
          Depth   \* bound on the strings clients walk, the k of Walk_Tidlist

ASSUME InputAssumption ==
  /\ Databases \subseteq Database
  /\ Supports \subseteq Nat \ {0}
  /\ Depth \in Nat \ {0}

VARIABLES
  db,        \* the transactions; those from num_txn on do not exist
  num_txn,   \* how many there are
  support,   \* the support that chose F
  pc,        \* "scan", "ready", or "exited" after Tid_List::error
  txn_id,    \* next transaction to scan
  tidlists,  \* the list of each frequent item
  string,    \* Walk_Tidlist::current_string
  cache,     \* Walk_Tidlist::tidlist_cache
  asked,     \* the last itemset frequency() was called with, or <<>>
  answer     \* what it returned

inputs == <<db, num_txn, support>>
client == <<string, cache, asked, answer>>
vars == <<db, num_txn, support, pc, txn_id, tidlists, string, cache, asked,
          answer>>

\* The set F of the counter; Vertical_DB only reorders it.
F == {i \in Item : Count(db, i) >= support}

Init ==
  /\ db \in Databases
  /\ num_txn \in {n \in 1 .. NumTxn : \A t \in Tid : t >= n => db[t] = {}}
  /\ support \in Supports
  /\ pc = "scan"
  /\ txn_id = 0
  /\ tidlists = [i \in F |-> Reset(num_txn, Count(db, i))]
  /\ string = <<>>
  /\ cache = [d \in 1 .. Depth |-> BitvectorOf(NewBits(0))]
  /\ asked = <<>>
  /\ answer = 0

\* Read a transaction and insert its frequent items.
ScanTransaction ==
  /\ pc = "scan"
  /\ txn_id < num_txn
  /\ tidlists' = [i \in F |-> IF i \in db[txn_id]
                              THEN AddTransaction(tidlists[i], txn_id)
                              ELSE tidlists[i]]
  /\ txn_id' = txn_id + 1
  /\ UNCHANGED <<inputs, pc, client>>

\* The scan is over; a Walk_Tidlist resets the lists of its cache.
StartWalk ==
  /\ pc = "scan"
  /\ txn_id = num_txn
  /\ F # {}
  /\ \E first \in F :
       /\ \A i \in F \ {first} : GreaterFreq(db, first, i)
       /\ cache' = [d \in 1 .. Depth |-> Reset(num_txn, Count(db, first))]
  /\ pc' = "ready"
  /\ UNCHANGED <<inputs, txn_id, tidlists, string, asked, answer>>

\* Walk_Tidlist::next follows an arc.
Descend(i) ==
  LET depth == Len(string) + 1
  IN /\ pc = "ready"
     /\ depth <= Depth
     /\ i \notin ToSet(string)
     /\ string' = Append(string, i)
     /\ cache' = [cache EXCEPT ![depth] =
                    IF depth = 1 THEN tidlists[i]
                    ELSE Intersect(cache[depth - 1], tidlists[i])]
     /\ UNCHANGED <<inputs, pc, txn_id, tidlists, asked, answer>>

\* It goes back one arc; the lists of the cache stay.
Backtrack ==
  /\ pc = "ready"
  /\ string # <<>>
  /\ string' = Front(string)
  /\ UNCHANGED <<inputs, pc, txn_id, tidlists, cache, asked, answer>>

\* Vertical_DB::tidlist: two items with a result, the others in place.
TidlistOf(x) ==
  LET meet[n \in 1 .. Len(x)] ==
        IF n = 1 THEN tidlists[x[1]]
        ELSE IF n = 2 THEN Intersect(meet[n - 1], tidlists[x[n]])
        ELSE IF meet[n - 1] = Error THEN Error
        ELSE IntersectInPlace(meet[n - 1], tidlists[x[n]])
  IN meet[Len(x)]

\* Vertical_DB::frequency
Frequency(x) ==
  /\ pc = "ready"
  /\ string = <<>>
  /\ asked' = x
  /\ IF TidlistOf(x) = Error
     THEN pc' = "exited" /\ answer' = answer
     ELSE pc' = pc /\ answer' = CountTids(TidlistOf(x))
  /\ UNCHANGED <<inputs, txn_id, tidlists, string, cache>>

\* The strings of distinct frequent items, as clients pass them.
Vectors == {x \in BoundedSeq(F, Depth) : x # <<>> /\ IsInjective(x)}

Next ==
  \/ ScanTransaction
  \/ StartWalk
  \/ \E i \in F : Descend(i)
  \/ Backtrack
  \/ \E x \in Vectors : Frequency(x)

Spec == Init /\ [][Next]_vars

-----------------------------------------------------------------------------

TypeOK ==
  /\ db \in Database
  /\ num_txn \in Nat
  /\ support \in Nat \ {0}
  /\ pc \in {"scan", "ready", "exited"}
  /\ txn_id \in 0 .. num_txn
  /\ \A i \in F : IsSound(tidlists[i])
  /\ string \in Seq(F)
  /\ \A d \in DOMAIN cache : IsSound(cache[d])
  /\ asked \in Seq(F)
  /\ answer \in Nat

(***************************************************************************)
(* Whatever representation each list has, and whatever a list of the cache *)
(* held before, the lists stand for the transactions scanned so far of the *)
(* items and for the transactions of the prefixes of the string.           *)
(***************************************************************************)
ListsExact ==
  /\ \A i \in F : Denotes(tidlists[i]) = {t \in 0 .. txn_id - 1 : i \in db[t]}
  /\ \A d \in DOMAIN string :
       Denotes(cache[d]) = Tidset(db, ToSet(SubSeq(string, 1, d)))

(***************************************************************************)
(* Tid_List::count_intersection, the frequency discover() compares with    *)
(* the support, is the support of the string with one more item: in all    *)
(* four pairs of representations, with full words and with a partial one.  *)
(***************************************************************************)
CountsExact ==
  string # <<>> =>
    \A i \in F :
      CountIntersection(cache[Len(string)], tidlists[i])
        = Support(db, ToSet(string) \cup {i})

(***************************************************************************)
(* frequency() is right whenever at most one intersection is made.         *)
(***************************************************************************)
PairFrequencyExact ==
  Len(asked) \in {1, 2} => answer = Support(db, ToSet(asked))

(***************************************************************************)
(* The inductive invariant of the four above: with the counter's promise   *)
(* that transactions from num_txn on do not exist, and with the sizes that *)
(* make two bit vectors comparable.                                        *)
(***************************************************************************)
Sized(tl) == tl.implementation = "Bitvector" => tl.bitvector.num_bits = num_txn

SizesFit ==
  /\ num_txn \in 1 .. NumTxn
  /\ \A t \in Tid : t >= num_txn => db[t] = {}
  /\ tidlists \in [F -> TidLists]
  /\ cache \in [1 .. Depth -> TidLists]
  /\ \A i \in F : Sized(tidlists[i])
  /\ Len(string) <= Depth
  /\ \A d \in DOMAIN string : Sized(cache[d])

ScanFirst ==
  IF pc = "scan" THEN string = <<>> /\ asked = <<>> ELSE txn_id = num_txn

IInv == TypeOK /\ ListsExact /\ PairFrequencyExact /\ SizesFit /\ ScanFirst

(***************************************************************************)
(* frequency() returns the "number of times itemset occurs in dataset"     *)
(* (Vertical_DB.cxx:160) for an itemset of any length.                     *)
(***************************************************************************)
FrequencyExact ==
  pc = "ready" /\ asked # <<>> => answer = Support(db, ToSet(asked))
=============================================================================
