---------------------------- MODULE MinerHistory ----------------------------
(***************************************************************************)
(* Miner implements Levelwise.  The walk of Miner forgets what it passed   *)
(* when it backtracks, so two history variables remember it: the itemsets  *)
(* the walk has reported at this level and the last of them.               *)
(***************************************************************************)
EXTENDS Miner

VARIABLES walked, last

historyVars == <<walked, last>>

Vectors(t) == {ToSet(s) : s \in t.ends}

Patterns(lines) ==
  {Pattern(ToSet(lines[n].items), lines[n].count) : n \in DOMAIN lines}

HInit == Init /\ walked = {} /\ last = {}

Reports == pc = "walk" /\ pc' = "cand"

Remember ==
  IF Reports
  THEN /\ last' = ToSet(current_string')
       /\ walked' = walked \cup {last'}
  ELSE /\ last' = last
       /\ walked' = IF pc = "level" /\ pc' = "walk" THEN {} ELSE walked

HNext == Next /\ Remember

HSpec == HInit /\ [][HNext]_<<vars, historyVars>> /\ WF_vars(HNext)

\* The siblings of s from the arc behind the c-th on.
Rest(t, s, c) ==
  LET list == t.kids[Front(s)]
  IN {ToSet(Append(Front(s), list[i])) : i \in c + 1 .. Len(list)}

Remaining == IF pc = "cand" THEN Rest(freq, current_string, cand) ELSE {}

Abstract == INSTANCE Levelwise WITH
  pc <- IF pc = "cand" THEN "walk" ELSE pc,
  freq <- Vectors(freq),
  freq_next <- Vectors(freq_next),
  itemset <- last,
  siblings <- Remaining,
  out <- Patterns(out)

(***************************************************************************)
(* Tries, stacks and iterators do what Levelwise says on sets: the walk    *)
(* reports each itemset once, and the candidate walk yields exactly the    *)
(* siblings it has not passed, though insertion at the front of the slists *)
(* scrambles their order from level to level.                              *)
(***************************************************************************)
Implements == Abstract!Spec

\* The patterns a run is to find.
Wanted ==
  {Pattern(X, Support(db, X)) :
     X \in {Y \in Itemset : /\ Frequent(db, support, Y)
                            /\ max_level = 0 \/ Cardinality(Y) <= max_level}}

(***************************************************************************)
(* discover() writes patterns that are wanted only, with their supports,   *)
(* and has written all of them when it returns.                            *)
(***************************************************************************)
OutputExact ==
  /\ Patterns(out) \subseteq Wanted
  /\ pc = "done" => Patterns(out) = Wanted

-----------------------------------------------------------------------------
(***************************************************************************)
(* The inductive invariant behind the refinement and LinesOrdered.         *)
(***************************************************************************)

\* The vector is in greater_freq order.
OrderedBy(d, s) == \A i, j \in DOMAIN s : i < j => GreaterFreq(d, s[i], s[j])

\* A trie of ordered vectors of n items: no node but the prefixes of its
\* strings, no two arcs of a node alike.
Whole(d, t, n) ==
  /\ \A p \in Nodes(t) : \A l \in 1 .. Len(p) :
       LET up == SubSeq(p, 1, l - 1)
       IN up \in Nodes(t) /\ \E j \in DOMAIN t.kids[up] : t.kids[up][j] = p[l]
  /\ \A p \in Nodes(t) : \A i, j \in DOMAIN t.kids[p] :
       t.kids[p][i] = t.kids[p][j] => i = j
  /\ \A p \in Nodes(t) : Len(p) = n => p \in t.ends
  /\ \A p \in Nodes(t) : p # <<>> =>
       \E e \in t.ends : Len(p) <= Len(e) /\ SubSeq(e, 1, Len(p)) = p
  /\ \A e \in t.ends : OrderedBy(d, e)

\* The string leaves the path s at its l-th arc, before the iterator there.
LeavesAt(t, s, iters, p, l) ==
  LET up == SubSeq(s, 1, l - 1)
  IN /\ SubSeq(p, 1, l - 1) = up
     /\ \E j \in DOMAIN t.kids[up] : j < iters[l] /\ t.kids[up][j] = p[l]

\* The string is on a branch the walk on s has left behind.
Behind(t, s, iters, p) ==
  \E l \in 1 .. Len(p) : l <= Len(iters) /\ LeavesAt(t, s, iters, p, l)

\* The strings a walk has reported when it stands on s.
Passed(t, s, iters) == {p \in t.ends : p = s \/ Behind(t, s, iters, p)}

Edge(e) == {e[1], e[2]}

\* F and F2 have each frequent item and pair once.
ItemsInv ==
  /\ \A i \in Item : (\E n \in DOMAIN F : F[n] = i) <=> Count(db, i) >= support
  /\ \A m, n \in DOMAIN F : F[m] = F[n] => m = n
  /\ {Edge(F2[n]) : n \in DOMAIN F2} = FrequentOfSize(db, support, 2)
  /\ \A m, n \in DOMAIN F2 : Edge(F2[m]) = Edge(F2[n]) => m = n
  /\ pc = "items" => edge = 0 /\ out = <<>>
  /\ pc \in {"items", "pairs"} =>
       /\ edge <= Len(F2)
       /\ Vectors(freq) = {Edge(F2[n]) : n \in 1 .. edge}

\* Whole tries; the history variables hold what the walk has reported.
WalkedInv ==
  /\ Whole(db, freq, k - 1)
  /\ Whole(db, freq_next, k)
  /\ pc \in {"walk", "cand"} =>
       walked = IF iter_stack = <<>> THEN Vectors(freq)
                ELSE {ToSet(p) : p \in Passed(freq, current_string, iter_stack)}
  /\ pc = "cand" => /\ last = ToSet(current_string)
                    /\ Last(Front(iter_stack)) <= cand

\* Two siblings the candidate walks have still to join.
Pending(x, y) ==
  \/ x \notin walked /\ y \notin walked
  \/ x = last /\ y \in Remaining
  \/ y = last /\ x \in Remaining

\* The lines of the level being mined are the strings of its trie, and those
\* are unions of siblings that have been joined.
LinesInv ==
  /\ LinesOrdered
  /\ pc \notin {"walk", "cand"} => freq_next.ends = {}
  /\ \A n \in DOMAIN out : LET s == out[n].items IN
       /\ pc = "pairs" => Len(s) <= 2 /\ (Len(s) = 2 => ToSet(s) \in Vectors(freq))
       /\ pc = "level" => Len(s) <= k - 1
       /\ pc \in {"walk", "cand"} =>
            Len(s) <= k /\ (Len(s) = k => ToSet(s) \in Vectors(freq_next))
  /\ pc \in {"walk", "cand"} => \A X \in Vectors(freq_next) :
       \E x, y \in Vectors(freq) :
         Siblings(db, x, y) /\ X = x \cup y /\ ~ Pending(x, y)

HistoryInv ==
  /\ MinerInv
  /\ ItemsInv
  /\ WalkedInv
  /\ LinesInv
=============================================================================
