---------------------------- MODULE FrequentSets ----------------------------
(***************************************************************************)
(* What a frequent itemset miner promises, whatever its algorithm: it      *)
(* reports itemsets with their support, only frequent ones within the      *)
(* maximum level, each once, never before all of its subsets, and it       *)
(* announces the end only when none is missing.                            *)
(***************************************************************************)
EXTENDS Inputs

VARIABLES
  db, support, max_level,  \* the inputs of the run, never changed
  out,                     \* the patterns reported so far
  done                     \* has the miner announced the end?

inputs == <<db, support, max_level>>
vars == <<db, support, max_level, out, done>>

\* The patterns a run owes its caller.
Owed ==
  {Pattern(X, Support(db, X)) :
     X \in {Y \in Itemset : /\ Frequent(db, support, Y)
                            /\ max_level = 0 \/ Cardinality(Y) <= max_level}}

Reported == {p.items : p \in out}

Init ==
  /\ db \in Databases
  /\ support \in Supports
  /\ max_level \in MaxLevels
  /\ out = {}
  /\ done = FALSE

(***************************************************************************)
(* Report some owed patterns.  A reader of the output can rely on the      *)
(* order: the nonempty proper subsets of an itemset are there before it.   *)
(***************************************************************************)
Report ==
  /\ ~ done
  /\ out' \in SUBSET Owed
  /\ out \subseteq out'
  /\ out' # out
  /\ \A p \in out' \ out :
       \A X \in (SUBSET p.items) \ {{}, p.items} : X \in Reported
  /\ UNCHANGED <<inputs, done>>

Finish ==
  /\ ~ done
  /\ out = Owed
  /\ done' = TRUE
  /\ UNCHANGED <<inputs, out>>

Next == Report \/ Finish

Spec == Init /\ [][Next]_vars
=============================================================================
