-------------------------------- MODULE Trie --------------------------------
(***************************************************************************)
(* The trie of bitdrill/Trie.hxx as a value.  A node is named by the       *)
(* string that leads to it; kids gives the arc symbols of each node in the *)
(* order of its slist, which is the order every walk takes them in, and    *)
(* ends holds the nodes with an endmark, the strings of the trie.          *)
(***************************************************************************)
EXTENDS Naturals, SequencesExt

EmptyTrie == [kids |-> [p \in {<<>>} |-> <<>>], ends |-> {}]

Nodes(t) == DOMAIN t.kids

\* Trie::empty looks at the subtries of the root, not at its endmark.
IsEmptyTrie(t) == t.kids[<<>>] = <<>>

\* Mutant of Insert: spares the "redundant node at the leaf".
InsertNoLeaf(t, s) ==
  LET path == Prefixes(s) \ {s}
      Old(p) == IF p \in Nodes(t) THEN t.kids[p] ELSE <<>>
  IN [kids |-> [p \in Nodes(t) \cup path |->
                  IF p \in path /\ SubSeq(s, 1, Len(p) + 1) \notin Nodes(t)
                  THEN <<s[Len(p) + 1]>> \o Old(p) ELSE Old(p)],
      ends |-> t.ends \cup {s}]

(***************************************************************************)
(* Trie::insert and insert_newbranch: follow s as far as the trie has it,  *)
(* then grow one branch.  The new arc comes first in the list of the node  *)
(* where s leaves the trie.                                                *)
(***************************************************************************)
Insert(t, s) ==
  LET path == Prefixes(s)
      Old(p) == IF p \in Nodes(t) THEN t.kids[p] ELSE <<>>
      Leaves(p) == /\ p \in path \ {s}
                   /\ SubSeq(s, 1, Len(p) + 1) \notin Nodes(t)
  IN [kids |-> [p \in Nodes(t) \cup path |->
                  IF Leaves(p) THEN <<s[Len(p) + 1]>> \o Old(p) ELSE Old(p)],
      ends |-> t.ends \cup {s}]

\* Trie::query
Query(t, s) == s \in t.ends

\* Trie::check_supports: every string with one symbol less is in the trie.
CheckSupports(t, s) == \A i \in DOMAIN s : Query(t, RemoveAt(s, i))
=============================================================================
