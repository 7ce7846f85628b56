----------------------------- MODULE StableTree -----------------------------
(***************************************************************************)
(* The two-level stable tree of dirtPages.c and its rebuild when           *)
(* hash_strength changes: stable_tree_delta_hash, stable_node_reinsert,    *)
(* remove_node_from_stable_tree and the allocators.  Nodes are keyed by    *)
(* the hash of their page at hash_strength, and under one tree_node by     *)
(* their full hash, computed only when there are two.                      *)
(*                                                                         *)
(* One iteration of the rebuild loop is one step; a page can be freed      *)
(* between any two.  The loop's own page is referenced while it is worked  *)
(* on, and what get_uksm_page races with inside an iteration is a page     *)
(* freed before it.  The red-black trees are sets: sub_root is the set of  *)
(* nodes under a tree_node, and a tree_node is known by its tree and hash. *)
(*                                                                         *)
(* The scanner inserts nodes, shares them and drops stale ones between     *)
(* rebuilds; it is not in the repository.                                  *)
(***************************************************************************)
EXTENDS Integers, Sequences, FiniteSets, Functions

CONSTANTS
  Nodes,          \* memory for stable nodes
  Contents,       \* contents of pages
  Strengths,      \* values of hash_strength
  FullStrength,   \* HASH_STRENGTH_MAX
  Hash,           \* Hash[c][s]: the hash of content c at strength s
  MAX_RMAPS       \* bound: mappings of all pages together

ASSUME HashAssumption ==
  /\ FullStrength \in Strengths
  /\ Hash \in [Contents -> [Strengths -> Nat]]
  /\ MAX_RMAPS \in Nat

VARIABLES
  hash_strength,
  stable_tree_index,     \* the tree being built, or in use
  root_stable_treep,     \* the tree in use
  prev_hash_strength,    \* strength of the tree in use during a rebuild
  todo,                  \* the nodes the rebuild has still to visit
  db                     \* nodes, trees and counters

treeVars == <<hash_strength, stable_tree_index, root_stable_treep,
              prev_hash_strength, todo, db>>

NoHash == 0          \* hash_max not computed
Null == <<>>         \* no tree_node
Wrong == -1          \* what delta_hash makes of another strength's hash

Rebuilding == stable_tree_index # root_stable_treep
Listed == Range(db.list)

(* f with x mapped to v, and the list s after list_del of n. *)
With(f, x, v) == [y \in DOMAIN f \cup {x} |-> IF y = x THEN v ELSE f[y]]
Without(s, n) ==
  LET i == CHOOSE j \in DOMAIN s : s[j] = n
  IN SubSeq(s, 1, i - 1) \o SubSeq(s, i + 1, Len(s))

(* db.list is a sequence of nodes; db.node gives each of them               *)
(*   page: its content, write-protected; mapped: does page->mapping point   *)
(*   back to the node; hash_max; tree_node: its tree and hash, or Null;     *)
(*   rmaps: how many rmap_items are under hlist;                            *)
(* db.tree gives each hash in use, in each of the two trees, the nodes sub  *)
(* and their count.                                                         *)
NoTree == [h \in {} |-> 0]

(* The nodes that are mapped, and the rmap_items under their hlists. *)
Shared(d) == {n \in DOMAIN d.node : d.node[n].rmaps > 0}
Mappings(d) == UNION {{n} \X (1 .. d.node[n].rmaps) : n \in DOMAIN d.node}

StableTreeInit ==
  /\ hash_strength \in Strengths /\ prev_hash_strength = hash_strength
  /\ stable_tree_index = 0 /\ root_stable_treep = 0
  /\ todo = <<>>
  /\ db = [list |-> <<>>, node |-> [n \in {} |-> 0], tree |-> [i \in {0, 1} |-> NoTree],
           uksm_pages_shared |-> 0, uksm_pages_sharing |-> 0]

-----------------------------------------------------------------------------
(* delta_hash from strength s to t, of a page with content c; page_hash_max *)
(* keeps 0 for "not computed".                                              *)
DeltaHash(c, s, t, h) == IF h = Hash[c][s] THEN Hash[c][t] ELSE Wrong
PageHashMax(c, h) ==
  LET full == DeltaHash(c, hash_strength, FullStrength, h)
  IN IF full = 0 THEN 1 ELSE full

(* stable_node_hash_max *)
WithHashMax(d, n, h) ==
  IF d.node[n].hash_max # NoHash THEN d
  ELSE [d EXCEPT !.node[n].hash_max = PageHashMax(d.node[n].page, h)]

(* Take n out of the tree it is in.  Mutant: the count is not lowered. *)
UnlinkUncounted(d, n, remove_tree_node) ==
  LET i == d.node[n].tree_node[1]
      h == d.node[n].tree_node[2]
  IN IF d.tree[i][h].sub = {n} /\ remove_tree_node
       THEN [d EXCEPT !.tree[i] = Restrict(@, DOMAIN @ \ {h})]
       ELSE [d EXCEPT !.tree[i][h].sub = @ \ {n}]
Unlink(d, n, remove_tree_node) ==
  LET i == d.node[n].tree_node[1]
      h == d.node[n].tree_node[2]
  IN IF d.tree[i][h].sub = {n} /\ remove_tree_node
       THEN [d EXCEPT !.tree[i] = Restrict(@, DOMAIN @ \ {h})]
       ELSE [d EXCEPT !.tree[i][h].sub = @ \ {n}, !.tree[i][h].count = @ - 1]

(* The mappings of a removed node: the last one was the shared page itself. *)
(* Mutant: it is not given back.                                            *)
UnshareAllOfThem(d, n) ==
  IF d.node[n].rmaps = 0 THEN d
  ELSE [d EXCEPT !.uksm_pages_sharing = @ - d.node[n].rmaps,
                 !.uksm_pages_shared = @ - 1]
Unshare(d, n) ==
  IF d.node[n].rmaps = 0 THEN d
  ELSE [d EXCEPT !.uksm_pages_sharing = (@ - d.node[n].rmaps) + 1,
                 !.uksm_pages_shared = @ - 1]

(* remove_node_from_stable_tree *)
Remove(d, n, unlink_rb, remove_tree_node) ==
  LET u == IF d.node[n].tree_node # Null /\ unlink_rb
             THEN Unlink(Unshare(d, n), n, remove_tree_node) ELSE Unshare(d, n)
  IN [u EXCEPT !.node = Restrict(@, DOMAIN @ \ {n}),
               !.list = Without(@, n)]

Stale(d, n) == ~d.node[n].mapped

Link(d, n, i, h) ==
  [d EXCEPT !.tree[i][h].sub = @ \cup {n}, !.tree[i][h].count = @ + 1,
            !.node[n].tree_node = <<i, h>>]
(* Two-level collision, or no memory; mutant: the old pointer stays. *)
UnlinkedInName(d, n) == d
Unlinked(d, n) == [d EXCEPT !.node[n].tree_node = Null]
(* alloc_tree_node *)
NewTreeNode(d, i, h) ==
  [d EXCEPT !.tree[i] = With(@, h, [sub |-> {}, count |-> 0])]

(* stable_node_reinsert, of node n into tree i under hash h, ends in t:     *)
(* beside m, the only node there, which may turn out stale.  Mutants: m     *)
(* gets no full hash; a stale m is removed but its place not taken.         *)
BesideOneLazily(d, n, m, i, h, t) ==
  LET e == WithHashMax(d, n, h)
  IN \/ Stale(d, m) /\ t = Link(Remove(e, m, TRUE, FALSE), n, i, h)
     \/ /\ ~Stale(d, m)
        /\ t = IF e.node[n].hash_max = e.node[m].hash_max
                 THEN Unlinked(e, n) ELSE Link(e, n, i, h)
BesideOneGivesUp(d, n, m, i, h, t) ==
  LET e == WithHashMax(d, n, h)
      f == WithHashMax(e, m, h)
  IN \/ Stale(d, m) /\ t = Unlinked(Remove(e, m, TRUE, FALSE), n)
     \/ /\ ~Stale(d, m)
        /\ t = IF f.node[n].hash_max = f.node[m].hash_max
                 THEN Unlinked(f, n) ELSE Link(f, n, i, h)
BesideOne(d, n, m, i, h, t) ==
  LET e == WithHashMax(d, n, h)
      f == WithHashMax(e, m, h)
  IN \/ Stale(d, m) /\ t = Link(Remove(e, m, TRUE, FALSE), n, i, h)
     \/ /\ ~Stale(d, m)
        /\ t = IF f.node[n].hash_max = f.node[m].hash_max
                 THEN Unlinked(f, n) ELSE Link(f, n, i, h)

(* ... or among several, which all have a full hash. *)
AmongSeveral(d, n, i, h, t) ==
  LET e == WithHashMax(d, n, h)
  IN t = IF \E m \in d.tree[i][h].sub : e.node[m].hash_max = e.node[n].hash_max
           THEN Unlinked(e, n) ELSE Link(e, n, i, h)

(* ... or in a tree_node of its own, if there is memory. *)
InOwnTreeNode(d, n, i, h, t) ==
  t \in {Link(NewTreeNode(d, i, h), n, i, h), Unlinked(d, n)}

Reinsert(d, n, i, h, t) ==
  \/ h \notin DOMAIN d.tree[i] /\ InOwnTreeNode(d, n, i, h, t)
  \/ /\ h \in DOMAIN d.tree[i] /\ d.tree[i][h].count = 1
     /\ \E m \in d.tree[i][h].sub : BesideOne(d, n, m, i, h, t)
  \/ h \in DOMAIN d.tree[i] /\ d.tree[i][h].count # 1 /\ AmongSeveral(d, n, i, h, t)

-----------------------------------------------------------------------------
(* stable_tree_delta_hash. *)

(* rshash_adjust has changed the strength; the inactive tree is emptied. *)
BeginRebuild(s) ==
  /\ ~Rebuilding /\ s # hash_strength
  /\ prev_hash_strength' = hash_strength /\ hash_strength' = s
  /\ stable_tree_index' = 1 - stable_tree_index
  /\ db' = [db EXCEPT !.tree[1 - stable_tree_index] = NoTree]
  /\ todo' = db.list
  /\ UNCHANGED root_stable_treep

(* The hash of a node at the new strength. *)
Rehash(n) ==
  LET r == db.node[n]
  IN IF r.tree_node = Null THEN Hash[r.page][hash_strength]
     ELSE DeltaHash(r.page, prev_hash_strength, hash_strength, r.tree_node[2])

(* Mutant: the loop does not save its next node before one is freed. *)
RebuildNodeUnsafely ==
  /\ Rebuilding /\ todo # <<>>
  /\ LET n == Head(todo)
     IN \/ Stale(db, n) /\ db' = Remove(db, n, FALSE, FALSE) /\ todo' = todo
        \/ /\ ~Stale(db, n) /\ Reinsert(db, n, stable_tree_index, Rehash(n), db')
           /\ todo' = Tail(todo)
  /\ UNCHANGED <<hash_strength, stable_tree_index, root_stable_treep, prev_hash_strength>>

RebuildNode ==
  /\ Rebuilding /\ todo # <<>>
  /\ LET n == Head(todo)
     IN \/ Stale(db, n) /\ db' = Remove(db, n, FALSE, FALSE)
        \/ ~Stale(db, n) /\ Reinsert(db, n, stable_tree_index, Rehash(n), db')
  /\ todo' = Tail(todo)
  /\ UNCHANGED <<hash_strength, stable_tree_index, root_stable_treep, prev_hash_strength>>

(* The new tree takes over and the tree_nodes of the old one are freed. *)
EndRebuild ==
  /\ Rebuilding /\ todo = <<>>
  /\ root_stable_treep' = stable_tree_index
  /\ db' = [db EXCEPT !.tree[root_stable_treep] = NoTree]
  /\ prev_hash_strength' = hash_strength
  /\ UNCHANGED <<hash_strength, stable_tree_index, todo>>

-----------------------------------------------------------------------------
(* The rest of the system. *)

StrengthsAndRoots ==
  <<hash_strength, stable_tree_index, root_stable_treep, prev_hash_strength, todo>>

(* A page is merged: alloc_stable_node, and the tree as in a rebuild; a     *)
(* node that finds no place is given up.  The allocator initialises nothing *)
(* but hlist: whoever merges, outside this file, has to set tree_node, and  *)
(* hash_max to 0 or to the rmap_item's, before a rebuild reads them.        *)
InsertNode(n, c) ==
  /\ ~Rebuilding /\ n \notin Listed
  /\ \E max \in {NoHash, PageHashMax(c, Hash[c][hash_strength])} :
       LET d == [db EXCEPT
                   !.list = <<n>> \o @,
                   !.node = With(@, n, [page |-> c, mapped |-> TRUE, hash_max |-> max,
                                        tree_node |-> Null, rmaps |-> 0])]
       IN Reinsert(d, n, stable_tree_index, Hash[c][hash_strength], db')
  /\ db'.node[n].tree_node # Null
  /\ UNCHANGED StrengthsAndRoots

(* One more mapping shares the page. *)
ShareNode(n) ==
  /\ ~Rebuilding /\ Cardinality(Mappings(db)) < MAX_RMAPS
  /\ db' = [db EXCEPT
              !.node[n].rmaps = @ + 1,
              !.uksm_pages_shared = IF db.node[n].rmaps = 0 THEN @ + 1 ELSE @,
              !.uksm_pages_sharing = IF db.node[n].rmaps = 0 THEN @ ELSE @ + 1]
  /\ UNCHANGED StrengthsAndRoots

(* The kernel frees the page, at any time. *)
FreePage(n) ==
  /\ db.node[n].mapped
  /\ db' = [db EXCEPT !.node[n].mapped = FALSE]
  /\ UNCHANGED StrengthsAndRoots

(* The scanner meets a stale node: get_uksm_page(n, 1, 1). *)
DropStale(n) ==
  /\ ~Rebuilding /\ Stale(db, n)
  /\ db' = Remove(db, n, TRUE, TRUE)
  /\ UNCHANGED StrengthsAndRoots

StableTreeNext ==
  \/ \E s \in Strengths : BeginRebuild(s)
  \/ RebuildNode
  \/ EndRebuild
  \/ \E n \in Nodes, c \in Contents : InsertNode(n, c)
  \/ \E n \in Listed : ShareNode(n)
  \/ \E n \in Listed : FreePage(n)
  \/ \E n \in Listed : DropStale(n)

StableTreeSpec == StableTreeInit /\ [][StableTreeNext]_treeVars

-----------------------------------------------------------------------------
(* Properties. *)

Current == db.tree[stable_tree_index]

(* The count that stable_node_reinsert branches on is the number of nodes   *)
(* in the collision tree, and is never zero between two steps: the          *)
(* BUG_ON(!*new) before the search of the collision tree cannot fire, and   *)
(* a tree_node whose only node turned out stale is used again at once.      *)
CountsMatch ==
  \A h \in DOMAIN Current :
    Current[h].count = Cardinality(Current[h].sub) /\ Current[h].count > 0

(* A full hash, once computed, is the page's for good, whichever strength   *)
(* it was extended from; and nodes that share a hash are told apart by it:  *)
(* each has one, no two the same, so the search of a collision tree never   *)
(* compares with a hash_max that was not computed.                          *)
FullHash(n) ==
  LET full == Hash[db.node[n].page][FullStrength] IN IF full = 0 THEN 1 ELSE full
SubtreesKeyed ==
  /\ \A n \in Listed : db.node[n].hash_max \in {NoHash, FullHash(n)}
  /\ \A h \in DOMAIN Current : Current[h].count > 1 =>
       \A m, n \in Current[h].sub :
         /\ db.node[m].hash_max # NoHash
         /\ db.node[m].hash_max = db.node[n].hash_max => m = n

(* A node points to the tree_node that holds it, under the hash its page    *)
(* has at the strength of that tree: delta_hash starts from the right hash  *)
(* and no tree_node of an earlier tree, freed by now, is ever read.  In a   *)
(* rebuild the nodes already visited are in the new tree or in none.        *)
LinkedUnderTheirHash ==
  /\ \A n \in Listed : LET t == db.node[n].tree_node IN t # Null =>
       /\ t[2] \in DOMAIN db.tree[t[1]]
       /\ n \in db.tree[t[1]][t[2]].sub
       /\ t[2] = Hash[db.node[n].page][IF t[1] = root_stable_treep
                                         THEN prev_hash_strength ELSE hash_strength]
       /\ t[1] = stable_tree_index \/ n \in Range(todo)
  /\ \A h \in DOMAIN Current : \A n \in Current[h].sub :
       n \in Listed /\ db.node[n].tree_node = <<stable_tree_index, h>>

(* The published counters: a shared page for each node that is mapped, and  *)
(* a sharing one for each further mapping.                                  *)
PagesCounted ==
  /\ db.uksm_pages_shared = Cardinality(Shared(db))
  /\ db.uksm_pages_shared + db.uksm_pages_sharing = Cardinality(Mappings(db))

(* The nodes a rebuild has still to visit are allocated: removing stale     *)
(* nodes on the way never frees the one the loop saved as its next.         *)
CursorIsAllocated == Range(todo) \subseteq Listed

(* A rebuild leaves a live node out of the tree only when there was no      *)
(* memory for a tree_node, or when another node has both its hashes.        *)
OnlyHiddenNodesUnlinked ==
  [][\A n \in Listed :
       (todo # <<>> /\ n = Head(todo) /\ ~Stale(db, n) /\ RebuildNode) =>
         \/ db'.node[n].tree_node # Null
         \/ Hash[db.node[n].page][hash_strength] \notin DOMAIN Current
         \/ \E m \in Range(db'.list) \ {n} :
              /\ Hash[db'.node[m].page][hash_strength] = Hash[db'.node[n].page][hash_strength]
              /\ db'.node[m].hash_max = db'.node[n].hash_max
              /\ db'.node[m].hash_max # NoHash
    ]_treeVars
=============================================================================
