--------------------------- MODULE StableTreeProofs ---------------------------
(***************************************************************************)
(* Proofs about StableTree, for any number of nodes, any contents, any     *)
(* strengths and any hash: the collision trees are counted and keyed as    *)
(* the code relies on, every node is under the hash of its page, and a     *)
(* rebuild never visits a node that was freed.                             *)
(*                                                                         *)
(* First what each helper does to the parts of db, then the invariant,     *)
(* then one lemma per operation.                                           *)
(***************************************************************************)
EXTENDS StableTree, SequenceTheorems, FiniteSetTheorems, TLAPS

Places == {Null} \cup ({0, 1} \X Int)
NodeRec == [page : Contents, mapped : BOOLEAN, hash_max : Int, tree_node : Places, rmaps : Nat]
TreeNode == [sub : SUBSET Nodes, count : Int]
NodeMaps == UNION {[S -> NodeRec] : S \in SUBSET Nodes}
Trees == UNION {[H -> TreeNode] : H \in SUBSET Int}
Dbs == [list : Seq(Nodes), node : NodeMaps, tree : [{0, 1} -> Trees],
        uksm_pages_shared : Int, uksm_pages_sharing : Int]

Distinct(s) == \A i, j \in 1 .. Len(s) : s[i] = s[j] => i = j

-----------------------------------------------------------------------------
(* Maps of nodes, trees, and lists without repetition. *)

LEMMA PlaceIsNotNull == ASSUME NEW i, NEW h PROVE <<i, h>> # Null
BY DEF Null

LEMMA NodeMapFacts ==
  ASSUME NEW m \in NodeMaps PROVE m \in [DOMAIN m -> NodeRec] /\ DOMAIN m \subseteq Nodes
BY DEF NodeMaps

LEMMA NodeMapIs ==
  ASSUME NEW S \in SUBSET Nodes, NEW m \in [S -> NodeRec] PROVE m \in NodeMaps
BY DEF NodeMaps

LEMMA NodeMapExcept ==
  ASSUME NEW m \in NodeMaps, NEW n \in DOMAIN m, NEW r \in NodeRec
  PROVE  LET x == [m EXCEPT ![n] = r]
         IN  x \in NodeMaps /\ DOMAIN x = DOMAIN m /\ x[n] = r
             /\ \A k \in DOMAIN m : k # n => x[k] = m[k]
BY NodeMapFacts, NodeMapIs

LEMMA NodeMapWith ==
  ASSUME NEW m \in NodeMaps, NEW n \in Nodes, NEW r \in NodeRec
  PROVE  /\ With(m, n, r) \in NodeMaps /\ DOMAIN With(m, n, r) = DOMAIN m \cup {n}
         /\ With(m, n, r)[n] = r
         /\ \A k \in DOMAIN m : k # n => With(m, n, r)[k] = m[k]
BY NodeMapFacts, NodeMapIs DEF With

LEMMA NodeMapRestrict ==
  ASSUME NEW m \in NodeMaps, NEW n
  PROVE  LET x == Restrict(m, DOMAIN m \ {n})
         IN  x \in NodeMaps /\ DOMAIN x = DOMAIN m \ {n} /\ \A k \in DOMAIN m \ {n} : x[k] = m[k]
BY NodeMapFacts, NodeMapIs DEF Restrict

LEMMA TreeFacts ==
  ASSUME NEW m \in Trees PROVE m \in [DOMAIN m -> TreeNode] /\ DOMAIN m \subseteq Int
BY DEF Trees

LEMMA TreeIs == ASSUME NEW H \in SUBSET Int, NEW m \in [H -> TreeNode] PROVE m \in Trees
BY DEF Trees

LEMMA TreeExcept ==
  ASSUME NEW m \in Trees, NEW h \in DOMAIN m, NEW r \in TreeNode
  PROVE  LET x == [m EXCEPT ![h] = r]
         IN  x \in Trees /\ DOMAIN x = DOMAIN m /\ x[h] = r
             /\ \A k \in DOMAIN m : k # h => x[k] = m[k]
BY TreeFacts, TreeIs

LEMMA TreeRestrict ==
  ASSUME NEW m \in Trees, NEW h
  PROVE  LET x == Restrict(m, DOMAIN m \ {h})
         IN  x \in Trees /\ DOMAIN x = DOMAIN m \ {h} /\ \A k \in DOMAIN m \ {h} : x[k] = m[k]
BY TreeFacts, TreeIs DEF Restrict

LEMMA NoTreeIs == NoTree \in Trees /\ DOMAIN NoTree = {}
<1>1. NoTree \in [{} -> TreeNode] /\ DOMAIN NoTree = {}
  BY DEF NoTree
<1> QED BY <1>1 DEF Trees

LEMMA TreesExcept ==
  ASSUME NEW T \in [{0, 1} -> Trees], NEW i \in {0, 1}, NEW t \in Trees
  PROVE  LET x == [T EXCEPT ![i] = t]
         IN  x \in [{0, 1} -> Trees] /\ x[i] = t /\ \A j \in {0, 1} : j # i => x[j] = T[j]
OBVIOUS

LEMMA RangeFacts ==
  ASSUME NEW s \in Seq(Nodes)
  PROVE  /\ Range(s) \subseteq Nodes
         /\ \A i \in 1 .. Len(s) : s[i] \in Range(s)
         /\ \A n \in Range(s) : \E i \in 1 .. Len(s) : s[i] = n
BY RangeEquality, RangeOfSeq

LEMMA TailFacts ==
  ASSUME NEW s \in Seq(Nodes), s # <<>>, Distinct(s)
  PROVE  /\ Head(s) \in Range(s) /\ Tail(s) \in Seq(Nodes) /\ Distinct(Tail(s))
         /\ Range(Tail(s)) = Range(s) \ {Head(s)}
<1>1. /\ Tail(s) \in Seq(Nodes) /\ Len(Tail(s)) = Len(s) - 1 /\ Len(s) \in Nat \ {0}
      /\ \A i \in 1 .. Len(Tail(s)) : Tail(s)[i] = s[i + 1]
  BY HeadTailProperties, EmptySeq
<1>2. Head(s) = s[1] /\ 1 \in 1 .. Len(s)
  BY <1>1
<1>3. Distinct(Tail(s))
  <2> SUFFICES ASSUME NEW i \in 1 .. Len(Tail(s)), NEW j \in 1 .. Len(Tail(s)), Tail(s)[i] = Tail(s)[j]
      PROVE  i = j
    BY DEF Distinct
  <2>1. i + 1 \in 1 .. Len(s) /\ j + 1 \in 1 .. Len(s) /\ s[i + 1] = s[j + 1]
    BY <1>1
  <2> QED BY <2>1 DEF Distinct
<1>4. Range(Tail(s)) \subseteq Range(s) \ {Head(s)}
  <2> SUFFICES ASSUME NEW n \in Range(Tail(s)) PROVE n \in Range(s) /\ n # Head(s)
    OBVIOUS
  <2>1. PICK i \in 1 .. Len(Tail(s)) : Tail(s)[i] = n
    BY <1>1, RangeFacts
  <2>2. i + 1 \in 1 .. Len(s) /\ s[i + 1] = n /\ i + 1 # 1
    BY <1>1, <2>1
  <2> QED BY <1>2, <2>2, RangeFacts DEF Distinct
<1>5. Range(s) \ {Head(s)} \subseteq Range(Tail(s))
  <2> SUFFICES ASSUME NEW n \in Range(s), n # Head(s) PROVE n \in Range(Tail(s))
    OBVIOUS
  <2>1. PICK i \in 1 .. Len(s) : s[i] = n
    BY RangeFacts
  <2>2. i - 1 \in 1 .. Len(Tail(s)) /\ (i - 1) + 1 = i
    BY <1>1, <1>2, <2>1
  <2>3. Tail(s)[i - 1] = n
    BY <1>1, <2>1, <2>2
  <2> QED BY <1>1, <2>2, <2>3, RangeFacts
<1> QED BY <1>1, <1>2, <1>3, <1>4, <1>5, RangeFacts

(* list_del takes out the one place of the node, and nothing else. *)
LEMMA WithoutFacts ==
  ASSUME NEW s \in Seq(Nodes), Distinct(s), NEW n \in Range(s)
  PROVE  /\ Without(s, n) \in Seq(Nodes) /\ Distinct(Without(s, n))
         /\ Range(Without(s, n)) = Range(s) \ {n}
<1> DEFINE i == CHOOSE j \in DOMAIN s : s[j] = n
           a == SubSeq(s, 1, i - 1)
           b == SubSeq(s, i + 1, Len(s))
           t == Without(s, n)
<1>1. Len(s) \in Nat /\ DOMAIN s = 1 .. Len(s) /\ \A j \in 1 .. Len(s) : s[j] \in Nodes
  BY LenProperties, ElementOfSeq
<1>2. i \in 1 .. Len(s) /\ s[i] = n
  <2>1. \E j \in DOMAIN s : s[j] = n
    BY <1>1, RangeFacts
  <2> QED BY <1>1, <2>1
<1>3. t = a \o b
  BY DEF Without
<1> HIDE DEF i, t
<1>4. a \in Seq(Nodes) /\ Len(a) = i - 1 /\ \A j \in 1 .. i - 1 : a[j] = s[j]
  <2>1. \A j \in 1 .. i - 1 : s[j] \in Nodes
    BY <1>1, <1>2
  <2>2. a \in Seq(Nodes) /\ Len(a) = (IF 1 <= i - 1 THEN (i - 1) - 1 + 1 ELSE 0)
        /\ \A j \in 1 .. (i - 1) - 1 + 1 : a[j] = s[1 + j - 1]
    BY <1>1, <1>2, <2>1, SubSeqProperties
  <2> QED BY <1>1, <1>2, <2>2
<1>5. b \in Seq(Nodes) /\ Len(b) = Len(s) - i /\ \A j \in 1 .. Len(s) - i : b[j] = s[i + j]
  <2>1. \A j \in i + 1 .. Len(s) : s[j] \in Nodes
    BY <1>1, <1>2
  <2>2. b \in Seq(Nodes) /\ Len(b) = (IF i + 1 <= Len(s) THEN Len(s) - (i + 1) + 1 ELSE 0)
        /\ \A j \in 1 .. Len(s) - (i + 1) + 1 : b[j] = s[(i + 1) + j - 1]
    BY <1>1, <1>2, <2>1, SubSeqProperties
  <2> HIDE DEF b
  <2>0. i \in Int /\ Len(s) \in Int /\ i <= Len(s)
    BY <1>1, <1>2
  <2>3. Len(s) - (i + 1) + 1 = Len(s) - i
    BY <2>0
  <2>5. Len(b) = Len(s) - i
    <3>1. Len(b) = IF i + 1 <= Len(s) THEN Len(s) - (i + 1) + 1 ELSE 0
      BY <2>2
    <3> QED BY <2>0, <3>1
  <2>4. \A j \in 1 .. Len(s) - i : (i + 1) + j - 1 = i + j
    BY <1>1, <1>2
  <2> QED BY <2>2, <2>3, <2>4, <2>5
<1> HIDE DEF a, b
<1>6. t \in Seq(Nodes) /\ Len(t) = Len(s) - 1
      /\ \A j \in 1 .. Len(s) - 1 : t[j] = IF j < i THEN s[j] ELSE s[j + 1]
  <2>1. t \in Seq(Nodes) /\ Len(t) = Len(a) + Len(b)
        /\ \A j \in 1 .. Len(a) + Len(b) : t[j] = IF j <= Len(a) THEN a[j] ELSE b[j - Len(a)]
    BY <1>3, <1>4, <1>5, ConcatProperties
  <2>2. ASSUME NEW j \in 1 .. Len(s) - 1 PROVE t[j] = IF j < i THEN s[j] ELSE s[j + 1]
    <3>0. j \in Int /\ i \in Int /\ j \in 1 .. Len(a) + Len(b) /\ Len(a) = i - 1
      BY <1>1, <1>2, <1>4, <1>5
    <3>1. CASE j < i
      <4>1. j <= Len(a) /\ j \in 1 .. i - 1
        BY <3>0, <3>1
      <4>2. t[j] = a[j] /\ a[j] = s[j]
        BY <1>4, <2>1, <3>0, <4>1
      <4> QED BY <3>1, <4>2
    <3>2. CASE ~(j < i)
      <4>1. j - Len(a) \in 1 .. Len(s) - i /\ i + (j - Len(a)) = j + 1 /\ ~(j <= Len(a))
        BY <1>1, <1>2, <3>0, <3>2
      <4>2. t[j] = b[j - Len(a)] /\ b[j - Len(a)] = s[j + 1]
        BY <1>5, <2>1, <3>0, <4>1
      <4> QED BY <3>2, <4>2
    <3> QED BY <1>1, <1>2, <3>1, <3>2
  <2> QED BY <1>1, <1>2, <1>4, <1>5, <2>1, <2>2
<1> DEFINE f(j) == IF j < i THEN j ELSE j + 1
<1>7. \A j \in 1 .. Len(t) : f(j) \in 1 .. Len(s) /\ f(j) # i /\ t[j] = s[f(j)]
  <2> SUFFICES ASSUME NEW j \in 1 .. Len(t)
               PROVE  f(j) \in 1 .. Len(s) /\ f(j) # i /\ t[j] = s[f(j)]
    OBVIOUS
  <2>1. j \in Int /\ i \in Int /\ Len(s) \in Int /\ 1 <= j /\ j <= Len(s) - 1 /\ 1 <= i /\ i <= Len(s)
    BY <1>1, <1>2, <1>6
  <2>2. f(j) \in 1 .. Len(s) /\ f(j) # i
    BY <2>1
  <2>3. t[j] = IF j < i THEN s[j] ELSE s[j + 1]
    BY <1>6, <2>1
  <2> QED BY <2>2, <2>3
<1>8. Distinct(t)
  <2> SUFFICES ASSUME NEW j \in 1 .. Len(t), NEW k \in 1 .. Len(t), t[j] = t[k] PROVE j = k
    BY DEF Distinct
  <2>1. f(j) = f(k)
    BY <1>7 DEF Distinct
  <2> QED BY <1>1, <1>2, <1>6, <2>1
<1>9. Range(t) \subseteq Range(s) \ {n}
  <2> SUFFICES ASSUME NEW j \in 1 .. Len(t) PROVE t[j] \in Range(s) /\ t[j] # n
    BY <1>6, RangeFacts
  <2> QED BY <1>2, <1>7, RangeFacts DEF Distinct
<1>10. Range(s) \ {n} \subseteq Range(t)
  <2> SUFFICES ASSUME NEW k \in 1 .. Len(s), s[k] # n PROVE s[k] \in Range(t)
    BY RangeFacts
  <2> DEFINE j == IF k < i THEN k ELSE k - 1
  <2>1. j \in 1 .. Len(t) /\ f(j) = k
    BY <1>1, <1>2, <1>6
  <2> QED BY <1>6, <1>7, <2>1, RangeFacts, ZenonT(60)
<1> QED BY <1>6, <1>8, <1>9, <1>10 DEF t

-----------------------------------------------------------------------------
(* The parts of a db, and what is left of them by each update. *)

LEMMA DbFacts ==
  ASSUME NEW d \in Dbs
  PROVE  /\ d.list \in Seq(Nodes) /\ d.node \in NodeMaps /\ d.tree \in [{0, 1} -> Trees]
         /\ d.uksm_pages_shared \in Int /\ d.uksm_pages_sharing \in Int
BY DEF Dbs

LEMMA DbTreeIs ==
  ASSUME NEW d \in Dbs, NEW T \in [{0, 1} -> Trees]
  PROVE  LET x == [d EXCEPT !.tree = T]
         IN  x \in Dbs /\ x.tree = T /\ x.node = d.node /\ x.list = d.list
BY DEF Dbs

LEMMA DbNodeIs ==
  ASSUME NEW d \in Dbs, NEW m \in NodeMaps
  PROVE  LET x == [d EXCEPT !.node = m]
         IN  x \in Dbs /\ x.tree = d.tree /\ x.node = m /\ x.list = d.list
BY DEF Dbs

LEMMA NodeRecFacts ==
  ASSUME NEW r \in NodeRec
  PROVE  /\ r.page \in Contents /\ r.mapped \in BOOLEAN /\ r.hash_max \in Int
         /\ r.tree_node \in Places /\ r.rmaps \in Nat
         /\ \A p \in Places :
              LET x == [r EXCEPT !.tree_node = p]
              IN  x \in NodeRec /\ x.tree_node = p /\ x.page = r.page /\ x.hash_max = r.hash_max
         /\ \A v \in Int :
              LET x == [r EXCEPT !.hash_max = v]
              IN  x \in NodeRec /\ x.hash_max = v /\ x.page = r.page /\ x.tree_node = r.tree_node
BY DEF NodeRec

LEMMA TreeNodeFacts ==
  ASSUME NEW r \in TreeNode PROVE r.sub \in SUBSET Nodes /\ r.count \in Int
BY DEF TreeNode

(* What two dbs have in common: every node but n, every tree_node but h of  *)
(* tree i.                                                                  *)
NodesBut(d, t, n) ==
  DOMAIN t.node = DOMAIN d.node /\ \A k \in DOMAIN d.node : k # n => t.node[k] = d.node[k]
TreeBut(d, t, i, h) ==
  /\ \A k \in DOMAIN d.tree[i] : k # h => k \in DOMAIN t.tree[i] /\ t.tree[i][k] = d.tree[i][k]
  /\ \A k \in DOMAIN t.tree[i] : k # h => k \in DOMAIN d.tree[i]
  /\ \A j \in {0, 1} : j # i => t.tree[j] = d.tree[j]

LEMMA LinkEffect ==
  ASSUME NEW d \in Dbs, NEW n \in DOMAIN d.node, NEW i \in {0, 1}, NEW h \in DOMAIN d.tree[i]
  PROVE  LET t == Link(d, n, i, h)
         IN  /\ t \in Dbs /\ t.list = d.list /\ NodesBut(d, t, n)
             /\ t.node[n].page = d.node[n].page /\ t.node[n].hash_max = d.node[n].hash_max
             /\ t.node[n].tree_node = <<i, h>>
             /\ TreeBut(d, t, i, h) /\ h \in DOMAIN t.tree[i]
             /\ t.tree[i][h].sub = d.tree[i][h].sub \cup {n}
             /\ t.tree[i][h].count = d.tree[i][h].count + 1
<1> DEFINE r == [d.node[n] EXCEPT !.tree_node = <<i, h>>]
           q == [d.tree[i][h] EXCEPT !.sub = d.tree[i][h].sub \cup {n},
                                     !.count = d.tree[i][h].count + 1]
           m == [d.node EXCEPT ![n] = r]
           u == [d.tree[i] EXCEPT ![h] = q]
           T == [d.tree EXCEPT ![i] = u]
           t == [d EXCEPT !.tree = T, !.node = m]
<1>1. d.node \in NodeMaps /\ d.tree \in [{0, 1} -> Trees] /\ d.tree[i] \in Trees
  BY DbFacts
<1>2. d.node[n] \in NodeRec /\ n \in Nodes /\ d.tree[i][h] \in TreeNode /\ h \in Int
  BY <1>1, NodeMapFacts, TreeFacts
<1>3. Link(d, n, i, h) = t
  BY <1>1, <1>2, ZenonT(60) DEF Link, Dbs
<1>4. r \in NodeRec /\ r.page = d.node[n].page /\ r.hash_max = d.node[n].hash_max
      /\ r.tree_node = <<i, h>>
  <2>1. <<i, h>> \in Places
    BY <1>2 DEF Places
  <2> QED BY <1>2, <2>1, NodeRecFacts
<1>5. q \in TreeNode /\ q.sub = d.tree[i][h].sub \cup {n} /\ q.count = d.tree[i][h].count + 1
  <2>1. d.tree[i][h].sub \cup {n} \in SUBSET Nodes /\ d.tree[i][h].count + 1 \in Int
    BY <1>2, TreeNodeFacts
  <2> QED BY <1>2, <2>1 DEF TreeNode
<1> HIDE DEF r, q
<1>6. m \in NodeMaps /\ DOMAIN m = DOMAIN d.node /\ m[n] = r
      /\ \A k \in DOMAIN d.node : k # n => m[k] = d.node[k]
  BY <1>1, <1>4, NodeMapExcept
<1>7. u \in Trees /\ DOMAIN u = DOMAIN d.tree[i] /\ u[h] = q
      /\ \A k \in DOMAIN d.tree[i] : k # h => u[k] = d.tree[i][k]
  BY <1>1, <1>5, TreeExcept
<1> HIDE DEF m, u
<1>8. T \in [{0, 1} -> Trees] /\ T[i] = u /\ \A j \in {0, 1} : j # i => T[j] = d.tree[j]
  BY <1>1, <1>7, TreesExcept
<1> HIDE DEF T
<1>9. t \in Dbs /\ t.tree = T /\ t.node = m /\ t.list = d.list
  BY <1>6, <1>8 DEF Dbs
<1> HIDE DEF t
<1> QED BY <1>3, <1>4, <1>5, <1>6, <1>7, <1>8, <1>9 DEF NodesBut, TreeBut

LEMMA UnlinkedEffect ==
  ASSUME NEW d \in Dbs, NEW n \in DOMAIN d.node
  PROVE  LET t == Unlinked(d, n)
         IN  /\ t \in Dbs /\ t.list = d.list /\ NodesBut(d, t, n) /\ t.tree = d.tree
             /\ t.node[n].page = d.node[n].page /\ t.node[n].hash_max = d.node[n].hash_max
             /\ t.node[n].tree_node = Null
<1> DEFINE r == [d.node[n] EXCEPT !.tree_node = Null]
           m == [d.node EXCEPT ![n] = r]
           t == [d EXCEPT !.node = m]
<1>1. d.node \in NodeMaps /\ d.node[n] \in NodeRec /\ Null \in Places
  BY DbFacts, NodeMapFacts DEF Places
<1>2. Unlinked(d, n) = t
  BY <1>1 DEF Unlinked, Dbs
<1>3. r \in NodeRec /\ r.page = d.node[n].page /\ r.hash_max = d.node[n].hash_max
      /\ r.tree_node = Null
  BY <1>1, NodeRecFacts
<1> HIDE DEF r
<1>4. m \in NodeMaps /\ DOMAIN m = DOMAIN d.node /\ m[n] = r
      /\ \A k \in DOMAIN d.node : k # n => m[k] = d.node[k]
  BY <1>1, <1>3, NodeMapExcept
<1> HIDE DEF m
<1>5. t \in Dbs /\ t.tree = d.tree /\ t.node = m /\ t.list = d.list
  BY <1>4, DbNodeIs
<1> HIDE DEF t
<1> QED BY <1>2, <1>3, <1>4, <1>5 DEF NodesBut

LEMMA NewTreeNodeEffect ==
  ASSUME NEW d \in Dbs, NEW i \in {0, 1}, NEW h \in Int
  PROVE  LET t == NewTreeNode(d, i, h)
         IN  /\ t \in Dbs /\ t.list = d.list /\ t.node = d.node
             /\ TreeBut(d, t, i, h) /\ h \in DOMAIN t.tree[i]
             /\ t.tree[i][h].sub = {} /\ t.tree[i][h].count = 0
<1> DEFINE q == [sub |-> {}, count |-> 0]
           u == With(d.tree[i], h, q)
           T == [d.tree EXCEPT ![i] = u]
           t == [d EXCEPT !.tree = T]
<1>1. d.tree \in [{0, 1} -> Trees] /\ d.tree[i] \in Trees
  BY DbFacts
<1>2. NewTreeNode(d, i, h) = t
  BY <1>1 DEF NewTreeNode, Dbs
<1>3. q \in TreeNode /\ q.sub = {} /\ q.count = 0
  BY DEF TreeNode
<1> HIDE DEF q
<1>4. u \in Trees /\ DOMAIN u = DOMAIN d.tree[i] \cup {h} /\ u[h] = q
      /\ \A k \in DOMAIN d.tree[i] : k # h => u[k] = d.tree[i][k]
  BY <1>1, <1>3, TreeFacts, TreeIs DEF With
<1> HIDE DEF u
<1>5. T \in [{0, 1} -> Trees] /\ T[i] = u /\ \A j \in {0, 1} : j # i => T[j] = d.tree[j]
  BY <1>1, <1>4, TreesExcept
<1> HIDE DEF T
<1>6. t \in Dbs /\ t.tree = T /\ t.node = d.node /\ t.list = d.list
  BY <1>5, DbTreeIs
<1> HIDE DEF t
<1> QED BY <1>2, <1>3, <1>4, <1>5, <1>6 DEF TreeBut

LEMMA PageHashMaxInt ==
  ASSUME NEW c \in Contents, NEW h \in Int, hash_strength \in Strengths
  PROVE  PageHashMax(c, h) \in Int
<1>1. Hash[c][FullStrength] \in Int /\ Wrong \in Int
  BY HashAssumption DEF Wrong
<1> QED BY <1>1 DEF PageHashMax, DeltaHash

LEMMA WithHashMaxEffect ==
  ASSUME NEW d \in Dbs, NEW n \in DOMAIN d.node, NEW h \in Int, hash_strength \in Strengths
  PROVE  LET t == WithHashMax(d, n, h)
         IN  /\ t \in Dbs /\ t.list = d.list /\ NodesBut(d, t, n) /\ t.tree = d.tree
             /\ t.node[n].page = d.node[n].page /\ t.node[n].tree_node = d.node[n].tree_node
             /\ t.node[n].hash_max = IF d.node[n].hash_max # NoHash THEN d.node[n].hash_max
                                     ELSE PageHashMax(d.node[n].page, h)
<1> DEFINE v == PageHashMax(d.node[n].page, h)
           r == [d.node[n] EXCEPT !.hash_max = v]
           m == [d.node EXCEPT ![n] = r]
           t == [d EXCEPT !.node = m]
<1>1. d.node \in NodeMaps /\ d.node[n] \in NodeRec
  BY DbFacts, NodeMapFacts
<1>2. d.node[n].hash_max # NoHash => WithHashMax(d, n, h) = d
  BY DEF WithHashMax
<1>3. d.node[n].hash_max = NoHash => WithHashMax(d, n, h) = t
  BY <1>1 DEF WithHashMax, Dbs
<1>4. v \in Int
  BY <1>1, PageHashMaxInt, NodeRecFacts
<1> HIDE DEF v
<1>5. r \in NodeRec /\ r.page = d.node[n].page /\ r.tree_node = d.node[n].tree_node
      /\ r.hash_max = v
  BY <1>1, <1>4, NodeRecFacts
<1> HIDE DEF r
<1>6. m \in NodeMaps /\ DOMAIN m = DOMAIN d.node /\ m[n] = r
      /\ \A k \in DOMAIN d.node : k # n => m[k] = d.node[k]
  BY <1>1, <1>5, NodeMapExcept
<1> HIDE DEF m
<1>7. t \in Dbs /\ t.tree = d.tree /\ t.node = m /\ t.list = d.list
  BY <1>6, DbNodeIs
<1> HIDE DEF t
<1>8. CASE d.node[n].hash_max # NoHash
  BY <1>2, <1>8 DEF NodesBut
<1>9. CASE d.node[n].hash_max = NoHash
  BY <1>3, <1>5, <1>6, <1>7, <1>9 DEF NodesBut, v
<1> QED BY <1>8, <1>9

LEMMA UnshareEffect ==
  ASSUME NEW d \in Dbs, NEW n \in DOMAIN d.node
  PROVE  LET t == Unshare(d, n)
         IN  t \in Dbs /\ t.list = d.list /\ t.node = d.node /\ t.tree = d.tree
<1>1. d.node[n].rmaps \in Nat
  BY DbFacts, NodeMapFacts, NodeRecFacts
<1>2. d.node[n].rmaps \in Int /\ d.uksm_pages_shared \in Int /\ d.uksm_pages_sharing \in Int
  BY <1>1, DbFacts
<1>3. d.uksm_pages_shared - 1 \in Int /\ (d.uksm_pages_sharing - d.node[n].rmaps) + 1 \in Int
  BY <1>2
<1> QED BY <1>3 DEF Unshare, Dbs

(* n is out of tree_node h of tree i, or the tree_node with it. *)
TakenOut(d, t, n, i, h, R) ==
  IF d.tree[i][h].sub = {n} /\ R THEN h \notin DOMAIN t.tree[i]
  ELSE /\ h \in DOMAIN t.tree[i]
       /\ t.tree[i][h].sub = d.tree[i][h].sub \ {n}
       /\ t.tree[i][h].count = d.tree[i][h].count - 1

LEMMA UnlinkEffect ==
  ASSUME NEW d \in Dbs, NEW n \in DOMAIN d.node, NEW i \in {0, 1}, NEW h \in DOMAIN d.tree[i],
         NEW R \in BOOLEAN, d.node[n].tree_node = <<i, h>>
  PROVE  LET t == Unlink(d, n, R)
         IN  /\ t \in Dbs /\ t.list = d.list /\ t.node = d.node /\ TreeBut(d, t, i, h)
             /\ TakenOut(d, t, n, i, h, R)
<1> DEFINE q == [d.tree[i][h] EXCEPT !.sub = d.tree[i][h].sub \ {n},
                                     !.count = d.tree[i][h].count - 1]
           u == [d.tree[i] EXCEPT ![h] = q]
           w == Restrict(d.tree[i], DOMAIN d.tree[i] \ {h})
           T == [d.tree EXCEPT ![i] = u]
           W == [d.tree EXCEPT ![i] = w]
           t == [d EXCEPT !.tree = T]
           s == [d EXCEPT !.tree = W]
<1>1. d.tree \in [{0, 1} -> Trees] /\ d.tree[i] \in Trees
  BY DbFacts
<1>2. d.tree[i][h] \in TreeNode /\ h \in Int
  BY <1>1, TreeFacts
<1>3. d.node[n].tree_node[1] = i /\ d.node[n].tree_node[2] = h
  OBVIOUS
<1>4. CASE d.tree[i][h].sub = {n} /\ R
  <2>1. Unlink(d, n, R) = s
    BY <1>1, <1>2, <1>3, <1>4 DEF Unlink, Dbs
  <2>2. w \in Trees /\ DOMAIN w = DOMAIN d.tree[i] \ {h}
        /\ \A k \in DOMAIN d.tree[i] \ {h} : w[k] = d.tree[i][k]
    BY <1>1, TreeRestrict
  <2> HIDE DEF w
  <2>3. W \in [{0, 1} -> Trees] /\ W[i] = w /\ \A j \in {0, 1} : j # i => W[j] = d.tree[j]
    BY <1>1, <2>2, TreesExcept
  <2> HIDE DEF W
  <2>4. s \in Dbs /\ s.tree = W /\ s.node = d.node /\ s.list = d.list
    BY <2>3, DbTreeIs
  <2> HIDE DEF s
  <2> QED BY <1>4, <2>1, <2>2, <2>3, <2>4 DEF TreeBut, TakenOut
<1>5. CASE ~(d.tree[i][h].sub = {n} /\ R)
  <2>1. Unlink(d, n, R) = t
    <3>1. Unlink(d, n, R) = [d EXCEPT !.tree[i][h].sub = @ \ {n}, !.tree[i][h].count = @ - 1]
      BY <1>3, <1>5 DEF Unlink
    <3>2. @ = t
      BY <1>1, <1>2, ZenonT(60) DEF Dbs, TreeNode
    <3> QED BY <3>1, <3>2
  <2>2. q \in TreeNode /\ q.sub = d.tree[i][h].sub \ {n} /\ q.count = d.tree[i][h].count - 1
    <3>1. d.tree[i][h].sub \ {n} \in SUBSET Nodes /\ d.tree[i][h].count - 1 \in Int
      BY <1>2, TreeNodeFacts
    <3> QED BY <1>2, <3>1 DEF TreeNode
  <2> HIDE DEF q
  <2>3. u \in Trees /\ DOMAIN u = DOMAIN d.tree[i] /\ u[h] = q
        /\ \A k \in DOMAIN d.tree[i] : k # h => u[k] = d.tree[i][k]
    BY <1>1, <2>2, TreeExcept
  <2> HIDE DEF u
  <2>4. T \in [{0, 1} -> Trees] /\ T[i] = u /\ \A j \in {0, 1} : j # i => T[j] = d.tree[j]
    BY <1>1, <2>3, TreesExcept
  <2> HIDE DEF T
  <2>5. t \in Dbs /\ t.tree = T /\ t.node = d.node /\ t.list = d.list
    BY <2>4, DbTreeIs
  <2> HIDE DEF t
  <2> QED BY <1>5, <2>1, <2>2, <2>3, <2>4, <2>5 DEF TreeBut, TakenOut
<1> QED BY <1>4, <1>5

(* What is left of the nodes and the list when n is freed. *)
NodesLess(d, t, n) ==
  /\ Distinct(t.list) /\ Range(t.list) = Range(d.list) \ {n}
  /\ DOMAIN t.node = DOMAIN d.node \ {n}
  /\ \A k \in DOMAIN t.node : t.node[k] = d.node[k]

LEMMA FreedEffect ==
  ASSUME NEW d \in Dbs, Distinct(d.list), NEW n \in Range(d.list)
  PROVE  LET t == [d EXCEPT !.node = Restrict(@, DOMAIN @ \ {n}), !.list = Without(@, n)]
         IN  t \in Dbs /\ t.tree = d.tree /\ NodesLess(d, t, n)
<1> DEFINE m == Restrict(d.node, DOMAIN d.node \ {n})
           s == Without(d.list, n)
           t == [d EXCEPT !.node = m, !.list = s]
<1>1. m \in NodeMaps /\ DOMAIN m = DOMAIN d.node \ {n} /\ \A k \in DOMAIN m : m[k] = d.node[k]
  BY DbFacts, NodeMapRestrict, Zenon
<1>2. s \in Seq(Nodes) /\ Distinct(s) /\ Range(s) = Range(d.list) \ {n}
  BY DbFacts, WithoutFacts
<1>3. t = [d EXCEPT !.node = Restrict(@, DOMAIN @ \ {n}), !.list = Without(@, n)]
  BY DEF Dbs
<1> HIDE DEF m, s
<1>4. t \in Dbs /\ t.tree = d.tree /\ t.node = m /\ t.list = s
  BY <1>1, <1>2 DEF Dbs
<1> HIDE DEF t
<1> QED BY <1>1, <1>2, <1>3, <1>4 DEF NodesLess

LEMMA RemoveElsewhereEffect ==
  ASSUME NEW d \in Dbs, Distinct(d.list), NEW n \in Range(d.list), n \in DOMAIN d.node,
         NEW U \in BOOLEAN, NEW R \in BOOLEAN, ~U \/ d.node[n].tree_node = Null
  PROVE  LET t == Remove(d, n, U, R) IN t \in Dbs /\ t.tree = d.tree /\ NodesLess(d, t, n)
<1> DEFINE s == Unshare(d, n)
           t == Remove(d, n, U, R)
<1>1. s \in Dbs /\ s.list = d.list /\ s.node = d.node /\ s.tree = d.tree
  BY UnshareEffect
<1>2. t = [s EXCEPT !.node = Restrict(@, DOMAIN @ \ {n}), !.list = Without(@, n)]
  BY DEF Remove
<1> HIDE DEF t, s
<1>3. t \in Dbs /\ t.tree = s.tree /\ NodesLess(s, t, n)
  BY <1>1, <1>2, FreedEffect, Zenon
<1> QED BY <1>1, <1>3 DEF NodesLess, t

LEMMA RemoveHereEffect ==
  ASSUME NEW d \in Dbs, Distinct(d.list), NEW n \in Range(d.list), n \in DOMAIN d.node,
         NEW i \in {0, 1}, NEW h \in DOMAIN d.tree[i], NEW R \in BOOLEAN,
         d.node[n].tree_node = <<i, h>>
  PROVE  LET t == Remove(d, n, TRUE, R)
         IN  /\ t \in Dbs /\ NodesLess(d, t, n) /\ TreeBut(d, t, i, h)
             /\ TakenOut(d, t, n, i, h, R)
<1> DEFINE s == Unshare(d, n)
           u == Unlink(s, n, R)
           t == Remove(d, n, TRUE, R)
<1>1. s \in Dbs /\ s.list = d.list /\ s.node = d.node /\ s.tree = d.tree
  BY UnshareEffect
<1>2. t = [u EXCEPT !.node = Restrict(@, DOMAIN @ \ {n}), !.list = Without(@, n)]
  BY PlaceIsNotNull DEF Remove
<1> HIDE DEF t, s
<1>3. s \in Dbs /\ n \in DOMAIN s.node /\ h \in DOMAIN s.tree[i] /\ s.node[n].tree_node = <<i, h>>
  BY <1>1
<1>4. /\ u \in Dbs /\ u.list = s.list /\ u.node = s.node /\ TreeBut(s, u, i, h)
      /\ TakenOut(s, u, n, i, h, R)
  BY <1>3, UnlinkEffect
<1> HIDE DEF u
<1>5. t \in Dbs /\ t.tree = u.tree /\ NodesLess(u, t, n)
  BY <1>1, <1>2, <1>4, FreedEffect, Zenon
<1> QED BY <1>1, <1>4, <1>5, Zenon DEF NodesLess, TreeBut, TakenOut, t

-----------------------------------------------------------------------------
(* The invariant. *)

StrengthOf(i) == IF i = root_stable_treep THEN prev_hash_strength ELSE hash_strength
Full(c) == LET full == Hash[c][FullStrength] IN IF full = 0 THEN 1 ELSE full

Roots ==
  /\ hash_strength \in Strengths /\ prev_hash_strength \in Strengths
  /\ stable_tree_index \in {0, 1} /\ root_stable_treep \in {0, 1}
  /\ ~Rebuilding => todo = <<>> /\ prev_hash_strength = hash_strength

(* T is the set of nodes to visit, E of hashes whose tree_node may be empty *)
(* (inside stable_node_reinsert, where one is made or loses a stale node).  *)
Allocated(d, T) == Distinct(d.list) /\ DOMAIN d.node = Range(d.list) /\ T \subseteq Range(d.list)
Pointed(d, T) ==
  \A n \in DOMAIN d.node : \A i \in {0, 1} : \A h \in Int : d.node[n].tree_node = <<i, h>> =>
    /\ h \in DOMAIN d.tree[i] /\ n \in d.tree[i][h].sub
    /\ h = Hash[d.node[n].page][StrengthOf(i)]
    /\ i = stable_tree_index <=> n \notin T
Held(d) ==
  \A h \in DOMAIN d.tree[stable_tree_index] : \A n \in d.tree[stable_tree_index][h].sub :
    n \in DOMAIN d.node /\ d.node[n].tree_node = <<stable_tree_index, h>>
Counted(d, E) ==
  \A h \in DOMAIN d.tree[stable_tree_index] :
    /\ IsFiniteSet(d.tree[stable_tree_index][h].sub)
    /\ d.tree[stable_tree_index][h].count = Cardinality(d.tree[stable_tree_index][h].sub)
    /\ h \notin E => d.tree[stable_tree_index][h].count > 0
Hashed(d) == \A n \in DOMAIN d.node : d.node[n].hash_max \in {NoHash, Full(d.node[n].page)}
Apart(d) ==
  \A h \in DOMAIN d.tree[stable_tree_index] : d.tree[stable_tree_index][h].count > 1 =>
    \A m, n \in d.tree[stable_tree_index][h].sub :
      /\ d.node[m].hash_max # NoHash
      /\ d.node[m].hash_max = d.node[n].hash_max => m = n

Sound(d, T, E) ==
  Allocated(d, T) /\ Pointed(d, T) /\ Held(d) /\ Counted(d, E) /\ Hashed(d) /\ Apart(d)

TInv ==
  /\ Roots /\ db \in Dbs /\ todo \in Seq(Nodes) /\ Distinct(todo)
  /\ Sound(db, Range(todo), {})

LEMMA NodeFacts ==
  ASSUME NEW d \in Dbs, NEW n \in DOMAIN d.node
  PROVE  /\ n \in Nodes /\ d.node[n].page \in Contents /\ d.node[n].hash_max \in Int
         /\ d.node[n].tree_node \in Places /\ d.node[n].rmaps \in Nat
BY DbFacts, NodeMapFacts, NodeRecFacts

LEMMA HashIsNat == ASSUME NEW c \in Contents, NEW s \in Strengths PROVE Hash[c][s] \in Nat
BY HashAssumption

LEMMA FullFacts ==
  ASSUME NEW c \in Contents, hash_strength \in Strengths
  PROVE  Full(c) # NoHash /\ PageHashMax(c, Hash[c][hash_strength]) = Full(c)
BY DEF Full, PageHashMax, DeltaHash, NoHash

(* Each helper keeps the invariant: a full hash computed from the hash at   *)
(* the strength of the tree, ...                                            *)
LEMMA SoundHash ==
  ASSUME Roots, NEW d \in Dbs, NEW T, NEW E, Sound(d, T, E), NEW n \in DOMAIN d.node
  PROVE  LET t == WithHashMax(d, n, Hash[d.node[n].page][hash_strength])
         IN  /\ t \in Dbs /\ Sound(t, T, E) /\ NodesBut(d, t, n)
             /\ t.list = d.list /\ t.tree = d.tree
             /\ t.node[n].page = d.node[n].page /\ t.node[n].tree_node = d.node[n].tree_node
             /\ t.node[n].hash_max = Full(d.node[n].page) /\ t.node[n].hash_max # NoHash
<1> DEFINE h == Hash[d.node[n].page][hash_strength]
           t == WithHashMax(d, n, h)
<1>1. h \in Int /\ hash_strength \in Strengths /\ d.node[n].page \in Contents
  BY NodeFacts, HashIsNat, SMTT(30) DEF Roots
<1>2. /\ t \in Dbs /\ t.list = d.list /\ NodesBut(d, t, n) /\ t.tree = d.tree
      /\ t.node[n].page = d.node[n].page /\ t.node[n].tree_node = d.node[n].tree_node
      /\ t.node[n].hash_max = IF d.node[n].hash_max # NoHash THEN d.node[n].hash_max
                              ELSE PageHashMax(d.node[n].page, h)
  BY <1>1, WithHashMaxEffect, Zenon
<1>3. t.node[n].hash_max = Full(d.node[n].page) /\ t.node[n].hash_max # NoHash
  BY <1>1, <1>2, FullFacts, Zenon DEF Sound, Hashed
<1> HIDE DEF t
<1>4. /\ DOMAIN t.node = DOMAIN d.node
      /\ \A k \in DOMAIN d.node : /\ t.node[k].page = d.node[k].page
                                  /\ t.node[k].tree_node = d.node[k].tree_node
                                  /\ d.node[k].hash_max # NoHash
                                       => t.node[k].hash_max = d.node[k].hash_max
  BY <1>2 DEF NodesBut
<1>5. Allocated(t, T) /\ Held(t) /\ Counted(t, E)
  BY <1>2, <1>4 DEF Sound, Allocated, Held, Counted
<1>6. Pointed(t, T)
  BY <1>2, <1>4 DEF Sound, Pointed
<1>7. Hashed(t)
  BY <1>2, <1>3 DEF Sound, Hashed, NodesBut
<1>8. Apart(t)
  BY <1>2, <1>4 DEF Sound, Apart, Held
<1> QED BY <1>2, <1>3, <1>5, <1>6, <1>7, <1>8, Zenon DEF Sound, t

(* n goes under h; it is not in the tree being built; its full hash tells it from the nodes   *)
(* under h.                                                                 *)
KeyOf(d, n, h) == h = Hash[d.node[n].page][hash_strength]
Elsewhere(d, n) == \A g \in Int : d.node[n].tree_node # <<stable_tree_index, g>>
ToldApart(d, n, h) ==
  \A m \in d.tree[stable_tree_index][h].sub :
    /\ d.node[m].hash_max # NoHash /\ d.node[n].hash_max # NoHash
    /\ d.node[m].hash_max # d.node[n].hash_max

(* ... a node linked where it is the only one, or told apart from those     *)
(* already there, ...                                                       *)
LEMMA SoundLink ==
  ASSUME Roots, NEW d \in Dbs, NEW T, NEW E, Sound(d, T, E), NEW n \in DOMAIN d.node,
         NEW h \in DOMAIN d.tree[stable_tree_index],
         KeyOf(d, n, h), Elsewhere(d, n), ToldApart(d, n, h)
  PROVE  LET t == Link(d, n, stable_tree_index, h)
         IN  t \in Dbs /\ Sound(t, T \ {n}, E \ {h}) /\ t.node[n].tree_node # Null
<1> DEFINE i == stable_tree_index
           t == Link(d, n, i, h)
<1>1. i \in {0, 1} /\ d.tree \in [{0, 1} -> Trees] /\ h \in Int
      /\ \A j \in {0, 1} : DOMAIN d.tree[j] \subseteq Int
  BY DbFacts, TreeFacts DEF Roots
<1>2. /\ t \in Dbs /\ t.list = d.list /\ NodesBut(d, t, n)
      /\ t.node[n].page = d.node[n].page /\ t.node[n].hash_max = d.node[n].hash_max
      /\ t.node[n].tree_node = <<i, h>>
      /\ TreeBut(d, t, i, h) /\ h \in DOMAIN t.tree[i]
      /\ t.tree[i][h].sub = d.tree[i][h].sub \cup {n}
      /\ t.tree[i][h].count = d.tree[i][h].count + 1
  BY <1>1, LinkEffect, SMTT(30)
<1>3. DOMAIN t.tree[i] = DOMAIN d.tree[i] /\ \A k \in DOMAIN d.tree[i] : k # h => t.tree[i][k] = d.tree[i][k]
  BY <1>2 DEF TreeBut
<1>4. \A j \in {0, 1} : j # i => t.tree[j] = d.tree[j]
  BY <1>2 DEF TreeBut
<1>5. DOMAIN t.node = DOMAIN d.node /\ \A k \in DOMAIN d.node : k # n => t.node[k] = d.node[k]
  BY <1>2 DEF NodesBut
<1>6. \A g \in DOMAIN d.tree[i] : n \notin d.tree[i][g].sub
  BY <1>1 DEF Sound, Held, Elsewhere
<1>7. StrengthOf(i) = hash_strength
  BY DEF StrengthOf, Roots, Rebuilding
<1> HIDE DEF t
<1>8. Allocated(t, T \ {n})
  BY <1>2, <1>5 DEF Sound, Allocated
<1>9. Pointed(t, T \ {n})
  <2> SUFFICES ASSUME NEW k \in DOMAIN d.node, NEW j \in {0, 1}, NEW g \in Int,
                      t.node[k].tree_node = <<j, g>>
               PROVE  /\ g \in DOMAIN t.tree[j] /\ k \in t.tree[j][g].sub
                      /\ g = Hash[t.node[k].page][StrengthOf(j)]
                      /\ j = stable_tree_index <=> k \notin T \ {n}
    BY <1>5, Zenon DEF Pointed
  <2>1. CASE k = n
    <3>1. j = i /\ g = h
      BY <1>2, <2>1
    <3> QED BY <1>2, <1>7, <2>1, <3>1, Zenon DEF KeyOf
  <2>2. CASE k # n
    <3>1. /\ g \in DOMAIN d.tree[j] /\ k \in d.tree[j][g].sub
          /\ g = Hash[d.node[k].page][StrengthOf(j)]
          /\ j = stable_tree_index <=> k \notin T
      BY <1>5, <2>2, SMTT(30) DEF Sound, Pointed
    <3>2. g \in DOMAIN t.tree[j] /\ k \in t.tree[j][g].sub
      BY <1>2, <1>3, <1>4, <3>1
    <3> QED BY <1>5, <2>2, <3>1, <3>2, Zenon
  <2> QED BY <2>1, <2>2
<1>10. Held(t)
  <2> SUFFICES ASSUME NEW g \in DOMAIN t.tree[i], NEW k \in t.tree[i][g].sub
               PROVE  k \in DOMAIN t.node /\ t.node[k].tree_node = <<i, g>>
    BY DEF Held
  <2>1. CASE k = n /\ g = h
    BY <1>2, <1>5, <2>1
  <2>2. CASE ~(k = n /\ g = h)
    <3>1. g \in DOMAIN d.tree[i] /\ k \in d.tree[i][g].sub /\ k # n
      BY <1>2, <1>3, <1>6, <2>2
    <3>2. k \in DOMAIN d.node /\ d.node[k].tree_node = <<i, g>>
      BY <3>1 DEF Sound, Held
    <3> QED BY <1>5, <3>1, <3>2
  <2> QED BY <2>1, <2>2
<1>11. Counted(t, E \ {h})
  <2>1. IsFiniteSet(d.tree[i][h].sub) /\ d.tree[i][h].count = Cardinality(d.tree[i][h].sub)
    BY DEF Sound, Counted
  <2>2. IsFiniteSet(t.tree[i][h].sub) /\ Cardinality(t.tree[i][h].sub) = Cardinality(d.tree[i][h].sub) + 1
        /\ Cardinality(d.tree[i][h].sub) \in Nat
    BY <1>2, <1>6, <2>1, FS_AddElement, FS_CardinalityType
  <2>3. t.tree[i][h].count = Cardinality(t.tree[i][h].sub) /\ t.tree[i][h].count > 0
    BY <1>2, <2>1, <2>2
  <2> QED BY <1>3, <2>2, <2>3 DEF Sound, Counted
<1>12. Hashed(t)
  BY <1>2, <1>5 DEF Sound, Hashed
<1>13. Apart(t)
  <2> SUFFICES ASSUME NEW g \in DOMAIN t.tree[i], t.tree[i][g].count > 1,
                      NEW k \in t.tree[i][g].sub, NEW m \in t.tree[i][g].sub
               PROVE  t.node[k].hash_max # NoHash
                      /\ (t.node[k].hash_max = t.node[m].hash_max => k = m)
    BY DEF Apart
  <2>1. CASE g # h
    BY <1>3, <1>5, <1>6, <2>1 DEF Sound, Apart, Held
  <2>2. CASE g = h
    <3>1. d.tree[i][h].count \in Int /\ IsFiniteSet(d.tree[i][h].sub)
          /\ d.tree[i][h].count = Cardinality(d.tree[i][h].sub)
      BY FS_CardinalityType DEF Sound, Counted
    <3>2. d.tree[i][h].sub # {}
      BY <1>2, <2>2, <3>1, FS_EmptySet
    <3>3. \A p, q \in d.tree[i][h].sub : d.node[p].hash_max # NoHash
              /\ (d.node[p].hash_max = d.node[q].hash_max => p = q)
      <4>1. CASE d.tree[i][h].count > 1
        BY <4>1 DEF Sound, Apart
      <4>2. CASE ~(d.tree[i][h].count > 1)
        <5>1. Cardinality(d.tree[i][h].sub) = 1
          BY <1>2, <2>2, <3>1, <4>2
        <5>2. \E x : d.tree[i][h].sub = {x}
          BY <3>1, <5>1, FS_Singleton
        <5> QED BY <5>2 DEF ToldApart
      <4> QED BY <4>1, <4>2
    <3>4. \A p \in d.tree[i][h].sub : p \in DOMAIN d.node /\ p # n
      BY <1>6 DEF Sound, Held
    <3> QED BY <1>2, <1>5, <2>2, <3>2, <3>3, <3>4 DEF ToldApart
  <2> QED BY <2>1, <2>2
<1> QED BY <1>2, <1>8, <1>9, <1>10, <1>11, <1>12, <1>13, PlaceIsNotNull DEF Sound, t

(* ... a node that finds no place, ... *)
LEMMA SoundUnlinked ==
  ASSUME NEW d \in Dbs, NEW T, NEW E, Sound(d, T, E), NEW n \in DOMAIN d.node,
         Roots, Elsewhere(d, n)
  PROVE  LET t == Unlinked(d, n)
         IN  /\ t \in Dbs /\ Sound(t, T \ {n}, E) /\ NodesBut(d, t, n)
             /\ t.node[n].page = d.node[n].page /\ t.node[n].hash_max = d.node[n].hash_max
<1> DEFINE i == stable_tree_index
           t == Unlinked(d, n)
<1>1. i \in {0, 1} /\ d.tree \in [{0, 1} -> Trees] /\ \A j \in {0, 1} : DOMAIN d.tree[j] \subseteq Int
  BY DbFacts, TreeFacts DEF Roots
<1>2. /\ t \in Dbs /\ t.list = d.list /\ NodesBut(d, t, n) /\ t.tree = d.tree
      /\ t.node[n].page = d.node[n].page /\ t.node[n].hash_max = d.node[n].hash_max
      /\ t.node[n].tree_node = Null
  BY UnlinkedEffect
<1>3. DOMAIN t.node = DOMAIN d.node /\ \A k \in DOMAIN d.node : k # n => t.node[k] = d.node[k]
  BY <1>2 DEF NodesBut
<1>4. \A g \in DOMAIN d.tree[i] : n \notin d.tree[i][g].sub
  BY <1>1 DEF Sound, Held, Elsewhere
<1> HIDE DEF t
<1>5. Allocated(t, T \ {n}) /\ Counted(t, E) /\ Hashed(t)
  BY <1>2, <1>3 DEF Sound, Allocated, Counted, Hashed
<1>6. Pointed(t, T \ {n})
  <2> SUFFICES ASSUME NEW k \in DOMAIN d.node, NEW j \in {0, 1}, NEW g \in Int,
                      t.node[k].tree_node = <<j, g>>
               PROVE  /\ g \in DOMAIN t.tree[j] /\ k \in t.tree[j][g].sub
                      /\ g = Hash[t.node[k].page][StrengthOf(j)]
                      /\ j = stable_tree_index <=> k \notin T \ {n}
    BY <1>3 DEF Pointed
  <2>1. k # n
    BY <1>2, PlaceIsNotNull
  <2> QED BY <1>2, <1>3, <2>1 DEF Sound, Pointed
<1>7. Held(t)
  BY <1>2, <1>3, <1>4 DEF Sound, Held
<1>8. Apart(t)
  <2>1. \A g \in DOMAIN d.tree[i] : \A k \in d.tree[i][g].sub : t.node[k] = d.node[k]
    BY <1>3, <1>4 DEF Sound, Held
  <2> QED BY <1>2, <2>1 DEF Sound, Apart
<1> QED BY <1>2, <1>5, <1>6, <1>7, <1>8 DEF Sound, t

(* ... a new tree_node, which has to get its node, ... *)
LEMMA SoundNewTreeNode ==
  ASSUME NEW d \in Dbs, NEW T, NEW E, Sound(d, T, E), NEW h \in Int,
         Roots, h \notin DOMAIN d.tree[stable_tree_index]
  PROVE  LET t == NewTreeNode(d, stable_tree_index, h)
         IN  /\ t \in Dbs /\ Sound(t, T, E \cup {h}) /\ t.node = d.node
             /\ h \in DOMAIN t.tree[stable_tree_index]
             /\ t.tree[stable_tree_index][h].sub = {}
<1> DEFINE i == stable_tree_index
           t == NewTreeNode(d, i, h)
<1>1. i \in {0, 1}
  BY DEF Roots
<1>2. /\ t \in Dbs /\ t.list = d.list /\ t.node = d.node
      /\ TreeBut(d, t, i, h) /\ h \in DOMAIN t.tree[i]
      /\ t.tree[i][h].sub = {} /\ t.tree[i][h].count = 0
  BY <1>1, NewTreeNodeEffect, ZenonT(60)
<1>3. DOMAIN t.tree[i] = DOMAIN d.tree[i] \cup {h} /\ \A k \in DOMAIN d.tree[i] : t.tree[i][k] = d.tree[i][k]
  BY <1>2 DEF TreeBut
<1>4. \A j \in {0, 1} : j # i => t.tree[j] = d.tree[j]
  BY <1>2 DEF TreeBut
<1> HIDE DEF t
<1>5. Allocated(t, T) /\ Hashed(t)
  BY <1>2 DEF Sound, Allocated, Hashed
<1>6. Pointed(t, T)
  BY <1>2, <1>3, <1>4 DEF Sound, Pointed
<1>7. Held(t)
  BY <1>2, <1>3 DEF Sound, Held
<1>8. Counted(t, E \cup {h})
  <2>1. IsFiniteSet({}) /\ Cardinality({}) = 0
    BY FS_EmptySet
  <2> QED BY <1>2, <1>3, <2>1 DEF Sound, Counted
<1>9. Apart(t)
  <2> SUFFICES ASSUME NEW g \in DOMAIN t.tree[i], t.tree[i][g].count > 1
               PROVE  g \in DOMAIN d.tree[i] /\ t.tree[i][g] = d.tree[i][g]
    BY <1>2 DEF Sound, Apart
  <2>1. g # h
    BY <1>2
  <2> QED BY <1>3, <2>1
<1> QED BY <1>2, <1>5, <1>6, <1>7, <1>8, <1>9 DEF Sound, t

(* ... a node freed that is not in the tree being built, ... *)
LEMMA SoundRemoveElsewhere ==
  ASSUME NEW d \in Dbs, NEW T, NEW E, Sound(d, T, E), NEW n \in DOMAIN d.node,
         NEW U \in BOOLEAN, NEW R \in BOOLEAN,
         Roots, Elsewhere(d, n), ~U \/ d.node[n].tree_node = Null
  PROVE  LET t == Remove(d, n, U, R) IN t \in Dbs /\ Sound(t, T \ {n}, E)
<1> DEFINE i == stable_tree_index
           t == Remove(d, n, U, R)
<1>1. i \in {0, 1} /\ d.tree \in [{0, 1} -> Trees] /\ \A j \in {0, 1} : DOMAIN d.tree[j] \subseteq Int
  BY DbFacts, TreeFacts DEF Roots
<1>2. t \in Dbs /\ t.tree = d.tree /\ NodesLess(d, t, n)
  BY RemoveElsewhereEffect DEF Sound, Allocated
<1>3. DOMAIN t.node = DOMAIN d.node \ {n} /\ \A k \in DOMAIN d.node \ {n} : t.node[k] = d.node[k]
  BY <1>2 DEF NodesLess
<1>4. \A g \in DOMAIN d.tree[i] : n \notin d.tree[i][g].sub
  BY <1>1 DEF Sound, Held, Elsewhere
<1> HIDE DEF t
<1>5. Allocated(t, T \ {n}) /\ Counted(t, E) /\ Hashed(t)
  BY <1>2, <1>3 DEF Sound, Allocated, NodesLess, Counted, Hashed
<1>6. Pointed(t, T \ {n})
  BY <1>2, <1>3 DEF Sound, Pointed
<1>7. Held(t)
  BY <1>2, <1>3, <1>4 DEF Sound, Held
<1>8. Apart(t)
  <2>1. \A g \in DOMAIN d.tree[i] : \A k \in d.tree[i][g].sub : t.node[k] = d.node[k]
    BY <1>3, <1>4 DEF Sound, Held
  <2> QED BY <1>2, <2>1 DEF Sound, Apart
<1> QED BY <1>2, <1>5, <1>6, <1>7, <1>8 DEF Sound, t

(* ... and a node freed that is in it: without remove_tree_node its place   *)
(* may stay empty.                                                          *)
SoundWithout(d, t, n, h, R, T, E) ==
  IF R THEN Sound(t, T, E)
  ELSE /\ Sound(t, T, E \cup {h}) /\ h \in DOMAIN t.tree[stable_tree_index]
       /\ t.tree[stable_tree_index][h].sub = d.tree[stable_tree_index][h].sub \ {n}

LEMMA SoundRemoveHere ==
  ASSUME NEW d \in Dbs, NEW T, NEW E, Sound(d, T, E), NEW h \in DOMAIN d.tree[stable_tree_index],
         NEW n \in d.tree[stable_tree_index][h].sub, NEW R \in BOOLEAN, Roots
  PROVE  LET t == Remove(d, n, TRUE, R)
         IN  /\ t \in Dbs /\ NodesLess(d, t, n)
             /\ SoundWithout(d, t, n, h, R, T, E)
<1> DEFINE i == stable_tree_index
           t == Remove(d, n, TRUE, R)
           G == IF R THEN E ELSE E \cup {h}
           gone == d.tree[i][h].sub = {n} /\ R
<1>1. i \in {0, 1} /\ h \in Int /\ h \in DOMAIN d.tree[i]
  BY DbFacts, TreeFacts DEF Roots
<1>2. n \in DOMAIN d.node /\ n \in Range(d.list) /\ Distinct(d.list) /\ d.node[n].tree_node = <<i, h>>
  BY DEF Sound, Held, Allocated
<1>3. /\ t \in Dbs /\ NodesLess(d, t, n) /\ TreeBut(d, t, i, h)
      /\ gone => h \notin DOMAIN t.tree[i]
      /\ ~gone => /\ h \in DOMAIN t.tree[i]
                  /\ t.tree[i][h].sub = d.tree[i][h].sub \ {n}
                  /\ t.tree[i][h].count = d.tree[i][h].count - 1
  <2> HIDE DEF i
  <2>1. t \in Dbs /\ NodesLess(d, t, n) /\ TreeBut(d, t, i, h) /\ TakenOut(d, t, n, i, h, R)
    BY <1>1, <1>2, RemoveHereEffect
  <2> QED BY <2>1 DEF TakenOut
<1>4. DOMAIN t.node = DOMAIN d.node \ {n} /\ \A k \in DOMAIN d.node \ {n} : t.node[k] = d.node[k]
  BY <1>3 DEF NodesLess
<1>5. /\ \A g \in DOMAIN d.tree[i] : g # h => g \in DOMAIN t.tree[i] /\ t.tree[i][g] = d.tree[i][g]
      /\ \A g \in DOMAIN t.tree[i] : g \in DOMAIN d.tree[i]
      /\ \A j \in {0, 1} : j # i => t.tree[j] = d.tree[j]
  BY <1>3 DEF TreeBut
<1>6. \A g \in DOMAIN d.tree[i] : g # h => n \notin d.tree[i][g].sub
  BY <1>2 DEF Sound, Held
<1>7. n \notin T
  BY <1>1, <1>2 DEF Sound, Pointed
<1> HIDE DEF t, gone
<1>8. Allocated(t, T) /\ Hashed(t)
  BY <1>3, <1>4, <1>7, Zenon DEF Sound, Allocated, NodesLess, Hashed
<1>9. Pointed(t, T)
  <2> SUFFICES ASSUME NEW k \in DOMAIN d.node \ {n}, NEW j \in {0, 1}, NEW g \in Int,
                      d.node[k].tree_node = <<j, g>>
               PROVE  /\ g \in DOMAIN t.tree[j] /\ k \in t.tree[j][g].sub
                      /\ g = Hash[d.node[k].page][StrengthOf(j)]
                      /\ j = stable_tree_index <=> k \notin T
    BY <1>4 DEF Pointed
  <2>1. /\ g \in DOMAIN d.tree[j] /\ k \in d.tree[j][g].sub
        /\ g = Hash[d.node[k].page][StrengthOf(j)]
        /\ j = stable_tree_index <=> k \notin T
    BY DEF Sound, Pointed
  <2>2. g \in DOMAIN t.tree[j] /\ k \in t.tree[j][g].sub
    <3>1. CASE j = i /\ g = h
      BY <1>3, <2>1, <3>1, Zenon DEF gone
    <3>2. CASE ~(j = i /\ g = h)
      BY <1>5, <2>1, <3>2
    <3> QED BY <3>1, <3>2, Zenon
  <2> QED BY <2>1, <2>2, Zenon
<1>10. Held(t)
  <2> SUFFICES ASSUME NEW g \in DOMAIN t.tree[i], NEW k \in t.tree[i][g].sub
               PROVE  k \in DOMAIN t.node /\ t.node[k].tree_node = <<i, g>>
    BY DEF Held
  <2>1. g \in DOMAIN d.tree[i] /\ k \in d.tree[i][g].sub /\ k # n
    BY <1>3, <1>5, <1>6
  <2>2. k \in DOMAIN d.node /\ d.node[k].tree_node = <<i, g>>
    BY <2>1 DEF Sound, Held
  <2> QED BY <1>4, <2>1, <2>2
<1>11. Counted(t, G)
  <2>1. IsFiniteSet(d.tree[i][h].sub) /\ d.tree[i][h].count = Cardinality(d.tree[i][h].sub)
    BY DEF Sound, Counted
  <2>2. /\ IsFiniteSet(d.tree[i][h].sub \ {n})
        /\ Cardinality(d.tree[i][h].sub \ {n}) = Cardinality(d.tree[i][h].sub) - 1
        /\ Cardinality(d.tree[i][h].sub \ {n}) \in Nat
    BY <2>1, FS_RemoveElement, FS_CardinalityType
  <2>3. ASSUME h \in DOMAIN t.tree[i]
        PROVE  /\ IsFiniteSet(t.tree[i][h].sub)
               /\ t.tree[i][h].count = Cardinality(t.tree[i][h].sub)
               /\ R => t.tree[i][h].count > 0
    <3>1. t.tree[i][h].sub = d.tree[i][h].sub \ {n} /\ t.tree[i][h].count = d.tree[i][h].count - 1
          /\ ~gone
      BY <1>3, <2>3
    <3>2. ASSUME R PROVE Cardinality(d.tree[i][h].sub \ {n}) # 0
      <4>1. d.tree[i][h].sub \ {n} # {}
        BY <3>1, <3>2 DEF gone
      <4> QED BY <2>2, <4>1, FS_EmptySet
    <3>3. t.tree[i][h].count = Cardinality(d.tree[i][h].sub \ {n})
      BY <2>1, <2>2, <3>1
    <3>4. ASSUME R PROVE t.tree[i][h].count > 0
      <4>1. Cardinality(d.tree[i][h].sub \ {n}) # 0
        BY <3>2, <3>4
      <4>2. Cardinality(d.tree[i][h].sub \ {n}) \in Nat
        BY <2>2
      <4> HIDE DEF i
      <4> QED BY <3>3, <4>1, <4>2
    <3> QED BY <2>2, <3>1, <3>3, <3>4
  <2>4. \A g \in DOMAIN t.tree[i] : g # h => t.tree[i][g] = d.tree[i][g] /\ g \in DOMAIN d.tree[i]
    BY <1>5
  <2> QED BY <2>3, <2>4 DEF Sound, Counted
<1>12. Apart(t)
  <2> SUFFICES ASSUME NEW g \in DOMAIN t.tree[i], t.tree[i][g].count > 1,
                      NEW k \in t.tree[i][g].sub, NEW m \in t.tree[i][g].sub
               PROVE  t.node[k].hash_max # NoHash
                      /\ (t.node[k].hash_max = t.node[m].hash_max => k = m)
    BY DEF Apart
  <2>1. d.tree[i][h].count \in Int
    BY FS_CardinalityType DEF Sound, Counted
  <2>2. g \in DOMAIN d.tree[i] /\ d.tree[i][g].count > 1
        /\ {k, m} \subseteq d.tree[i][g].sub \ {n}
    BY <1>3, <1>5, <1>6, <2>1
  <2>3. k \in DOMAIN d.node \ {n} /\ m \in DOMAIN d.node \ {n}
    BY <2>2 DEF Sound, Held
  <2> QED BY <1>4, <2>2, <2>3 DEF Sound, Apart
<1>13. Sound(t, T, G)
  BY <1>8, <1>9, <1>10, <1>11, <1>12 DEF Sound
<1> QED BY <1>3, <1>13 DEF t, gone, SoundWithout

-----------------------------------------------------------------------------
(* stable_node_reinsert keeps the invariant, whichever way it ends; a node   *)
(* it leaves out had no tree_node and no memory for one, or another node    *)
(* has both its hashes.                                                     *)

PlacedOrHidden(d, t, n, h) ==
  \/ t.node[n].tree_node # Null
  \/ h \notin DOMAIN d.tree[stable_tree_index]
  \/ \E m \in DOMAIN t.node \ {n} :
       /\ Hash[t.node[m].page][hash_strength] = Hash[t.node[n].page][hash_strength]
       /\ t.node[m].hash_max = t.node[n].hash_max /\ t.node[m].hash_max # NoHash

LEMMA HeldUnderItsHash ==
  ASSUME NEW d \in Dbs, NEW T, NEW E, Sound(d, T, E), Roots,
         NEW h \in DOMAIN d.tree[stable_tree_index], NEW m \in d.tree[stable_tree_index][h].sub
  PROVE  /\ m \in DOMAIN d.node /\ d.node[m].tree_node = <<stable_tree_index, h>> /\ h \in Int
         /\ h = Hash[d.node[m].page][hash_strength]
<1>1. stable_tree_index \in {0, 1} /\ h \in Int
  BY DbFacts, TreeFacts DEF Roots
<1>2. m \in DOMAIN d.node /\ d.node[m].tree_node = <<stable_tree_index, h>>
  BY DEF Sound, Held
<1>3. StrengthOf(stable_tree_index) = hash_strength
  BY DEF StrengthOf, Roots, Rebuilding
<1> QED BY <1>1, <1>2, <1>3 DEF Sound, Pointed

LEMMA SoundOwn ==
  ASSUME NEW d \in Dbs, NEW T, Sound(d, T, {}), NEW n \in DOMAIN d.node, NEW h \in Int, NEW t,
         Roots, KeyOf(d, n, h), Elsewhere(d, n), h \notin DOMAIN d.tree[stable_tree_index],
         InOwnTreeNode(d, n, stable_tree_index, h, t)
  PROVE  t \in Dbs /\ Sound(t, T \ {n}, {}) /\ PlacedOrHidden(d, t, n, h)
<1> DEFINE e == NewTreeNode(d, stable_tree_index, h)
<1>1. /\ e \in Dbs /\ Sound(e, T, {} \cup {h}) /\ e.node = d.node
      /\ h \in DOMAIN e.tree[stable_tree_index] /\ e.tree[stable_tree_index][h].sub = {}
  BY SoundNewTreeNode
<1>2. CASE t = Unlinked(d, n)
  BY <1>2, SoundUnlinked DEF PlacedOrHidden
<1>3. CASE t = Link(e, n, stable_tree_index, h)
  <2> HIDE DEF e
  <2>1. n \in DOMAIN e.node /\ KeyOf(e, n, h) /\ Elsewhere(e, n) /\ ToldApart(e, n, h)
    BY <1>1, Zenon DEF KeyOf, Elsewhere, ToldApart
  <2>2. t \in Dbs /\ Sound(t, T \ {n}, ({} \cup {h}) \ {h}) /\ t.node[n].tree_node # Null
    BY <1>1, <1>3, <2>1, SoundLink, Zenon
  <2>3. ({} \cup {h}) \ {h} = {}
    OBVIOUS
  <2> QED BY <2>2, <2>3, Zenon DEF PlacedOrHidden
<1> QED BY <1>2, <1>3 DEF InOwnTreeNode, PlacedOrHidden

LEMMA SoundAmong ==
  ASSUME NEW d \in Dbs, NEW T, Sound(d, T, {}), NEW n \in DOMAIN d.node, NEW t,
         NEW h \in DOMAIN d.tree[stable_tree_index],
         Roots, KeyOf(d, n, h), Elsewhere(d, n), d.tree[stable_tree_index][h].count # 1,
         AmongSeveral(d, n, stable_tree_index, h, t)
  PROVE  t \in Dbs /\ Sound(t, T \ {n}, {}) /\ PlacedOrHidden(d, t, n, h)
<1> DEFINE e == WithHashMax(d, n, h)
           same == \E m \in d.tree[stable_tree_index][h].sub : e.node[m].hash_max = e.node[n].hash_max
<1>1. /\ e \in Dbs /\ Sound(e, T, {}) /\ NodesBut(d, e, n) /\ e.tree = d.tree
      /\ e.node[n].page = d.node[n].page /\ e.node[n].tree_node = d.node[n].tree_node
      /\ e.node[n].hash_max # NoHash
  BY SoundHash, ZenonT(60) DEF KeyOf
<1>2. t = IF same THEN Unlinked(e, n) ELSE Link(e, n, stable_tree_index, h)
  BY DEF AmongSeveral
<1> HIDE DEF e
<1>3. n \in DOMAIN e.node /\ KeyOf(e, n, h) /\ Elsewhere(e, n) /\ h \in DOMAIN e.tree[stable_tree_index]
  BY <1>1 DEF KeyOf, Elsewhere, NodesBut
<1>4. CASE same
  <2>1. /\ t \in Dbs /\ Sound(t, T \ {n}, {}) /\ NodesBut(e, t, n)
        /\ t.node[n].page = e.node[n].page /\ t.node[n].hash_max = e.node[n].hash_max
    BY <1>1, <1>2, <1>3, <1>4, SoundUnlinked
  <2>2. PICK m \in e.tree[stable_tree_index][h].sub : e.node[m].hash_max = e.node[n].hash_max
    BY <1>1, <1>4
  <2>3. /\ m \in DOMAIN e.node /\ e.node[m].tree_node = <<stable_tree_index, h>> /\ h \in Int
        /\ h = Hash[e.node[m].page][hash_strength]
    BY <1>1, <1>3, HeldUnderItsHash
  <2>4. m # n
    BY <1>3, <2>3, Zenon DEF Elsewhere
  <2>5. PlacedOrHidden(d, t, n, h)
    <3>1. m \in DOMAIN t.node \ {n} /\ t.node[m] = e.node[m]
      BY <2>1, <2>3, <2>4, Zenon DEF NodesBut
    <3>2. Hash[t.node[m].page][hash_strength] = h /\ Hash[t.node[n].page][hash_strength] = h
      BY <1>3, <2>1, <2>3, <3>1, Zenon DEF KeyOf
    <3>3. t.node[m].hash_max = t.node[n].hash_max /\ t.node[m].hash_max # NoHash
      BY <1>1, <2>1, <2>2, <3>1
    <3> QED BY <3>1, <3>2, <3>3, Zenon DEF PlacedOrHidden
  <2> QED BY <2>1, <2>5
<1>5. CASE ~same
  <2>1. e.tree[stable_tree_index][h].count > 1
    <3>1. e.tree[stable_tree_index][h].count \in Int
      BY <1>1, <1>3, FS_CardinalityType DEF Sound, Counted
    <3>2. e.tree[stable_tree_index][h].count > 0
      BY <1>1, <1>3 DEF Sound, Counted
    <3> QED BY <1>1, <3>1, <3>2
  <2>2. ToldApart(e, n, h)
    BY <1>1, <1>3, <1>5, <2>1 DEF ToldApart, Sound, Apart
  <2>3. t \in Dbs /\ Sound(t, T \ {n}, {} \ {h}) /\ t.node[n].tree_node # Null
    BY <1>1, <1>2, <1>3, <1>5, <2>2, SoundLink
  <2>4. {} \ {h} = {}
    OBVIOUS
  <2> QED BY <2>3, <2>4 DEF PlacedOrHidden
<1> QED BY <1>4, <1>5

LEMMA SoundBeside ==
  ASSUME NEW d \in Dbs, NEW T, Sound(d, T, {}), NEW n \in DOMAIN d.node, NEW t,
         NEW h \in DOMAIN d.tree[stable_tree_index], NEW m \in d.tree[stable_tree_index][h].sub,
         Roots, KeyOf(d, n, h), Elsewhere(d, n), d.tree[stable_tree_index][h].count = 1,
         BesideOne(d, n, m, stable_tree_index, h, t)
  PROVE  t \in Dbs /\ Sound(t, T \ {n}, {}) /\ PlacedOrHidden(d, t, n, h)
<1> DEFINE i == stable_tree_index
           e == WithHashMax(d, n, h)
           f == WithHashMax(e, m, h)
           g == Remove(e, m, TRUE, FALSE)
<1>1. /\ e \in Dbs /\ Sound(e, T, {}) /\ NodesBut(d, e, n) /\ e.tree = d.tree
      /\ e.node[n].page = d.node[n].page /\ e.node[n].tree_node = d.node[n].tree_node
      /\ e.node[n].hash_max # NoHash
  BY SoundHash, ZenonT(60) DEF KeyOf
<1>2. \/ t = Link(g, n, i, h)
      \/ t = IF f.node[n].hash_max = f.node[m].hash_max THEN Unlinked(f, n) ELSE Link(f, n, i, h)
  BY DEF BesideOne
<1> HIDE DEF e
<1>3. /\ n \in DOMAIN e.node /\ KeyOf(e, n, h) /\ Elsewhere(e, n)
      /\ h \in DOMAIN e.tree[i] /\ m \in e.tree[i][h].sub
  BY <1>1, Zenon DEF KeyOf, Elsewhere, NodesBut
<1>4. /\ m \in DOMAIN e.node /\ e.node[m].tree_node = <<i, h>> /\ h \in Int
      /\ h = Hash[e.node[m].page][hash_strength]
  BY <1>1, <1>3, HeldUnderItsHash, Zenon
<1>5. m # n
  BY <1>3, <1>4, Zenon DEF Elsewhere
<1>7. e.tree[i][h].sub = {m}
  <2>1. IsFiniteSet(e.tree[i][h].sub) /\ Cardinality(e.tree[i][h].sub) = 1
    BY <1>1, <1>3 DEF Sound, Counted
  <2>2. \E x : e.tree[i][h].sub = {x}
    BY <2>1, FS_Singleton
  <2> QED BY <1>3, <2>2
<1>8. ({} \cup {h}) \ {h} = {} /\ {} \ {h} = {}
  OBVIOUS
<1>9. CASE t = Link(g, n, i, h)
  <2>1. /\ g \in Dbs /\ NodesLess(e, g, m) /\ Sound(g, T, {} \cup {h})
        /\ h \in DOMAIN g.tree[i] /\ g.tree[i][h].sub = e.tree[i][h].sub \ {m}
    <3>1. g \in Dbs /\ NodesLess(e, g, m) /\ SoundWithout(e, g, m, h, FALSE, T, {})
      BY <1>1, <1>3, SoundRemoveHere, Zenon
    <3> HIDE DEF g
    <3> QED BY <3>1 DEF SoundWithout
  <2> HIDE DEF g
  <2>2. n \in DOMAIN g.node /\ KeyOf(g, n, h) /\ Elsewhere(g, n) /\ ToldApart(g, n, h)
    BY <1>3, <1>4, <1>5, <1>7, <2>1, Zenon DEF NodesLess, KeyOf, Elsewhere, ToldApart
  <2>3. t \in Dbs /\ Sound(t, T \ {n}, ({} \cup {h}) \ {h}) /\ t.node[n].tree_node # Null
    BY <1>9, <2>1, <2>2, SoundLink, Zenon
  <2> QED BY <1>8, <2>3 DEF PlacedOrHidden
<1>10. CASE t = IF f.node[n].hash_max = f.node[m].hash_max THEN Unlinked(f, n) ELSE Link(f, n, i, h)
  <2>1. /\ f \in Dbs /\ Sound(f, T, {}) /\ NodesBut(e, f, m) /\ f.tree = e.tree
        /\ f.node[m].hash_max # NoHash /\ f.node[m].page = e.node[m].page
    BY <1>1, <1>4, SoundHash, ZenonT(60)
  <2> HIDE DEF f
  <2>2. f.node[n] = e.node[n] /\ n \in DOMAIN f.node
    BY <1>3, <1>5, <2>1 DEF NodesBut
  <2>3. KeyOf(f, n, h) /\ Elsewhere(f, n) /\ h \in DOMAIN f.tree[i]
    BY <1>3, <2>1, <2>2, Zenon DEF KeyOf, Elsewhere
  <2>4. CASE f.node[n].hash_max = f.node[m].hash_max
    <3>1. /\ t \in Dbs /\ Sound(t, T \ {n}, {}) /\ NodesBut(f, t, n)
          /\ t.node[n].page = f.node[n].page /\ t.node[n].hash_max = f.node[n].hash_max
      BY <1>10, <2>1, <2>2, <2>3, <2>4, SoundUnlinked
    <3>2. PlacedOrHidden(d, t, n, h)
      <4>1. m \in DOMAIN t.node \ {n} /\ t.node[m] = f.node[m]
        BY <1>4, <1>5, <2>1, <3>1, Zenon DEF NodesBut
      <4>2. Hash[t.node[m].page][hash_strength] = h /\ Hash[t.node[n].page][hash_strength] = h
        BY <1>4, <2>1, <2>3, <3>1, <4>1, Zenon DEF KeyOf
      <4>3. t.node[m].hash_max = t.node[n].hash_max /\ t.node[m].hash_max # NoHash
        BY <2>1, <2>4, <3>1, <4>1
      <4> QED BY <4>1, <4>2, <4>3 DEF PlacedOrHidden
    <3> QED BY <3>1, <3>2
  <2>5. CASE f.node[n].hash_max # f.node[m].hash_max
    <3>1. ToldApart(f, n, h)
      BY <1>1, <1>7, <2>1, <2>2, <2>5 DEF ToldApart
    <3>2. t \in Dbs /\ Sound(t, T \ {n}, {} \ {h}) /\ t.node[n].tree_node # Null
      BY <1>10, <2>1, <2>2, <2>3, <2>5, <3>1, SoundLink, Zenon
    <3> QED BY <1>8, <3>2 DEF PlacedOrHidden
  <2> QED BY <2>4, <2>5
<1> QED BY <1>2, <1>9, <1>10

LEMMA SoundReinsert ==
  ASSUME NEW d \in Dbs, NEW T, Sound(d, T, {}), NEW n \in DOMAIN d.node, NEW t,
         Roots, Elsewhere(d, n),
         Reinsert(d, n, stable_tree_index, Hash[d.node[n].page][hash_strength], t)
  PROVE  /\ t \in Dbs /\ Sound(t, T \ {n}, {})
         /\ PlacedOrHidden(d, t, n, Hash[d.node[n].page][hash_strength])
<1> DEFINE h == Hash[d.node[n].page][hash_strength]
<1>1. h \in Int /\ KeyOf(d, n, h)
  BY NodeFacts, HashIsNat DEF Roots, KeyOf
<1>2. Reinsert(d, n, stable_tree_index, h, t)
  OBVIOUS
<1> HIDE DEF h
<1> SUFFICES t \in Dbs /\ Sound(t, T \ {n}, {}) /\ PlacedOrHidden(d, t, n, h)
  BY DEF h
<1>3. CASE h \notin DOMAIN d.tree[stable_tree_index] /\ InOwnTreeNode(d, n, stable_tree_index, h, t)
  BY <1>1, <1>3, SoundOwn
<1>4. ASSUME h \in DOMAIN d.tree[stable_tree_index], d.tree[stable_tree_index][h].count = 1,
             NEW m \in d.tree[stable_tree_index][h].sub,
             BesideOne(d, n, m, stable_tree_index, h, t)
      PROVE  t \in Dbs /\ Sound(t, T \ {n}, {}) /\ PlacedOrHidden(d, t, n, h)
  BY <1>1, <1>4, SoundBeside
<1>5. CASE /\ h \in DOMAIN d.tree[stable_tree_index] /\ d.tree[stable_tree_index][h].count # 1
           /\ AmongSeveral(d, n, stable_tree_index, h, t)
  BY <1>1, <1>5, SoundAmong
<1> QED BY <1>2, <1>3, <1>4, <1>5, Zenon DEF Reinsert

-----------------------------------------------------------------------------
(* The operations. *)

Alike(d, t) ==
  /\ t.list = d.list /\ t.tree = d.tree /\ DOMAIN t.node = DOMAIN d.node
  /\ \A k \in DOMAIN d.node : /\ t.node[k].page = d.node[k].page
                              /\ t.node[k].tree_node = d.node[k].tree_node
                              /\ t.node[k].hash_max = d.node[k].hash_max

LEMMA SoundAlike ==
  ASSUME NEW d, NEW t, NEW T, NEW E, Sound(d, T, E), Alike(d, t) PROVE Sound(t, T, E)
<1>1. Allocated(t, T) /\ Held(t) /\ Counted(t, E) /\ Hashed(t)
  BY DEF Alike, Sound, Allocated, Held, Counted, Hashed
<1>2. Pointed(t, T)
  BY DEF Alike, Sound, Pointed
<1>3. Apart(t)
  BY DEF Alike, Sound, Apart, Held
<1> QED BY <1>1, <1>2, <1>3 DEF Sound

LEMMA PlacesAre ==
  ASSUME NEW p \in Places PROVE p = Null \/ \E i \in {0, 1}, h \in Int : p = <<i, h>>
BY DEF Places

LEMMA ConsFacts ==
  ASSUME NEW s \in Seq(Nodes), Distinct(s), NEW n \in Nodes, n \notin Range(s)
  PROVE  /\ <<n>> \o s \in Seq(Nodes) /\ Distinct(<<n>> \o s)
         /\ Range(<<n>> \o s) = Range(s) \cup {n}
<1> DEFINE t == <<n>> \o s
<1>1. /\ t \in Seq(Nodes) /\ Len(s) \in Nat /\ Len(t) = Len(s) + 1 /\ t[1] = n
      /\ \A j \in 1 .. Len(s) : t[j + 1] = s[j]
  <2>1. <<n>> \in Seq(Nodes) /\ Len(<<n>>) = 1 /\ <<n>>[1] = n
    OBVIOUS
  <2>2. t \in Seq(Nodes) /\ Len(t) = 1 + Len(s) /\ Len(s) \in Nat
        /\ \A j \in 1 .. 1 + Len(s) : t[j] = IF j <= 1 THEN <<n>>[j] ELSE s[j - 1]
    BY <2>1, ConcatProperties, LenProperties
  <2> HIDE DEF t
  <2>3. t[1] = n
    BY <2>1, <2>2
  <2>4. ASSUME NEW j \in 1 .. Len(s) PROVE t[j + 1] = s[j]
    <3>1. j + 1 \in 1 .. 1 + Len(s) /\ ~(j + 1 <= 1) /\ (j + 1) - 1 = j
      BY <2>2
    <3> QED BY <2>2, <3>1
  <2> QED BY <2>2, <2>3, <2>4
<1> HIDE DEF t
<1>2. \A j \in 1 .. Len(t) : j # 1 => j - 1 \in 1 .. Len(s) /\ t[j] = s[j - 1]
  <2> SUFFICES ASSUME NEW j \in 1 .. Len(t), j # 1 PROVE j - 1 \in 1 .. Len(s) /\ t[j] = s[j - 1]
    OBVIOUS
  <2>1. j - 1 \in 1 .. Len(s) /\ (j - 1) + 1 = j
    BY <1>1
  <2> QED BY <1>1, <2>1
<1>3. Distinct(t)
  <2> SUFFICES ASSUME NEW i \in 1 .. Len(t), NEW j \in 1 .. Len(t), t[i] = t[j] PROVE i = j
    BY DEF Distinct
  <2>0. ASSUME NEW k \in 1 .. Len(t), k # 1 PROVE t[k] # n
    <3>1. k - 1 \in 1 .. Len(s) /\ t[k] = s[k - 1]
      BY <1>2, <2>0
    <3>2. s[k - 1] \in Range(s)
      BY <3>1, RangeFacts
    <3> QED BY <3>1, <3>2
  <2>1. CASE i = 1 \/ j = 1
    BY <1>1, <2>0, <2>1
  <2>2. CASE i # 1 /\ j # 1
    <3>1. i - 1 = j - 1
      BY <1>2, <2>2 DEF Distinct
    <3> QED BY <1>1, <3>1
  <2> QED BY <2>1, <2>2
<1>4. Range(t) \subseteq Range(s) \cup {n}
  <2> SUFFICES ASSUME NEW j \in 1 .. Len(t) PROVE t[j] \in Range(s) \cup {n}
    BY <1>1, RangeFacts
  <2> QED BY <1>1, <1>2, RangeFacts
<1>5. Range(s) \cup {n} \subseteq Range(t)
  <2>1. n \in Range(t)
    BY <1>1, RangeFacts
  <2>2. ASSUME NEW j \in 1 .. Len(s) PROVE s[j] \in Range(t)
    <3>1. j + 1 \in 1 .. Len(t) /\ t[j + 1] = s[j]
      BY <1>1
    <3> QED BY <1>1, <3>1, RangeFacts
  <2> QED BY <2>1, <2>2, RangeFacts
<1> QED BY <1>1, <1>3, <1>4, <1>5 DEF t

(* When the strengths and the trees keep their places, it is enough that db *)
(* is sound in the new state.                                               *)
LEMMA SameRoots ==
  ASSUME TInv, db' \in Dbs, Sound(db', Range(todo'), {}),
         UNCHANGED <<hash_strength, stable_tree_index, root_stable_treep, prev_hash_strength>>,
         todo' \in Seq(Nodes), Distinct(todo'), ~Rebuilding => todo' = <<>>
  PROVE  TInv'
<1>1. Roots'
  BY DEF TInv, Roots, Rebuilding
<1>2. Distinct(todo)'
  BY DEF Distinct
<1>3. Allocated(db, Range(todo))' /\ Held(db)' /\ Counted(db, {})' /\ Apart(db)'
  BY ZenonT(60) DEF Sound, Allocated, Held, Counted, Apart, Distinct, Range
<1>4. Hashed(db)'
  BY DEF Sound, Hashed, Full
<1>5. Pointed(db, Range(todo))'
  BY DEF Sound, Pointed, StrengthOf, Range
<1> QED BY <1>1, <1>2, <1>3, <1>4, <1>5 DEF TInv, Sound

LEMMA InitTInv == StableTreeInit => TInv
<1> SUFFICES ASSUME StableTreeInit PROVE TInv
  OBVIOUS
<1> DEFINE none == [n \in {} |-> 0]
<1>1. none \in NodeMaps /\ DOMAIN none = {}
  <2>1. none \in [{} -> NodeRec] /\ DOMAIN none = {}
    OBVIOUS
  <2> QED BY <2>1 DEF NodeMaps
<1>2. db = [list |-> <<>>, node |-> none, tree |-> [i \in {0, 1} |-> NoTree],
            uksm_pages_shared |-> 0, uksm_pages_sharing |-> 0]
  BY DEF StableTreeInit
<1> HIDE DEF none
<1>3. <<>> \in Seq(Nodes) /\ Distinct(<<>>) /\ Range(<<>>) = {}
  <2>1. <<>> \in Seq(Nodes) /\ Len(<<>>) = 0
    OBVIOUS
  <2>2. \A j \in 1 .. Len(<<>>) : FALSE
    BY <2>1
  <2> QED BY <2>1, <2>2, RangeFacts DEF Distinct
<1>4. [i \in {0, 1} |-> NoTree] \in [{0, 1} -> Trees]
  BY NoTreeIs
<1>5. db \in Dbs
  BY <1>1, <1>2, <1>3, <1>4 DEF Dbs
<1>6. db.list = <<>> /\ DOMAIN db.node = {} /\ \A i \in {0, 1} : DOMAIN db.tree[i] = {}
  BY <1>1, <1>2, NoTreeIs
<1>7. Roots
  BY DEF StableTreeInit, Roots, Rebuilding
<1>8. Sound(db, Range(todo), {})
  BY <1>3, <1>6, <1>7 DEF Sound, Allocated, Pointed, Held, Counted, Hashed, Apart, Roots, StableTreeInit
<1> QED BY <1>3, <1>5, <1>7, <1>8 DEF TInv, StableTreeInit

LEMMA BeginRebuildTInv ==
  ASSUME TInv, NEW s \in Strengths, BeginRebuild(s) PROVE TInv'
<1> DEFINE i == stable_tree_index
           T == [db.tree EXCEPT ![1 - i] = NoTree]
<1>1. /\ ~Rebuilding /\ prev_hash_strength' = hash_strength /\ hash_strength' = s
      /\ stable_tree_index' = 1 - i /\ root_stable_treep' = root_stable_treep
      /\ todo' = db.list /\ i \in {0, 1} /\ root_stable_treep = i
      /\ todo = <<>> /\ prev_hash_strength = hash_strength
  BY DEF BeginRebuild, TInv, Roots, Rebuilding
<1>2. db \in Dbs /\ Sound(db, Range(todo), {}) /\ Range(todo) = {}
  <2>1. \A j \in 1 .. Len(<<>>) : FALSE
    OBVIOUS
  <2> QED BY <1>1, <2>1, RangeFacts DEF TInv
<1>3. db' = [db EXCEPT !.tree = T]
  BY <1>2 DEF BeginRebuild, Dbs
<1>4. T \in [{0, 1} -> Trees] /\ T[1 - i] = NoTree /\ T[i] = db.tree[i]
  BY <1>1, NoTreeIs, DbFacts, <1>2
<1> HIDE DEF T
<1>5. db' \in Dbs /\ db'.tree = T /\ db'.node = db.node /\ db'.list = db.list
  BY <1>2, <1>3, <1>4, DbTreeIs
<1>6. DOMAIN db'.tree[stable_tree_index'] = {}
  BY <1>1, <1>4, <1>5, NoTreeIs
<1>7. Roots'
  BY <1>1 DEF TInv, Roots, Rebuilding
<1>8. Distinct(todo)' /\ Allocated(db, Range(todo))' /\ Hashed(db)'
  BY <1>1, <1>2, <1>5 DEF Sound, Allocated, Hashed, Full, Distinct, Range
<1>9. Held(db)' /\ Counted(db, {})' /\ Apart(db)'
  BY <1>6, Zenon DEF Held, Counted, Apart
<1>10. Pointed(db, Range(todo))'
  <2> SUFFICES ASSUME NEW k \in DOMAIN db'.node, NEW j \in {0, 1}, NEW g \in Int,
                      db'.node[k].tree_node = <<j, g>>
               PROVE  /\ g \in DOMAIN db'.tree[j] /\ k \in db'.tree[j][g].sub
                      /\ g = Hash[db'.node[k].page][StrengthOf(j)']
                      /\ j = stable_tree_index' <=> k \notin Range(todo')
    BY DEF Pointed, StrengthOf, Range
  <2>1. /\ g \in DOMAIN db.tree[j] /\ k \in db.tree[j][g].sub
        /\ g = Hash[db.node[k].page][StrengthOf(j)] /\ j = i
    BY <1>2, <1>5 DEF Sound, Pointed
  <2>2. StrengthOf(j)' = StrengthOf(j) /\ j # stable_tree_index'
    BY <1>1, <2>1 DEF StrengthOf
  <2>3. k \in Range(todo')
    BY <1>1, <1>2, <1>5 DEF Sound, Allocated
  <2> QED BY <1>4, <1>5, <2>1, <2>2, <2>3
<1>11. (todo \in Seq(Nodes))'
  BY <1>1, <1>2, DbFacts
<1> QED BY <1>5, <1>7, <1>8, <1>9, <1>10, <1>11 DEF TInv, Sound

LEMMA EndRebuildTInv ==
  ASSUME TInv, EndRebuild PROVE TInv'
<1> DEFINE i == stable_tree_index
           r == root_stable_treep
           T == [db.tree EXCEPT ![r] = NoTree]
<1>1. /\ i # r /\ prev_hash_strength' = hash_strength /\ hash_strength' = hash_strength
      /\ stable_tree_index' = i /\ root_stable_treep' = i
      /\ todo' = todo /\ todo = <<>> /\ i \in {0, 1} /\ r \in {0, 1}
  BY DEF EndRebuild, TInv, Roots, Rebuilding
<1>2. db \in Dbs /\ Sound(db, Range(todo), {}) /\ Range(todo) = {}
  <2>1. \A j \in 1 .. Len(<<>>) : FALSE
    OBVIOUS
  <2> QED BY <1>1, <2>1, RangeFacts DEF TInv
<1>3. db' = [db EXCEPT !.tree = T]
  BY <1>2 DEF EndRebuild, Dbs
<1>4. T \in [{0, 1} -> Trees] /\ T[i] = db.tree[i]
  BY <1>1, NoTreeIs, DbFacts, <1>2
<1> HIDE DEF T
<1>5. db' \in Dbs /\ db'.tree = T /\ db'.node = db.node /\ db'.list = db.list
  BY <1>2, <1>3, <1>4, DbTreeIs
<1>6. db'.tree[i] = db.tree[i]
  BY <1>4, <1>5
<1>7. Roots'
  BY <1>1 DEF TInv, Roots, Rebuilding
<1>8. Distinct(todo)' /\ Allocated(db, Range(todo))' /\ Hashed(db)'
  BY <1>1, <1>2, <1>5 DEF TInv, Sound, Allocated, Hashed, Full, Distinct, Range
<1>9. Held(db)' /\ Counted(db, {})' /\ Apart(db)'
  BY <1>1, <1>2, <1>5, <1>6, SMTT(30) DEF Sound, Held, Counted, Apart
<1>10. Pointed(db, Range(todo))'
  <2> SUFFICES ASSUME NEW k \in DOMAIN db'.node, NEW j \in {0, 1}, NEW g \in Int,
                      db'.node[k].tree_node = <<j, g>>
               PROVE  /\ g \in DOMAIN db'.tree[j] /\ k \in db'.tree[j][g].sub
                      /\ g = Hash[db'.node[k].page][StrengthOf(j)']
                      /\ j = stable_tree_index' <=> k \notin Range(todo')
    BY DEF Pointed, StrengthOf, Range
  <2>1. /\ g \in DOMAIN db.tree[j] /\ k \in db.tree[j][g].sub
        /\ g = Hash[db.node[k].page][StrengthOf(j)] /\ j = i
    BY <1>2, <1>5 DEF Sound, Pointed
  <2>2. StrengthOf(j)' = StrengthOf(j)
    BY <1>1, <2>1 DEF StrengthOf
  <2> QED BY <1>1, <1>2, <1>5, <1>6, <2>1, <2>2
<1>11. (todo \in Seq(Nodes))'
  BY <1>1 DEF TInv
<1> QED BY <1>5, <1>7, <1>8, <1>9, <1>10, <1>11 DEF TInv, Sound

(* The rebuild starts from the right hash: that of the old tree, extended   *)
(* or cut to the new strength.                                              *)
LEMMA RehashIsHash ==
  ASSUME TInv, Rebuilding, NEW n \in DOMAIN db.node, Elsewhere(db, n)
  PROVE  Rehash(n) = Hash[db.node[n].page][hash_strength]
<1>1. CASE db.node[n].tree_node = Null
  BY <1>1 DEF Rehash
<1>2. CASE db.node[n].tree_node # Null
  <2>1. db.node[n].tree_node \in Places
    BY NodeFacts DEF TInv
  <2>2. PICK j \in {0, 1}, g \in Int : db.node[n].tree_node = <<j, g>>
    BY <1>2, <2>1, PlacesAre
  <2>3. j = root_stable_treep
    BY <2>2 DEF Elsewhere, TInv, Roots, Rebuilding
  <2>4. g = Hash[db.node[n].page][prev_hash_strength]
    BY <2>2, <2>3 DEF TInv, Sound, Pointed, StrengthOf
  <2>5. db.node[n].tree_node[2] = g
    BY <2>2
  <2> QED BY <1>2, <2>4, <2>5 DEF Rehash, DeltaHash
<1> QED BY <1>1, <1>2

LEMMA RebuildNodeTInv ==
  ASSUME TInv, RebuildNode PROVE TInv'
<1> DEFINE n == Head(todo)
           T == Range(todo)
<1>1. /\ Rebuilding /\ todo # <<>> /\ todo' = Tail(todo)
      /\ UNCHANGED <<hash_strength, stable_tree_index, root_stable_treep, prev_hash_strength>>
      /\ \/ db' = Remove(db, n, FALSE, FALSE)
         \/ Reinsert(db, n, stable_tree_index, Rehash(n), db')
  BY DEF RebuildNode
<1>2. /\ db \in Dbs /\ Sound(db, T, {}) /\ Roots /\ todo \in Seq(Nodes) /\ Distinct(todo)
  BY DEF TInv
<1>3. n \in T /\ Tail(todo) \in Seq(Nodes) /\ Distinct(Tail(todo)) /\ Range(Tail(todo)) = T \ {n}
  BY <1>1, <1>2, TailFacts
<1>4. n \in DOMAIN db.node
  BY <1>2, <1>3 DEF Sound, Allocated
<1>5. Elsewhere(db, n)
  BY <1>2, <1>3, <1>4 DEF Sound, Pointed, Elsewhere, Roots
<1> HIDE DEF n, T
<1>6. db' \in Dbs /\ Sound(db', T \ {n}, {})
  <2>1. CASE db' = Remove(db, n, FALSE, FALSE)
    BY <1>2, <1>4, <1>5, <2>1, SoundRemoveElsewhere
  <2>2. CASE Reinsert(db, n, stable_tree_index, Rehash(n), db')
    <3>1. Rehash(n) = Hash[db.node[n].page][hash_strength]
      BY <1>1, <1>4, <1>5, RehashIsHash
    <3>2. Reinsert(db, n, stable_tree_index, Hash[db.node[n].page][hash_strength], db')
      BY <2>2, <3>1
    <3> QED BY <1>2, <1>4, <1>5, <3>2, SoundReinsert
  <2> QED BY <1>1, <2>1, <2>2
<1> QED BY <1>1, <1>3, <1>6, SameRoots

(* Between rebuilds there is nothing to visit. *)
LEMMA AtRest ==
  ASSUME TInv, ~Rebuilding
  PROVE  /\ db \in Dbs /\ Sound(db, {}, {}) /\ Roots /\ todo = <<>> /\ Range(todo) = {}
<1>1. todo = <<>>
  BY DEF TInv, Roots
<1>2. Range(todo) = {}
  <2>1. \A j \in 1 .. Len(<<>>) : FALSE
    OBVIOUS
  <2> QED BY <1>1, <2>1, RangeFacts DEF TInv
<1> QED BY <1>1, <1>2 DEF TInv

LEMMA SameRest ==
  ASSUME TInv, ~Rebuilding, UNCHANGED StrengthsAndRoots, db' \in Dbs, Sound(db', {}, {})
  PROVE  TInv'
<1>1. Range(todo') = {} /\ todo' = <<>> /\ Distinct(todo') /\ todo' \in Seq(Nodes)
  BY AtRest DEF StrengthsAndRoots, TInv
<1>2. UNCHANGED <<hash_strength, stable_tree_index, root_stable_treep, prev_hash_strength>>
  BY DEF StrengthsAndRoots
<1>3. Sound(db', Range(todo'), {})
  BY <1>1
<1> QED BY <1>1, <1>2, <1>3, SameRoots

(* What InsertNode gives to stable_node_reinsert: db with a new node, in no *)
(* tree yet, its full hash computed or not.                                 *)
Inserted(n, c, max) ==
  [db EXCEPT !.list = <<n>> \o db.list,
             !.node = With(db.node, n, [page |-> c, mapped |-> TRUE, hash_max |-> max,
                                        tree_node |-> Null, rmaps |-> 0])]

LEMMA InsertedSound ==
  ASSUME TInv, NEW n \in Nodes, NEW c \in Contents, InsertNode(n, c)
  PROVE  \E max \in {NoHash, Full(c)} :
         LET d == Inserted(n, c, max)
         IN  /\ d \in Dbs /\ Sound(d, {}, {}) /\ n \in DOMAIN d.node /\ Elsewhere(d, n)
             /\ Reinsert(d, n, stable_tree_index, Hash[d.node[n].page][hash_strength], db')
             /\ DOMAIN d.node = DOMAIN db.node \cup {n} /\ n \notin DOMAIN db.node
             /\ d.node[n].rmaps = 0
             /\ \A k \in DOMAIN db.node : d.node[k] = db.node[k]
<1>1. ~Rebuilding /\ n \notin Range(db.list) /\ UNCHANGED StrengthsAndRoots
  BY DEF InsertNode, Listed
<1>2. db \in Dbs /\ Sound(db, {}, {}) /\ Roots
  BY <1>1, AtRest
<1>3. PICK max \in {NoHash, Full(c)} :
        Reinsert(Inserted(n, c, max), n, stable_tree_index, Hash[c][hash_strength], db')
  BY <1>2, FullFacts DEF InsertNode, Inserted, Dbs, Roots
<1> DEFINE r == [page |-> c, mapped |-> TRUE, hash_max |-> max, tree_node |-> Null, rmaps |-> 0]
           s == <<n>> \o db.list
           m == With(db.node, n, r)
           d == Inserted(n, c, max)
<1>14. Reinsert(d, n, stable_tree_index, Hash[c][hash_strength], db')
  BY <1>3
<1>4. /\ r \in NodeRec /\ r.page = c /\ r.hash_max \in {NoHash, Full(c)}
      /\ r.tree_node = Null /\ r.rmaps = 0
  <2>1. Full(c) \in Int
    BY HashIsNat, HashAssumption DEF Full
  <2> QED BY <2>1 DEF NodeRec, Places, NoHash
<1> HIDE DEF r
<1>5. s \in Seq(Nodes) /\ Distinct(s) /\ Range(s) = Range(db.list) \cup {n}
  BY <1>1, <1>2, DbFacts, ConsFacts DEF Sound, Allocated
<1>6. /\ m \in NodeMaps /\ DOMAIN m = DOMAIN db.node \cup {n} /\ m[n] = r
      /\ \A k \in DOMAIN db.node : k # n => m[k] = db.node[k]
  BY <1>2, <1>4, DbFacts, NodeMapWith, ZenonT(60)
<1> HIDE DEF s, m
<1>12. d = [db EXCEPT !.list = s, !.node = m]
  BY Zenon DEF Inserted, r, s, m
<1>7. d \in Dbs /\ d.tree = db.tree /\ d.node = m /\ d.list = s
  BY <1>2, <1>5, <1>6, <1>12 DEF Dbs
<1> HIDE DEF d
<1>8. n \notin DOMAIN db.node
  BY <1>1, <1>2 DEF Sound, Allocated
<1>9. Sound(d, {}, {})
  <2>1. Allocated(d, {}) /\ Counted(d, {})
    BY <1>2, <1>5, <1>6, <1>7 DEF Sound, Allocated, Counted
  <2>2. Pointed(d, {})
    <3>1. \A k \in DOMAIN d.node : \A i \in {0, 1} : \A h \in Int :
            d.node[k].tree_node = <<i, h>> => k \in DOMAIN db.node /\ d.node[k] = db.node[k]
      BY <1>4, <1>6, <1>7, PlaceIsNotNull
    <3> QED BY <1>2, <1>7, <3>1 DEF Sound, Pointed
  <2>3. Held(d)
    BY <1>2, <1>6, <1>7, <1>8 DEF Sound, Held
  <2>4. Hashed(d)
    BY <1>2, <1>4, <1>6, <1>7 DEF Sound, Hashed
  <2>5. Apart(d)
    BY <1>2, <1>6, <1>7, <1>8 DEF Sound, Held, Apart
  <2> QED BY <2>1, <2>2, <2>3, <2>4, <2>5 DEF Sound
<1>10. n \in DOMAIN d.node /\ Elsewhere(d, n) /\ d.node[n].page = c
  BY <1>4, <1>6, <1>7, PlaceIsNotNull DEF Elsewhere
<1>11. Reinsert(d, n, stable_tree_index, Hash[d.node[n].page][hash_strength], db')
  BY <1>10, <1>14
<1>13. /\ DOMAIN d.node = DOMAIN db.node \cup {n} /\ d.node[n].rmaps = 0
       /\ \A k \in DOMAIN db.node : d.node[k] = db.node[k]
  BY <1>4, <1>6, <1>7, <1>8
<1> QED BY <1>7, <1>8, <1>9, <1>10, <1>11, <1>13, Zenon DEF d

LEMMA InsertNodeTInv ==
  ASSUME TInv, NEW n \in Nodes, NEW c \in Contents, InsertNode(n, c) PROVE TInv'
<1> PICK max \in {NoHash, Full(c)} :
       LET d == Inserted(n, c, max)
       IN  /\ d \in Dbs /\ Sound(d, {}, {}) /\ n \in DOMAIN d.node /\ Elsewhere(d, n)
           /\ Reinsert(d, n, stable_tree_index, Hash[d.node[n].page][hash_strength], db')
  BY InsertedSound
<1> DEFINE d == Inserted(n, c, max)
<1>1. ~Rebuilding /\ UNCHANGED StrengthsAndRoots /\ Roots
  BY AtRest DEF InsertNode
<1>2. /\ d \in Dbs /\ Sound(d, {}, {}) /\ n \in DOMAIN d.node /\ Elsewhere(d, n)
      /\ Reinsert(d, n, stable_tree_index, Hash[d.node[n].page][hash_strength], db')
  OBVIOUS
<1> HIDE DEF d
<1>3. db' \in Dbs /\ Sound(db', {} \ {n}, {}) /\ {} \ {n} = {}
  BY <1>1, <1>2, SoundReinsert
<1> QED BY <1>1, <1>3, SameRest

LEMMA ShareNodeTInv ==
  ASSUME TInv, NEW n \in Listed, ShareNode(n) PROVE TInv'
<1> DEFINE r == [db.node[n] EXCEPT !.rmaps = @ + 1]
           m == [db.node EXCEPT ![n] = r]
           a == IF db.node[n].rmaps = 0 THEN db.uksm_pages_shared + 1 ELSE db.uksm_pages_shared
           b == IF db.node[n].rmaps = 0 THEN db.uksm_pages_sharing ELSE db.uksm_pages_sharing + 1
<1>1. ~Rebuilding /\ UNCHANGED StrengthsAndRoots
  BY DEF ShareNode
<1>2. db \in Dbs /\ Sound(db, {}, {}) /\ n \in DOMAIN db.node
  BY <1>1, AtRest DEF Listed, Sound, Allocated
<1>3. db.node \in NodeMaps /\ db.node[n] \in NodeRec /\ a \in Int /\ b \in Int
  BY <1>2, DbFacts, NodeMapFacts
<1>4. db' = [db EXCEPT !.node = m, !.uksm_pages_shared = a, !.uksm_pages_sharing = b]
  BY <1>2, <1>3 DEF ShareNode, Dbs
<1>5. r \in NodeRec /\ r.page = db.node[n].page /\ r.tree_node = db.node[n].tree_node
      /\ r.hash_max = db.node[n].hash_max
  <2>1. db.node[n].rmaps + 1 \in Nat
    BY <1>3, NodeRecFacts
  <2> QED BY <1>3, <2>1 DEF NodeRec
<1> HIDE DEF r, a, b
<1>6. m \in NodeMaps /\ DOMAIN m = DOMAIN db.node /\ m[n] = r
      /\ \A k \in DOMAIN db.node : k # n => m[k] = db.node[k]
  BY <1>2, <1>3, <1>5, NodeMapExcept
<1> HIDE DEF m
<1>7. db' \in Dbs /\ db'.tree = db.tree /\ db'.node = m /\ db'.list = db.list
  BY <1>2, <1>3, <1>4, <1>6 DEF Dbs
<1>8. Alike(db, db')
  BY <1>5, <1>6, <1>7 DEF Alike
<1>9. Sound(db', {}, {})
  BY <1>2, <1>8, SoundAlike
<1> QED BY <1>1, <1>7, <1>9, SameRest

LEMMA FreePageTInv ==
  ASSUME TInv, NEW n \in Listed, FreePage(n) PROVE TInv'
<1> DEFINE r == [db.node[n] EXCEPT !.mapped = FALSE]
           m == [db.node EXCEPT ![n] = r]
<1>1. db \in Dbs /\ Sound(db, Range(todo), {}) /\ n \in DOMAIN db.node
  BY DEF Listed, TInv, Sound, Allocated
<1>2. db.node \in NodeMaps /\ db.node[n] \in NodeRec
  BY <1>1, DbFacts, NodeMapFacts
<1>3. db' = [db EXCEPT !.node = m]
  BY <1>1, <1>2 DEF FreePage, Dbs
<1>4. r \in NodeRec /\ r.page = db.node[n].page /\ r.tree_node = db.node[n].tree_node
      /\ r.hash_max = db.node[n].hash_max
  BY <1>2 DEF NodeRec
<1> HIDE DEF r
<1>5. m \in NodeMaps /\ DOMAIN m = DOMAIN db.node /\ m[n] = r
      /\ \A k \in DOMAIN db.node : k # n => m[k] = db.node[k]
  BY <1>1, <1>2, <1>4, NodeMapExcept
<1> HIDE DEF m
<1>6. db' \in Dbs /\ db'.tree = db.tree /\ db'.node = m /\ db'.list = db.list
  BY <1>1, <1>3, <1>5, DbNodeIs
<1>7. Alike(db, db')
  BY <1>4, <1>5, <1>6 DEF Alike
<1>8. Sound(db', Range(todo), {})
  BY <1>1, <1>7, SoundAlike
<1>9. UNCHANGED <<hash_strength, stable_tree_index, root_stable_treep, prev_hash_strength, todo>>
  BY DEF FreePage, StrengthsAndRoots
<1>10. /\ Sound(db', Range(todo'), {}) /\ todo' \in Seq(Nodes) /\ Distinct(todo')
       /\ ~Rebuilding => todo' = <<>>
  BY <1>8, <1>9 DEF TInv, Roots
<1> QED BY <1>6, <1>9, <1>10, SameRoots

LEMMA DropStaleTInv ==
  ASSUME TInv, NEW n \in Listed, DropStale(n) PROVE TInv'
<1>1. ~Rebuilding /\ UNCHANGED StrengthsAndRoots /\ db' = Remove(db, n, TRUE, TRUE)
  BY DEF DropStale
<1>2. db \in Dbs /\ Sound(db, {}, {}) /\ Roots /\ n \in DOMAIN db.node
  BY <1>1, AtRest DEF Listed, Sound, Allocated
<1>3. CASE db.node[n].tree_node = Null
  <2>1. Elsewhere(db, n)
    BY <1>3, PlaceIsNotNull DEF Elsewhere
  <2>2. db' \in Dbs /\ Sound(db', {} \ {n}, {}) /\ {} \ {n} = {}
    BY <1>1, <1>2, <1>3, <2>1, SoundRemoveElsewhere
  <2> QED BY <1>1, <2>2, SameRest
<1>4. CASE db.node[n].tree_node # Null
  <2>1. PICK i \in {0, 1}, h \in Int : db.node[n].tree_node = <<i, h>>
    BY <1>2, <1>4, NodeFacts, PlacesAre
  <2>2. i = stable_tree_index /\ h \in DOMAIN db.tree[stable_tree_index]
        /\ n \in db.tree[stable_tree_index][h].sub
    BY <1>2, <2>1 DEF Sound, Pointed
  <2>3. db' \in Dbs /\ SoundWithout(db, db', n, h, TRUE, {}, {})
    BY <1>1, <1>2, <2>2, SoundRemoveHere
  <2>4. Sound(db', {}, {})
    BY <2>3 DEF SoundWithout
  <2> QED BY <1>1, <2>3, <2>4, SameRest
<1> QED BY <1>3, <1>4

LEMMA StutterTInv == ASSUME TInv, UNCHANGED treeVars PROVE TInv'
<1>1. UNCHANGED <<hash_strength, stable_tree_index, root_stable_treep, prev_hash_strength, todo, db>>
  BY DEF treeVars
<1>2. db' \in Dbs /\ Sound(db', Range(todo'), {}) /\ todo' \in Seq(Nodes) /\ Distinct(todo')
      /\ (~Rebuilding => todo' = <<>>)
  BY <1>1 DEF TInv, Roots
<1> QED BY <1>1, <1>2, SameRoots

LEMMA NextTInv == TInv /\ [StableTreeNext]_treeVars => TInv'
<1> SUFFICES ASSUME TInv, [StableTreeNext]_treeVars PROVE TInv'
  OBVIOUS
<1>1. ASSUME NEW s \in Strengths, BeginRebuild(s) PROVE TInv'
  BY <1>1, BeginRebuildTInv
<1>2. CASE RebuildNode
  BY <1>2, RebuildNodeTInv
<1>3. CASE EndRebuild
  BY <1>3, EndRebuildTInv
<1>4. ASSUME NEW n \in Nodes, NEW c \in Contents, InsertNode(n, c) PROVE TInv'
  BY <1>4, InsertNodeTInv
<1>5. ASSUME NEW n \in Listed, ShareNode(n) PROVE TInv'
  BY <1>5, ShareNodeTInv
<1>6. ASSUME NEW n \in Listed, FreePage(n) PROVE TInv'
  BY <1>6, FreePageTInv
<1>7. ASSUME NEW n \in Listed, DropStale(n) PROVE TInv'
  BY <1>7, DropStaleTInv
<1>8. CASE UNCHANGED treeVars
  BY <1>8, StutterTInv
<1> QED BY <1>1, <1>2, <1>3, <1>4, <1>5, <1>6, <1>7, <1>8 DEF StableTreeNext

LEMMA TreeInvariant == StableTreeSpec => []TInv
<1> QED BY InitTInv, NextTInv, PTL DEF StableTreeSpec

-----------------------------------------------------------------------------
(* The published counters. *)

Balanced(d) ==
  /\ IsFiniteSet(Shared(d)) /\ IsFiniteSet(Mappings(d))
  /\ d.uksm_pages_shared = Cardinality(Shared(d))
  /\ d.uksm_pages_shared + d.uksm_pages_sharing = Cardinality(Mappings(d))

SameMappings(d, t) ==
  /\ DOMAIN t.node = DOMAIN d.node
  /\ \A k \in DOMAIN d.node : t.node[k].rmaps = d.node[k].rmaps
  /\ t.uksm_pages_shared = d.uksm_pages_shared
  /\ t.uksm_pages_sharing = d.uksm_pages_sharing

LEMMA MappingIs ==
  ASSUME NEW d, NEW p
  PROVE  p \in Mappings(d) <=>
           \E n \in DOMAIN d.node : \E k \in 1 .. d.node[n].rmaps : p = <<n, k>>
BY DEF Mappings

LEMMA SameBalance ==
  ASSUME NEW d, NEW t, Balanced(d), SameMappings(d, t) PROVE Balanced(t)
<1>1. Shared(t) = Shared(d)
  BY DEF Shared, SameMappings
<1>2. Mappings(t) = Mappings(d)
  <2>1. ASSUME NEW p PROVE p \in Mappings(t) <=> p \in Mappings(d)
    <3>1. p \in Mappings(t) <=>
            \E n \in DOMAIN t.node : \E k \in 1 .. t.node[n].rmaps : p = <<n, k>>
      BY MappingIs
    <3>2. p \in Mappings(d) <=>
            \E n \in DOMAIN d.node : \E k \in 1 .. d.node[n].rmaps : p = <<n, k>>
      BY MappingIs
    <3> QED BY <3>1, <3>2 DEF SameMappings
  <2> QED BY <2>1
<1> QED BY <1>1, <1>2 DEF Balanced, SameMappings

LEMMA LinkMappings ==
  ASSUME NEW d \in Dbs, NEW n \in DOMAIN d.node, NEW i, NEW h
  PROVE  SameMappings(d, Link(d, n, i, h))
<1>1. d.node \in NodeMaps /\ d.node[n] \in NodeRec
  BY DbFacts, NodeMapFacts
<1>2. Link(d, n, i, h).node = [d.node EXCEPT ![n].tree_node = <<i, h>>]
  BY DEF Link, Dbs
<1>3. /\ Link(d, n, i, h).uksm_pages_shared = d.uksm_pages_shared
      /\ Link(d, n, i, h).uksm_pages_sharing = d.uksm_pages_sharing
  BY DEF Link, Dbs
<1>4. [d.node EXCEPT ![n].tree_node = <<i, h>>][n].rmaps = d.node[n].rmaps
  BY <1>1 DEF NodeRec
<1> QED BY <1>2, <1>3, <1>4 DEF SameMappings

LEMMA UnlinkedMappings ==
  ASSUME NEW d \in Dbs, NEW n \in DOMAIN d.node
  PROVE  SameMappings(d, Unlinked(d, n))
<1>1. d.node \in NodeMaps /\ d.node[n] \in NodeRec
  BY DbFacts, NodeMapFacts
<1> QED BY <1>1 DEF Unlinked, Dbs, NodeRec, SameMappings

LEMMA NewTreeNodeMappings ==
  ASSUME NEW d \in Dbs, NEW i, NEW h
  PROVE  SameMappings(d, NewTreeNode(d, i, h))
BY DEF NewTreeNode, Dbs, SameMappings

LEMMA WithHashMaxMappings ==
  ASSUME NEW d \in Dbs, NEW n \in DOMAIN d.node, NEW h
  PROVE  SameMappings(d, WithHashMax(d, n, h))
<1>1. d.node \in NodeMaps /\ d.node[n] \in NodeRec
  BY DbFacts, NodeMapFacts
<1> QED BY <1>1 DEF WithHashMax, Dbs, NodeRec, SameMappings

(* remove_node_from_stable_tree gives back a page and its mappings. *)
LEMMA RemoveFreesMappings ==
  ASSUME NEW d \in Dbs, NEW n \in DOMAIN d.node, NEW U \in BOOLEAN, NEW R \in BOOLEAN
  PROVE  LET t == Remove(d, n, U, R)
             r == d.node[n].rmaps
         IN  /\ DOMAIN t.node = DOMAIN d.node \ {n}
             /\ \A k \in DOMAIN d.node \ {n} : t.node[k] = d.node[k]
             /\ t.uksm_pages_shared = IF r = 0 THEN d.uksm_pages_shared
                                      ELSE d.uksm_pages_shared - 1
             /\ t.uksm_pages_sharing = IF r = 0 THEN d.uksm_pages_sharing
                                       ELSE (d.uksm_pages_sharing - r) + 1
<1> DEFINE t == Remove(d, n, U, R)
           s == Unshare(d, n)
           u == IF d.node[n].tree_node # Null /\ U THEN Unlink(s, n, R) ELSE s
           m == Restrict(d.node, DOMAIN d.node \ {n})
<1>1. /\ s \in Dbs /\ s.node = d.node
      /\ s.uksm_pages_shared = IF d.node[n].rmaps = 0 THEN d.uksm_pages_shared
                               ELSE d.uksm_pages_shared - 1
      /\ s.uksm_pages_sharing = IF d.node[n].rmaps = 0 THEN d.uksm_pages_sharing
                                ELSE (d.uksm_pages_sharing - d.node[n].rmaps) + 1
  <2>1. s \in Dbs /\ s.node = d.node
    BY UnshareEffect
  <2> QED BY <2>1 DEF Unshare, Dbs
<1> HIDE DEF s
<1>2. /\ DOMAIN u = DOMAIN s /\ u.node = s.node
      /\ u.uksm_pages_shared = s.uksm_pages_shared
      /\ u.uksm_pages_sharing = s.uksm_pages_sharing
  BY <1>1, Zenon DEF Unlink, Dbs
<1>3. t = [u EXCEPT !.node = Restrict(@, DOMAIN @ \ {n}), !.list = Without(@, n)]
  BY DEF Remove, s
<1> HIDE DEF u
<1>4. /\ t.node = Restrict(u.node, DOMAIN u.node \ {n})
      /\ t.uksm_pages_shared = u.uksm_pages_shared
      /\ t.uksm_pages_sharing = u.uksm_pages_sharing
  BY <1>1, <1>2, <1>3 DEF Dbs
<1>5. DOMAIN m = DOMAIN d.node \ {n} /\ \A k \in DOMAIN d.node \ {n} : m[k] = d.node[k]
  BY DbFacts, NodeMapRestrict, Zenon
<1> HIDE DEF m, t
<1> QED BY <1>1, <1>2, <1>4, <1>5, ZenonT(30) DEF m, t

LEMMA RemoveBalance ==
  ASSUME NEW d \in Dbs, NEW n \in DOMAIN d.node, NEW U \in BOOLEAN, NEW R \in BOOLEAN,
         Balanced(d)
  PROVE  Balanced(Remove(d, n, U, R))
<1> DEFINE t == Remove(d, n, U, R)
           r == d.node[n].rmaps
           own == {n} \X (1 .. r)
<1>1. r \in Nat /\ d.uksm_pages_shared \in Int /\ d.uksm_pages_sharing \in Int
  BY NodeFacts, DbFacts
<1>2. /\ DOMAIN t.node = DOMAIN d.node \ {n}
      /\ \A k \in DOMAIN d.node \ {n} : t.node[k] = d.node[k]
      /\ t.uksm_pages_shared = IF r = 0 THEN d.uksm_pages_shared ELSE d.uksm_pages_shared - 1
      /\ t.uksm_pages_sharing = IF r = 0 THEN d.uksm_pages_sharing
                                ELSE (d.uksm_pages_sharing - r) + 1
  BY RemoveFreesMappings
<1> HIDE DEF t
<1>3. Shared(t) = Shared(d) \ {n} /\ (n \in Shared(d) <=> r # 0)
  BY <1>1, <1>2 DEF Shared
<1>4. Mappings(t) = Mappings(d) \ own /\ Mappings(d) \cap own = own
  <2>1. \A p : p \in Mappings(t) <=> p \in Mappings(d) /\ p \notin own
    <3> SUFFICES ASSUME NEW p PROVE p \in Mappings(t) <=> p \in Mappings(d) /\ p \notin own
      OBVIOUS
    <3>1. p \in own <=> \E k \in 1 .. r : p = <<n, k>>
      OBVIOUS
    <3> QED BY <1>2, <3>1, MappingIs
  <2>2. \A p \in own : p \in Mappings(d)
    BY MappingIs
  <2> QED BY <2>1, <2>2
<1>5. IsFiniteSet(own) /\ Cardinality(own) = r
  <2>1. IsFiniteSet({n}) /\ Cardinality({n}) = 1
    BY FS_Singleton
  <2>2. IsFiniteSet(1 .. r) /\ Cardinality(1 .. r) = r
    <3>1. 1 \in Int /\ r \in Int
      BY <1>1
    <3>2. IsFiniteSet(1 .. r) /\ Cardinality(1 .. r) = IF 1 > r THEN 0 ELSE r - 1 + 1
      BY <3>1, FS_Interval
    <3> QED BY <1>1, <3>2
  <2>3. IsFiniteSet(own) /\ Cardinality(own) = Cardinality({n}) * Cardinality(1 .. r)
    BY <2>1, <2>2, FS_Product
  <2> QED BY <1>1, <2>1, <2>2, <2>3
<1> HIDE DEF own, r
<1>6. /\ IsFiniteSet(Shared(t))
      /\ Cardinality(Shared(t)) = IF r = 0 THEN Cardinality(Shared(d)) ELSE Cardinality(Shared(d)) - 1
  BY <1>3, FS_RemoveElement DEF Balanced
<1>7. IsFiniteSet(Mappings(t)) /\ Cardinality(Mappings(t)) = Cardinality(Mappings(d)) - r
  <2>1. IsFiniteSet(Mappings(d))
    BY DEF Balanced
  <2>2. /\ IsFiniteSet(Mappings(d) \ own)
        /\ Cardinality(Mappings(d) \ own) =
             Cardinality(Mappings(d)) - Cardinality(Mappings(d) \cap own)
    BY <2>1, FS_Difference
  <2> QED BY <1>4, <1>5, <2>2
<1>8. t.uksm_pages_shared = Cardinality(Shared(t))
  BY <1>2, <1>6 DEF Balanced
<1>9. t.uksm_pages_shared + t.uksm_pages_sharing = Cardinality(Mappings(t))
  BY <1>1, <1>2, <1>7 DEF Balanced
<1> QED BY <1>6, <1>7, <1>8, <1>9 DEF Balanced, t

LEMMA ReinsertBalance ==
  ASSUME NEW d \in Dbs, NEW T, Sound(d, T, {}), NEW n \in DOMAIN d.node, NEW t, Roots,
         Balanced(d), Elsewhere(d, n),
         Reinsert(d, n, stable_tree_index, Hash[d.node[n].page][hash_strength], t)
  PROVE  Balanced(t)
<1> DEFINE i == stable_tree_index
           h == Hash[d.node[n].page][hash_strength]
           e == WithHashMax(d, n, h)
<1>1. h \in Int /\ hash_strength \in Strengths /\ i \in {0, 1}
  BY NodeFacts, HashIsNat DEF Roots
<1>2. Reinsert(d, n, i, h, t)
  OBVIOUS
<1>3. /\ e \in Dbs /\ n \in DOMAIN e.node /\ DOMAIN e.node = DOMAIN d.node /\ Balanced(e)
      /\ e.tree = d.tree /\ Sound(e, T, {})
  <2>1. Balanced(e)
    <3>1. SameMappings(d, e)
      BY WithHashMaxMappings
    <3> QED BY <3>1, SameBalance
  <2>2. e \in Dbs /\ NodesBut(d, e, n) /\ e.tree = d.tree /\ Sound(e, T, {})
    BY SoundHash, Zenon
  <2> QED BY <2>1, <2>2, Zenon DEF NodesBut
<1> HIDE DEF h
<1>4. ASSUME NEW x \in Dbs, n \in DOMAIN x.node, Balanced(x)
      PROVE  Balanced(Link(x, n, i, h)) /\ Balanced(Unlinked(x, n))
  BY <1>4, LinkMappings, UnlinkedMappings, SameBalance, Zenon
<1>5. CASE InOwnTreeNode(d, n, i, h, t)
  <2>1. /\ NewTreeNode(d, i, h) \in Dbs /\ NewTreeNode(d, i, h).node = d.node
        /\ Balanced(NewTreeNode(d, i, h))
    BY <1>1, NewTreeNodeEffect, NewTreeNodeMappings, SameBalance, ZenonT(30)
  <2>2. n \in DOMAIN NewTreeNode(d, i, h).node
    BY <2>1
  <2>3. Balanced(Link(NewTreeNode(d, i, h), n, i, h)) /\ Balanced(Unlinked(d, n))
    BY <1>4, <2>1, <2>2, Zenon
  <2> QED BY <1>5, <2>3, Zenon DEF InOwnTreeNode
<1>6. CASE AmongSeveral(d, n, i, h, t)
  BY <1>3, <1>4, <1>6, Zenon DEF AmongSeveral
<1>7. ASSUME h \in DOMAIN d.tree[i], NEW m \in d.tree[i][h].sub, BesideOne(d, n, m, i, h, t)
      PROVE  Balanced(t)
  <2> DEFINE f == WithHashMax(e, m, h)
             g == Remove(e, m, TRUE, FALSE)
  <2>1. m \in DOMAIN d.node /\ d.node[m].tree_node = <<i, h>>
    BY <1>7, Zenon DEF Sound, Held
  <2>2. m \in DOMAIN e.node /\ m # n
    <3>1. d.node[n].tree_node # <<i, h>>
      BY <1>1, Zenon DEF Elsewhere
    <3> QED BY <1>3, <2>1, <3>1, Zenon
  <2>3. \/ t = Link(g, n, i, h) \/ t = Unlinked(f, n) \/ t = Link(f, n, i, h)
    BY <1>7, Zenon DEF BesideOne
  <2> HIDE DEF e
  <2>4. f \in Dbs /\ n \in DOMAIN f.node /\ Balanced(f)
    BY <1>1, <1>3, <2>2, WithHashMaxEffect, WithHashMaxMappings, SameBalance, Zenon DEF NodesBut
  <2>5. t = Link(g, n, i, h) => g \in Dbs /\ n \in DOMAIN g.node /\ Balanced(g)
    <3>1. Balanced(g) /\ DOMAIN g.node = DOMAIN e.node \ {m}
      BY <1>3, <2>2, RemoveBalance, RemoveFreesMappings, Zenon
    <3>2. g \in Dbs
      <4>1. m \in e.tree[i][h].sub /\ h \in DOMAIN e.tree[i]
        BY <1>3, <1>7, Zenon
      <4> QED BY <1>3, <4>1, SoundRemoveHere, Zenon
    <3> QED BY <1>3, <2>2, <3>1, <3>2
  <2> HIDE DEF f, g
  <2> QED BY <1>4, <2>3, <2>4, <2>5, Zenon
<1> QED BY <1>2, <1>5, <1>6, <1>7, Zenon DEF Reinsert

(* Each operation keeps the counters so. *)
LEMMA BalanceInit == StableTreeInit => Balanced(db)
<1> SUFFICES ASSUME StableTreeInit PROVE Balanced(db)
  OBVIOUS
<1>1. DOMAIN db.node = {} /\ db.uksm_pages_shared = 0 /\ db.uksm_pages_sharing = 0
  BY DEF StableTreeInit
<1>2. Shared(db) = {} /\ Mappings(db) = {}
  BY <1>1 DEF Shared, Mappings
<1> QED BY <1>1, <1>2, FS_EmptySet DEF Balanced

LEMMA ShareNodeBalance ==
  ASSUME TInv, Balanced(db), NEW n \in Listed, ShareNode(n) PROVE Balanced(db')
<1> DEFINE r == db.node[n].rmaps
<1>1. /\ db \in Dbs /\ n \in DOMAIN db.node /\ db.node \in NodeMaps /\ db.node[n] \in NodeRec
  BY DbFacts, NodeMapFacts DEF TInv, Sound, Allocated, Listed
<1>2. r \in Nat /\ db.uksm_pages_shared \in Int /\ db.uksm_pages_sharing \in Int
  BY <1>1, NodeRecFacts, DbFacts
<1>3. /\ db'.node = [db.node EXCEPT ![n].rmaps = @ + 1]
      /\ db'.uksm_pages_shared = IF r = 0 THEN db.uksm_pages_shared + 1 ELSE db.uksm_pages_shared
      /\ db'.uksm_pages_sharing = IF r = 0 THEN db.uksm_pages_sharing ELSE db.uksm_pages_sharing + 1
  BY <1>1 DEF ShareNode, Dbs
<1>4. /\ DOMAIN db'.node = DOMAIN db.node /\ db'.node[n].rmaps = r + 1
      /\ \A k \in DOMAIN db.node : k # n => db'.node[k] = db.node[k]
  BY <1>1, <1>3 DEF NodeRec
<1> HIDE DEF r
<1>5. Shared(db') = Shared(db) \cup {n} /\ (n \in Shared(db) <=> r # 0)
  <2>1. n \in Shared(db') /\ (n \in Shared(db) <=> r # 0)
    BY <1>1, <1>2, <1>4 DEF Shared, r
  <2>2. \A k : k # n => (k \in Shared(db') <=> k \in Shared(db))
    BY <1>4 DEF Shared
  <2> QED BY <2>1, <2>2
<1>6. Mappings(db') = Mappings(db) \cup {<<n, r + 1>>} /\ <<n, r + 1>> \notin Mappings(db)
  <2>1. ASSUME NEW p PROVE p \in Mappings(db') <=> p \in Mappings(db) \/ p = <<n, r + 1>>
    <3>1. p \in Mappings(db') <=>
            \E x \in DOMAIN db'.node : \E k \in 1 .. db'.node[x].rmaps : p = <<x, k>>
      BY MappingIs
    <3>2. p \in Mappings(db) <=>
            \E x \in DOMAIN db.node : \E k \in 1 .. db.node[x].rmaps : p = <<x, k>>
      BY MappingIs
    <3>3. \A k : k \in 1 .. r + 1 <=> k \in 1 .. r \/ k = r + 1
      BY <1>2
    <3>4. \A x \in DOMAIN db.node : x # n => db'.node[x].rmaps = db.node[x].rmaps
      BY <1>4
    <3>5. db'.node[n].rmaps = r + 1 /\ db.node[n].rmaps = r /\ DOMAIN db'.node = DOMAIN db.node
      BY <1>4 DEF r
    <3> QED BY <1>1, <3>1, <3>2, <3>3, <3>4, <3>5
  <2>2. <<n, r + 1>> \notin Mappings(db)
    <3> SUFFICES ASSUME <<n, r + 1>> \in Mappings(db) PROVE FALSE
      OBVIOUS
    <3>1. PICK x \in DOMAIN db.node : \E k \in 1 .. db.node[x].rmaps : <<n, r + 1>> = <<x, k>>
      BY MappingIs
    <3>2. r + 1 \in 1 .. r
      BY <3>1 DEF r
    <3> QED BY <1>2, <3>2
  <2> QED BY <2>1, <2>2
<1>7. /\ IsFiniteSet(Shared(db'))
      /\ Cardinality(Shared(db')) = IF r # 0 THEN Cardinality(Shared(db)) ELSE Cardinality(Shared(db)) + 1
  BY <1>5, FS_AddElement DEF Balanced
<1>8. IsFiniteSet(Mappings(db')) /\ Cardinality(Mappings(db')) = Cardinality(Mappings(db)) + 1
  BY <1>6, FS_AddElement DEF Balanced
<1>9. db'.uksm_pages_shared = Cardinality(Shared(db'))
  BY <1>3, <1>7 DEF Balanced, r
<1>10. db'.uksm_pages_shared + db'.uksm_pages_sharing = Cardinality(Mappings(db'))
  BY <1>2, <1>3, <1>8 DEF Balanced, r
<1> QED BY <1>7, <1>8, <1>9, <1>10 DEF Balanced

LEMMA InsertNodeBalance ==
  ASSUME TInv, Balanced(db), NEW n \in Nodes, NEW c \in Contents, InsertNode(n, c)
  PROVE  Balanced(db')
<1> PICK max \in {NoHash, Full(c)} :
       LET d == Inserted(n, c, max)
       IN  /\ d \in Dbs /\ Sound(d, {}, {}) /\ n \in DOMAIN d.node /\ Elsewhere(d, n)
           /\ Reinsert(d, n, stable_tree_index, Hash[d.node[n].page][hash_strength], db')
           /\ DOMAIN d.node = DOMAIN db.node \cup {n} /\ n \notin DOMAIN db.node
           /\ d.node[n].rmaps = 0
           /\ \A k \in DOMAIN db.node : d.node[k] = db.node[k]
  BY InsertedSound
<1> DEFINE d == Inserted(n, c, max)
<1>1. ~Rebuilding /\ n \notin Range(db.list) /\ UNCHANGED StrengthsAndRoots
  BY DEF InsertNode, Listed
<1>2. db \in Dbs /\ Sound(db, {}, {}) /\ Roots
  BY <1>1, AtRest
<1>3. /\ d \in Dbs /\ Sound(d, {}, {}) /\ n \in DOMAIN d.node /\ Elsewhere(d, n)
      /\ Reinsert(d, n, stable_tree_index, Hash[d.node[n].page][hash_strength], db')
      /\ DOMAIN d.node = DOMAIN db.node \cup {n} /\ n \notin DOMAIN db.node
      /\ d.node[n].rmaps = 0
      /\ \A k \in DOMAIN db.node : d.node[k] = db.node[k]
  OBVIOUS
<1>4. d.uksm_pages_shared = db.uksm_pages_shared /\ d.uksm_pages_sharing = db.uksm_pages_sharing
  BY <1>2 DEF Inserted, Dbs
<1> HIDE DEF d
<1>5. Shared(d) = Shared(db)
  BY <1>3 DEF Shared
<1>6. Mappings(d) = Mappings(db)
  <2>1. ASSUME NEW p PROVE p \in Mappings(d) <=> p \in Mappings(db)
    <3>1. p \in Mappings(d) <=>
            \E x \in DOMAIN d.node : \E k \in 1 .. d.node[x].rmaps : p = <<x, k>>
      BY MappingIs
    <3>2. p \in Mappings(db) <=>
            \E x \in DOMAIN db.node : \E k \in 1 .. db.node[x].rmaps : p = <<x, k>>
      BY MappingIs
    <3>3. 1 .. 0 = {}
      OBVIOUS
    <3> QED BY <1>3, <3>1, <3>2, <3>3
  <2> QED BY <2>1
<1>7. Balanced(d)
  BY <1>4, <1>5, <1>6 DEF Balanced
<1> QED BY <1>2, <1>3, <1>7, ReinsertBalance

LEMMA RebuildNodeBalance ==
  ASSUME TInv, Balanced(db), RebuildNode PROVE Balanced(db')
<1> DEFINE n == Head(todo)
<1>1. /\ Rebuilding /\ todo # <<>>
      /\ \/ db' = Remove(db, n, FALSE, FALSE)
         \/ Reinsert(db, n, stable_tree_index, Rehash(n), db')
  BY DEF RebuildNode
<1>2. /\ db \in Dbs /\ Sound(db, Range(todo), {}) /\ Roots /\ n \in Range(todo)
  BY <1>1, TailFacts DEF TInv
<1>3. n \in DOMAIN db.node
  BY <1>2 DEF Sound, Allocated
<1>4. Elsewhere(db, n)
  BY <1>2, <1>3 DEF Sound, Pointed, Elsewhere, Roots
<1> HIDE DEF n
<1>5. CASE db' = Remove(db, n, FALSE, FALSE)
  BY <1>2, <1>3, <1>5, RemoveBalance
<1>6. CASE Reinsert(db, n, stable_tree_index, Rehash(n), db')
  <2>1. Reinsert(db, n, stable_tree_index, Hash[db.node[n].page][hash_strength], db')
    BY <1>1, <1>3, <1>4, <1>6, RehashIsHash
  <2> QED BY <1>2, <1>3, <1>4, <2>1, ReinsertBalance
<1> QED BY <1>1, <1>5, <1>6

LEMMA DropStaleBalance ==
  ASSUME TInv, Balanced(db), NEW n \in Listed, DropStale(n) PROVE Balanced(db')
<1>1. db' = Remove(db, n, TRUE, TRUE) /\ db \in Dbs /\ n \in DOMAIN db.node
  BY DEF DropStale, TInv, Sound, Allocated, Listed
<1> QED BY <1>1, RemoveBalance

LEMMA FreePageBalance ==
  ASSUME TInv, Balanced(db), NEW n \in Listed, FreePage(n) PROVE Balanced(db')
<1>1. /\ db \in Dbs /\ n \in DOMAIN db.node /\ db.node \in NodeMaps /\ db.node[n] \in NodeRec
  BY DbFacts, NodeMapFacts DEF TInv, Sound, Allocated, Listed
<1>2. SameMappings(db, db')
  BY <1>1 DEF FreePage, Dbs, NodeRec, SameMappings
<1> QED BY <1>2, SameBalance

LEMMA EmptyTreeBalance ==
  ASSUME TInv, Balanced(db), NEW i, db' = [db EXCEPT !.tree[i] = NoTree] PROVE Balanced(db')
<1>1. SameMappings(db, db')
  BY DEF TInv, Dbs, SameMappings
<1> QED BY <1>1, SameBalance

LEMMA NextBalance == TInv /\ Balanced(db) /\ [StableTreeNext]_treeVars => Balanced(db)'
<1> SUFFICES ASSUME TInv, Balanced(db), [StableTreeNext]_treeVars PROVE Balanced(db')
  OBVIOUS
<1>1. ASSUME NEW s \in Strengths, BeginRebuild(s) PROVE Balanced(db')
  BY <1>1, EmptyTreeBalance DEF BeginRebuild
<1>2. CASE RebuildNode
  BY <1>2, RebuildNodeBalance
<1>3. CASE EndRebuild
  BY <1>3, EmptyTreeBalance DEF EndRebuild
<1>4. ASSUME NEW n \in Nodes, NEW c \in Contents, InsertNode(n, c) PROVE Balanced(db')
  BY <1>4, InsertNodeBalance
<1>5. ASSUME NEW n \in Listed, ShareNode(n) PROVE Balanced(db')
  BY <1>5, ShareNodeBalance
<1>6. ASSUME NEW n \in Listed, FreePage(n) PROVE Balanced(db')
  BY <1>6, FreePageBalance
<1>7. ASSUME NEW n \in Listed, DropStale(n) PROVE Balanced(db')
  BY <1>7, DropStaleBalance
<1>8. CASE UNCHANGED treeVars
  BY <1>8 DEF treeVars
<1> QED BY <1>1, <1>2, <1>3, <1>4, <1>5, <1>6, <1>7, <1>8 DEF StableTreeNext

-----------------------------------------------------------------------------
(* The properties. *)

(* The loop of stable_tree_delta_hash never goes on to a node that was      *)
(* freed: the nodes still to visit are allocated, whatever stale nodes      *)
(* stable_node_reinsert and the loop itself have removed on the way.        *)
THEOREM RebuildIsSafe == StableTreeSpec => []CursorIsAllocated
<1>1. TInv => CursorIsAllocated
  BY DEF TInv, Sound, Allocated, CursorIsAllocated, Listed
<1> QED BY <1>1, TreeInvariant, PTL

(* The count stable_node_reinsert branches on is the number of nodes under  *)
(* the tree_node and never zero between two operations, so its BUG_ON       *)
(* before the search of a collision tree cannot fire.                       *)
THEOREM TreeNodesAreCounted == StableTreeSpec => []CountsMatch
<1>1. TInv => CountsMatch
  BY DEF TInv, Sound, Counted, CountsMatch, Current
<1> QED BY <1>1, TreeInvariant, PTL

(* hash_max, once computed, is the full hash of the page whichever strength *)
(* it was extended from, and it tells the nodes under one tree_node apart.  *)
THEOREM CollisionTreesAreKeyed == StableTreeSpec => []SubtreesKeyed
<1>1. TInv => SubtreesKeyed
  BY DEF TInv, Sound, Allocated, Hashed, Apart, SubtreesKeyed, Current, Listed, FullHash, Full
<1> QED BY <1>1, TreeInvariant, PTL

(* A node points to the tree_node that holds it, under the hash its page    *)
(* has at the strength of that tree, and to no tree_node that was freed.    *)
THEOREM NodesAreUnderTheirHash == StableTreeSpec => []LinkedUnderTheirHash
<1>1. ASSUME TInv PROVE LinkedUnderTheirHash
  <2>1. /\ DOMAIN db.node = Listed /\ Pointed(db, Range(todo)) /\ Held(db)
        /\ \A n \in Listed : db.node[n].tree_node \in Places
    BY <1>1, NodeFacts, Zenon DEF TInv, Sound, Allocated, Listed
  <2>2. ASSUME NEW n \in Listed, db.node[n].tree_node # Null
        PROVE  LET t == db.node[n].tree_node
               IN  /\ t[2] \in DOMAIN db.tree[t[1]]
                   /\ n \in db.tree[t[1]][t[2]].sub
                   /\ t[2] = Hash[db.node[n].page][IF t[1] = root_stable_treep
                                                     THEN prev_hash_strength ELSE hash_strength]
                   /\ t[1] = stable_tree_index \/ n \in Range(todo)
    <3>1. PICK i \in {0, 1}, h \in Int : db.node[n].tree_node = <<i, h>>
      BY <2>1, <2>2, PlacesAre
    <3>2. db.node[n].tree_node[1] = i /\ db.node[n].tree_node[2] = h
      BY <3>1
    <3>3. /\ h \in DOMAIN db.tree[i] /\ n \in db.tree[i][h].sub
          /\ h = Hash[db.node[n].page][StrengthOf(i)]
          /\ i = stable_tree_index <=> n \notin Range(todo)
      BY <2>1, <3>1 DEF Pointed
    <3> QED BY <3>2, <3>3, Zenon DEF StrengthOf
  <2> QED BY <2>1, <2>2 DEF LinkedUnderTheirHash, Held, Current
<1> QED BY <1>1, TreeInvariant, PTL

(* A rebuild leaves a live node out of the tree only when there was no      *)
(* memory for a tree_node, or when another node has both its hashes.        *)
THEOREM RebuildKeepsNodes == StableTreeSpec => OnlyHiddenNodesUnlinked
<1> DEFINE Left(n) ==
      \/ db'.node[n].tree_node # Null
      \/ Hash[db.node[n].page][hash_strength] \notin DOMAIN Current
      \/ \E m \in Range(db'.list) \ {n} :
           /\ Hash[db'.node[m].page][hash_strength] = Hash[db'.node[n].page][hash_strength]
           /\ db'.node[m].hash_max = db'.node[n].hash_max
           /\ db'.node[m].hash_max # NoHash
<1>1. ASSUME TInv, NEW n \in Listed, todo # <<>>, n = Head(todo), ~Stale(db, n), RebuildNode
      PROVE  Left(n)
  <2>1. Rebuilding /\ Reinsert(db, n, stable_tree_index, Rehash(n), db')
    BY <1>1 DEF RebuildNode
  <2>2. db \in Dbs /\ Sound(db, Range(todo), {}) /\ Roots /\ n \in Range(todo)
    BY <1>1, TailFacts DEF TInv
  <2>3. n \in DOMAIN db.node
    BY <2>2 DEF Sound, Allocated
  <2>4. Elsewhere(db, n)
    BY <2>2, <2>3 DEF Sound, Pointed, Elsewhere, Roots
  <2>5. Reinsert(db, n, stable_tree_index, Hash[db.node[n].page][hash_strength], db')
    BY <1>1, <2>1, <2>3, <2>4, RehashIsHash
  <2>6. /\ Sound(db', Range(todo) \ {n}, {})
        /\ PlacedOrHidden(db, db', n, Hash[db.node[n].page][hash_strength])
    BY <2>2, <2>3, <2>4, <2>5, SoundReinsert
  <2>7. DOMAIN db'.node = Range(db'.list)
    BY <2>6 DEF Sound, Allocated
  <2> QED BY <2>6, <2>7 DEF PlacedOrHidden, Current
<1>2. TInv => \A n \in Listed :
        todo # <<>> /\ n = Head(todo) /\ ~Stale(db, n) /\ RebuildNode => Left(n)
  BY <1>1
<1> QED BY <1>2, TreeInvariant, PTL DEF OnlyHiddenNodesUnlinked

(* uksm_pages_shared is the number of nodes that are mapped, and with       *)
(* uksm_pages_sharing it makes up all their mappings: sharing a page, a     *)
(* node removed with mappings left, and a rebuild keep the two counters of  *)
(* remove_node_from_stable_tree in step.                                    *)
THEOREM PagesAreCounted == StableTreeSpec => []PagesCounted
<1>1. StableTreeSpec => []Balanced(db)
  BY BalanceInit, NextBalance, TreeInvariant, PTL DEF StableTreeSpec
<1>2. Balanced(db) => PagesCounted
  BY DEF Balanced, PagesCounted
<1> QED BY <1>1, <1>2, PTL
=============================================================================
