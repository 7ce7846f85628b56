--------------------------- MODULE FhTableProofs ----------------------------
(***************************************************************************)
(* Theorems about FhTable, for every hash function, any number of blocks,  *)
(* lengths, buckets and entries, and every width of a size_t.              *)
(***************************************************************************)
EXTENDS FhTable, TLAPS, WellFoundedInduction, FiniteSetTheorems

(* An entry is in the bucket of its hash, and the hash is that of its block *)
(* as long as nobody has changed the block.                                 *)
InItsBucket(e, i) ==
  /\ e.hash % bucket_count = i
  /\ e.len = BlockLen[e.data]
  /\ (e.at \notin changed => e.hash = Hash(content[e.data], e.len))
Placed ==
  pc = "live" => \A i \in 0 .. bucket_count - 1 : \A k \in 1 .. Len(buckets[i]) :
    InItsBucket(buckets[i][k], i)

(* In the loop n becomes 0 only when it cannot reach what is asked for.     *)
ZeroIsNotEnough == pc = "grow" /\ n = 0 => want > 0

TableInv == TypeOK /\ NothingLeaked /\ Placed /\ ZeroIsNotEnough

-----------------------------------------------------------------------------
(* A set of numbers that is not empty has a least element. *)
LEMMA LeastNumber ==
  ASSUME NEW T \in SUBSET Nat, T # {}
  PROVE  \E x \in T : \A y \in T : x <= y
<1> DEFINE R == {ss \in Nat \X Nat : ss[1] < ss[2]}
<1>1. IsWellFoundedOn(R, Nat)
  BY NatLessThanWellFounded DEF OpToRel
<1>2. \A x, y \in Nat : x < y => <<x, y>> \in R
  OBVIOUS
<1> HIDE DEF R
<1>3. PICK x \in T : \A y \in T : ~(<<y, x>> \in R)
  BY <1>1, WFMin
<1>4. \A y \in T : x <= y
  <2> TAKE y \in T
  <2>1. ~(y < x) /\ x \in Nat /\ y \in Nat
    BY <1>2, <1>3
  <2> QED BY <2>1
<1> QED BY <1>4

(* A chain with one entry put before it. *)
LEMMA ChainGrows ==
  ASSUME NEW chain \in Seq(Entry), NEW e \in Entry
  PROVE  /\ Chained(e, chain) \in Seq(Entry)
         /\ Len(Chained(e, chain)) = Len(chain) + 1
         /\ Chained(e, chain)[1] = e
         /\ \A k \in 1 .. Len(chain) : Chained(e, chain)[k + 1] = chain[k]
BY DEF Chained

(* A remainder is the number of a bucket. *)
LEMMA BucketOf ==
  ASSUME NEW h \in Nat, NEW b \in Nat, b > 0
  PROVE  h % b \in 0 .. b - 1
OBVIOUS

(* A block's content and length have a hash. *)
LEMMA HashOfBlock ==
  ASSUME NEW c \in Contents, NEW b \in Blocks
  PROVE  Hash(c, BlockLen[b]) \in Nat
BY TableAssumption

-----------------------------------------------------------------------------
LEMMA TableInitial == Init => TableInv
<1> SUFFICES ASSUME Init PROVE TableInv
  OBVIOUS
<1>1. DOMAIN buckets = {}
  BY DEF Init
<1>2. TypeOK
  BY DEF Init, TypeOK
<1>3. NothingLeaked
  BY <1>1 DEF Init, NothingLeaked, Linked
<1> QED
  BY <1>2, <1>3 DEF Init, TableInv, Placed, ZeroIsNotEnough

(* Steps that leave every entry, its block and its mark alone. *)
LEMMA QuietStep ==
  ASSUME TableInv, UNCHANGED <<content, table>>,
         pc' \in {"none", "grow", "failed"}, pc # "live",
         want' \in Nat, n' \in Nat, ZeroIsNotEnough'
  PROVE  TableInv'
<1>1. TypeOK'
  BY DEF TableInv, TypeOK, table
<1>2. NothingLeaked'
  BY DEF TableInv, NothingLeaked, Linked, table
<1> QED
  BY <1>1, <1>2 DEF TableInv, Placed

LEMMA InitStep ==
  ASSUME TableInv, NEW request \in Requests, InitHashTable(request)
  PROVE  TableInv'
<1>1. request \in Nat
  BY TableAssumption
<1>2. ZeroIsNotEnough'
  BY DEF InitHashTable, ZeroIsNotEnough
<1>3. pc' \in {"none", "grow", "failed"} /\ pc # "live" /\ want' \in Nat /\ n' \in Nat
  BY <1>1 DEF InitHashTable
<1> QED
  BY <1>2, <1>3, QuietStep DEF InitHashTable

LEMMA DoubleStep ==
  ASSUME TableInv, Double
  PROVE  TableInv'
<1>1. want \in Nat /\ n \in Nat /\ SIZE_MOD \in Nat /\ SIZE_MOD > 1
  BY TableAssumption DEF TableInv, TypeOK
<1>2. want' \in Nat /\ n' \in Nat
  BY <1>1 DEF Double
<1>3. ZeroIsNotEnough'
  BY <1>1 DEF Double, More, ZeroIsNotEnough
<1> QED
  BY <1>2, <1>3, QuietStep DEF Double

LEMMA AllocateStep ==
  ASSUME TableInv, Allocate
  PROVE  TableInv'
<1>1. want \in Nat /\ n \in Nat /\ n > 0
  BY DEF TableInv, TypeOK, Allocate, More, ZeroIsNotEnough
<1>2. pc = "grow" /\ heap = {}
  BY DEF TableInv, TypeOK, Allocate, NothingLeaked, Linked
<1>3. CASE pc' = "live" /\ buckets' = [i \in 0 .. n - 1 |-> <<>>] /\ bucket_count' = n /\ entry_count' = 0
  <2>1. buckets' \in [0 .. bucket_count' - 1 -> Seq(Entry)]
    BY <1>3
  <2>2. \A i \in DOMAIN buckets' : DOMAIN buckets'[i] = {} /\ Len(buckets'[i]) = 0
    BY <1>3
  <2>3. TypeOK'
    BY <1>1, <1>3, <2>1 DEF TableInv, TypeOK, Allocate
  <2>4. Linked' = {}
    BY <2>2 DEF Linked
  <2>5. NothingLeaked'
    BY <1>2, <1>3, <2>2, <2>4, FS_EmptySet DEF NothingLeaked, Allocate
  <2>6. Placed'
    BY <1>3, <2>2 DEF Placed
  <2> QED
    BY <1>3, <2>3, <2>5, <2>6 DEF TableInv, ZeroIsNotEnough
<1>4. CASE /\ pc' = "failed" /\ buckets' = <<>>
           /\ bucket_count' \in Requests \cup {0} /\ entry_count' \in {0, bucket_count'}
  <2>1. TypeOK'
    BY <1>1, <1>4, TableAssumption DEF TableInv, TypeOK, Allocate
  <2>2. Linked' = {} /\ DOMAIN buckets' = {}
    BY <1>4 DEF Linked
  <2>3. NothingLeaked'
    BY <1>2, <1>4, <2>2 DEF NothingLeaked, Allocate
  <2> QED
    BY <1>4, <2>1, <2>3 DEF TableInv, Placed, ZeroIsNotEnough
<1> QED
  BY <1>3, <1>4 DEF Allocate

(* The new entry is the first of its chain; every other one is where it was *)
(* but for one place in that chain.                                         *)
LEMMA InsertStep ==
  ASSUME TableInv, NEW b \in Blocks, NEW at \in Addresses, HashTableInsert(b, at)
  PROVE  TableInv'
<1> DEFINE h == Hash(content[b], BlockLen[b])
           idx == h % bucket_count
           e == [hash |-> h, data |-> b, len |-> BlockLen[b], at |-> at]
           old == buckets[idx]
<1>1. /\ pc = "live" /\ pc' = "live" /\ at \notin heap
      /\ buckets' = [buckets EXCEPT ![idx] = Chained(e, old)]
      /\ heap' = heap \cup {at} /\ entry_count' = entry_count + 1 /\ changed' = changed \ {at}
      /\ UNCHANGED <<want, n, bucket_count, content>>
  BY DEF HashTableInsert
<1>2. /\ bucket_count \in Nat /\ bucket_count > 0
      /\ buckets \in [0 .. bucket_count - 1 -> Seq(Entry)]
      /\ content \in [Blocks -> Contents]
  BY <1>1 DEF TableInv, TypeOK
<1>3. content[b] \in Contents
  BY <1>2
<1>4. h \in Nat
  BY <1>3, HashOfBlock
<1>5. idx \in 0 .. bucket_count - 1
  <2> HIDE DEF h
  <2> QED BY <1>2, <1>4, BucketOf
<1>6. e \in Entry
  <2> HIDE DEF h
  <2> QED BY <1>4 DEF Entry
<1>e. e.hash = h /\ e.data = b /\ e.len = BlockLen[b] /\ e.at = at
  OBVIOUS
<1>i. h % bucket_count = idx
  OBVIOUS
<1>h. h = Hash(content[b], BlockLen[b])
  OBVIOUS
<1> HIDE DEF e, idx, h
<1>7. old \in Seq(Entry)
  BY <1>2, <1>5
<1>8. /\ Chained(e, old) \in Seq(Entry) /\ Len(Chained(e, old)) = Len(old) + 1
      /\ Chained(e, old)[1] = e
      /\ \A k \in 1 .. Len(old) : Chained(e, old)[k + 1] = old[k]
  BY <1>6, <1>7, ChainGrows
<1>9. /\ buckets' \in [0 .. bucket_count - 1 -> Seq(Entry)]
      /\ buckets'[idx] = Chained(e, old)
      /\ \A i \in 0 .. bucket_count - 1 : i # idx => buckets'[i] = buckets[i]
  BY <1>1, <1>2, <1>5, <1>8
<1>10. \A i \in 0 .. bucket_count - 1 :
         /\ buckets[i] \in Seq(Entry) /\ buckets'[i] \in Seq(Entry)
         /\ DOMAIN buckets[i] = 1 .. Len(buckets[i]) /\ DOMAIN buckets'[i] = 1 .. Len(buckets'[i])
         /\ Len(buckets[i]) \in Nat /\ Len(buckets'[i]) \in Nat
  BY <1>2, <1>9
<1>11. DOMAIN buckets = 0 .. bucket_count - 1 /\ DOMAIN buckets' = 0 .. bucket_count - 1
  BY <1>2, <1>9
(* Each place holds the new entry or one that was there. *)
<1>12. ASSUME NEW i \in 0 .. bucket_count - 1, NEW k \in 1 .. Len(buckets'[i])
       PROVE  \/ i = idx /\ k = 1 /\ buckets'[i][k] = e
              \/ i = idx /\ k - 1 \in 1 .. Len(buckets[i]) /\ buckets'[i][k] = buckets[i][k - 1]
              \/ i # idx /\ k \in 1 .. Len(buckets[i]) /\ buckets'[i][k] = buckets[i][k]
  <2>1. CASE i # idx
    BY <2>1, <1>9
  <2>2. CASE i = idx /\ k = 1
    BY <2>2, <1>8, <1>9
  <2>3. CASE i = idx /\ k # 1
    <3>1. Len(old) \in Nat /\ k \in 1 .. Len(old) + 1
      BY <2>3, <1>5, <1>8, <1>9, <1>10
    <3>2. k - 1 \in 1 .. Len(old) /\ (k - 1) + 1 = k
      BY <2>3, <3>1
    <3>3. Chained(e, old)[k] = old[k - 1]
      BY <3>2, <1>8
    <3> QED BY <2>3, <3>2, <3>3, <1>9
  <2> QED BY <2>1, <2>2, <2>3
(* And every entry that was there still is. *)
<1>13. ASSUME NEW i \in 0 .. bucket_count - 1, NEW k \in 1 .. Len(buckets[i])
       PROVE  \E m \in 1 .. Len(buckets'[i]) : buckets'[i][m] = buckets[i][k]
  <2>1. CASE i # idx
    BY <2>1, <1>9
  <2>2. CASE i = idx
    <3>1. k + 1 \in 1 .. Len(Chained(e, old)) /\ Chained(e, old)[k + 1] = old[k]
      BY <2>2, <1>8, <1>10, SMTT(30)
    <3> QED BY <2>2, <3>1, <1>9
  <2> QED BY <2>1, <2>2
<1>14. heap = Linked
  BY DEF TableInv, NothingLeaked
<1>15. \A i \in 0 .. bucket_count - 1 : \A k \in 1 .. Len(buckets[i]) :
         buckets[i][k].at \in heap /\ buckets[i][k].at # at /\ buckets[i][k] \in Entry
  <2> TAKE i \in 0 .. bucket_count - 1
  <2> TAKE k \in 1 .. Len(buckets[i])
  <2>1. buckets[i][k] \in Entry
    BY <1>10
  <2>2. buckets[i][k].at \in Addresses
    BY <2>1 DEF Entry
  <2>3. buckets[i][k].at \in Linked
    BY <2>2, <1>10, <1>11 DEF Linked
  <2> QED BY <2>1, <2>3, <1>1, <1>14
<1>16. Linked' = Linked \cup {at}
  <2>1. ASSUME NEW a \in Linked' PROVE a \in Linked \cup {at}
    <3>0. PICK i \in 0 .. bucket_count - 1 : \E k \in 1 .. Len(buckets'[i]) : buckets'[i][k].at = a
      BY <2>1, <1>10, <1>11 DEF Linked
    <3>1. PICK k \in 1 .. Len(buckets'[i]) : buckets'[i][k].at = a
      BY <3>0
    <3>2. buckets'[i][k].at = at \/ \E m \in 1 .. Len(buckets[i]) : buckets'[i][k] = buckets[i][m]
      BY <1>12, <1>e
    <3> QED BY <3>1, <3>2, <1>14, <1>15
  <2>2. ASSUME NEW a \in Linked PROVE a \in Linked'
    <3>1. a \in Addresses /\ \E i \in 0 .. bucket_count - 1 : \E k \in 1 .. Len(buckets[i]) : buckets[i][k].at = a
      BY <2>2, <1>10, <1>11 DEF Linked
    <3>0. PICK i \in 0 .. bucket_count - 1 : \E k \in 1 .. Len(buckets[i]) : buckets[i][k].at = a
      BY <3>1
    <3>2. PICK k \in 1 .. Len(buckets[i]) : buckets[i][k].at = a
      BY <3>0
    <3>3. PICK m \in 1 .. Len(buckets'[i]) : buckets'[i][m] = buckets[i][k]
      BY <1>13
    <3> QED BY <3>1, <3>2, <3>3, <1>10, <1>11 DEF Linked
  <2>3. at \in Linked'
    <3>1. 1 \in 1 .. Len(buckets'[idx]) /\ buckets'[idx][1].at = at
      BY <1>5, <1>7, <1>8, <1>9, <1>e
    <3> QED BY <3>1, <1>5, <1>10, <1>11 DEF Linked
  <2> QED BY <2>1, <2>2, <2>3
<1>17. TypeOK'
  BY <1>1, <1>2, <1>9 DEF TableInv, TypeOK
<1>18. NothingLeaked'
  <2>1. heap' = Linked'
    BY <1>1, <1>14, <1>16
  <2>2. entry_count' = Cardinality(heap')
    <3>1. IsFiniteSet(heap)
      BY TableAssumption, FS_Subset DEF TableInv, TypeOK
    <3>2. entry_count = Cardinality(heap)
      BY <1>1 DEF TableInv, NothingLeaked
    <3> QED BY <1>1, <3>1, <3>2, FS_AddElement
  <2>3. ASSUME NEW i \in 0 .. bucket_count - 1, NEW j \in 0 .. bucket_count - 1,
               NEW k \in 1 .. Len(buckets'[i]), NEW l \in 1 .. Len(buckets'[j]),
               buckets'[i][k].at = buckets'[j][l].at
        PROVE  i = j /\ k = l
    <3>0. \A x, y \in DOMAIN buckets : \A u \in DOMAIN buckets[x], v \in DOMAIN buckets[y] :
            buckets[x][u].at = buckets[y][v].at => x = y /\ u = v
      BY DEF TableInv, NothingLeaked
    <3>1. \A u \in 1 .. Len(buckets[i]), v \in 1 .. Len(buckets[j]) :
            buckets[i][u].at = buckets[j][v].at => i = j /\ u = v
      <4>1. i \in DOMAIN buckets /\ j \in DOMAIN buckets
        BY <1>11
      <4>2. DOMAIN buckets[i] = 1 .. Len(buckets[i]) /\ DOMAIN buckets[j] = 1 .. Len(buckets[j])
        BY <1>10
      <4>3. \A u \in DOMAIN buckets[i], v \in DOMAIN buckets[j] :
              buckets[i][u].at = buckets[j][v].at => i = j /\ u = v
        BY <3>0, <4>1
      <4> QED BY <4>2, <4>3
    <3>2. \/ i = idx /\ k = 1 /\ buckets'[i][k].at = at
          \/ i = idx /\ k - 1 \in 1 .. Len(buckets[i]) /\ buckets'[i][k] = buckets[i][k - 1]
          \/ i # idx /\ k \in 1 .. Len(buckets[i]) /\ buckets'[i][k] = buckets[i][k]
      BY <1>12, <1>e
    <3>3. \/ j = idx /\ l = 1 /\ buckets'[j][l].at = at
          \/ j = idx /\ l - 1 \in 1 .. Len(buckets[j]) /\ buckets'[j][l] = buckets[j][l - 1]
          \/ j # idx /\ l \in 1 .. Len(buckets[j]) /\ buckets'[j][l] = buckets[j][l]
      BY <1>12, <1>e
    <3>4. CASE buckets'[i][k].at = at
      BY <3>2, <3>3, <3>4, <2>3, <1>15
    <3>5. CASE buckets'[i][k].at # at
      <4>1. k \in Nat /\ l \in Nat
        BY <1>10
      <4>2. PICK u \in 1 .. Len(buckets[i]) :
              buckets'[i][k] = buckets[i][u] /\ ((i = idx /\ u = k - 1) \/ (i # idx /\ u = k))
        <5>1. CASE i = idx
          <6>1. k - 1 \in 1 .. Len(buckets[i]) /\ buckets'[i][k] = buckets[i][k - 1]
            BY <3>2, <3>5, <5>1
          <6> QED BY <5>1, <6>1
        <5>2. CASE i # idx
          BY <3>2, <5>2
        <5> QED BY <5>1, <5>2
      <4>3. PICK v \in 1 .. Len(buckets[j]) :
              buckets'[j][l] = buckets[j][v] /\ ((j = idx /\ v = l - 1) \/ (j # idx /\ v = l))
        <5>1. CASE j = idx
          <6>1. l - 1 \in 1 .. Len(buckets[j]) /\ buckets'[j][l] = buckets[j][l - 1]
            BY <3>3, <3>5, <5>1, <2>3
          <6> QED BY <5>1, <6>1
        <5>2. CASE j # idx
          BY <3>3, <5>2
        <5> QED BY <5>1, <5>2
      <4>4. i = j /\ u = v
        BY <3>1, <2>3, <4>2, <4>3
      <4> QED BY <4>1, <4>2, <4>3, <4>4
    <3> QED BY <3>4, <3>5
  <2> QED
    BY <2>1, <2>2, <2>3, <1>10, <1>11, SMTT(30) DEF NothingLeaked
<1>19. Placed'
  <2> DEFINE InBucket(x, i) ==
        /\ x.hash % bucket_count = i
        /\ x.len = BlockLen[x.data]
        /\ (x.at \notin changed' => x.hash = Hash(content[x.data], x.len))
  <2> SUFFICES ASSUME NEW i \in 0 .. bucket_count - 1, NEW k \in 1 .. Len(buckets'[i])
               PROVE  InBucket(buckets'[i][k], i)
    BY <1>1 DEF Placed, InItsBucket
  <2>1. CASE i = idx /\ buckets'[i][k] = e
    BY <2>1, <1>e, <1>h, <1>i
  <2>2. ASSUME NEW m \in 1 .. Len(buckets[i]), buckets'[i][k] = buckets[i][m]
        PROVE  InBucket(buckets'[i][k], i)
    <3>1. InItsBucket(buckets[i][m], i)
      BY <1>1 DEF TableInv, Placed
    <3>2. buckets[i][m].at # at
      BY <1>15
    <3> QED
      BY <2>2, <3>1, <3>2, <1>1 DEF InItsBucket
  <2> QED
    BY <2>1, <2>2, <1>12
<1> QED
  BY <1>1, <1>17, <1>18, <1>19 DEF TableInv, ZeroIsNotEnough

LEMMA FreeStep ==
  ASSUME TableInv, FreeHashTable
  PROVE  TableInv'
<1>1. heap' = {}
  BY DEF FreeHashTable, TableInv, NothingLeaked
<1>2. DOMAIN buckets' = {}
  BY DEF FreeHashTable
<1>3. TypeOK'
  BY <1>1 DEF FreeHashTable, TableInv, TypeOK
<1>4. NothingLeaked'
  BY <1>1, <1>2 DEF FreeHashTable, NothingLeaked, Linked
<1> QED
  BY <1>3, <1>4 DEF FreeHashTable, TableInv, Placed, ZeroIsNotEnough

LEMMA ChangeStep ==
  ASSUME TableInv, NEW b \in Blocks, NEW c \in Contents, ChangeBlock(b, c)
  PROVE  TableInv'
<1>1. TypeOK'
  BY DEF TableInv, TypeOK, ChangeBlock
<1>2. NothingLeaked'
  BY DEF TableInv, NothingLeaked, Linked, ChangeBlock
<1>3. Placed'
  <2> SUFFICES ASSUME pc = "live", NEW i \in 0 .. bucket_count - 1, NEW k \in 1 .. Len(buckets[i])
               PROVE  InItsBucket(buckets[i][k], i)'
    BY DEF ChangeBlock, Placed
  <2>1. InItsBucket(buckets[i][k], i)
    BY DEF TableInv, Placed
  <2>2. buckets[i] \in Seq(Entry) /\ i \in DOMAIN buckets /\ k \in DOMAIN buckets[i]
    BY DEF TableInv, TypeOK
  <2>3. buckets[i][k] \in Entry
    BY <2>2
  <2>4. buckets[i][k].at \in Addresses /\ buckets[i][k].data \in Blocks
    BY <2>3 DEF Entry
  <2>5. CASE buckets[i][k].data = b
    <3>1. buckets[i][k].at \in changed'
      BY <2>2, <2>4, <2>5 DEF ChangeBlock, LinkedTo
    <3> QED BY <2>1, <3>1 DEF InItsBucket, ChangeBlock
  <2>6. CASE buckets[i][k].data # b
    <3>1. content'[buckets[i][k].data] = content[buckets[i][k].data]
      BY <2>4, <2>6 DEF ChangeBlock, TableInv, TypeOK
    <3> QED BY <2>1, <3>1 DEF InItsBucket, ChangeBlock
  <2> QED BY <2>5, <2>6
<1> QED
  BY <1>1, <1>2, <1>3 DEF TableInv, ZeroIsNotEnough, ChangeBlock

LEMMA TableStep == TableInv /\ [Next]_vars => TableInv'
<1> SUFFICES ASSUME TableInv, [Next]_vars PROVE TableInv'
  OBVIOUS
<1>1. CASE UNCHANGED vars
  BY <1>1 DEF vars, TableInv, TypeOK, NothingLeaked, Linked, Placed, InItsBucket, ZeroIsNotEnough
<1> QED
  BY <1>1, InitStep, DoubleStep, AllocateStep, FreeStep, InsertStep, ChangeStep DEF Next

LEMMA TableInvariant == Spec => []TableInv
BY TableInitial, TableStep, PTL DEF Spec

-----------------------------------------------------------------------------
(* Types: above all, a table in use has as many chains as it counts buckets *)
(* (init_hash_table).                                                       *)
THEOREM TableTypes == Spec => []TypeOK
<1>1. TableInv => TypeOK
  BY DEF TableInv
<1> QED BY <1>1, TableInvariant, PTL

(* Every entry allocated by hash_table_insert is in one place of one chain, *)
(* is counted, and is freed by free_hash_table.                             *)
THEOREM TableLeaksNothing == Spec => []NothingLeaked
<1>1. TableInv => NothingLeaked
  BY DEF TableInv
<1> QED BY <1>1, TableInvariant, PTL

(* hash_table_lookup finds a block that has been inserted and not changed   *)
(* since, whatever the hash function does to the others.                    *)
THEOREM UnchangedIsFound == Spec => []FoundWhileUnchanged
<1>1. TableInv => FoundWhileUnchanged
  <2> SUFFICES ASSUME TableInv, pc = "live", NEW i \in DOMAIN buckets, NEW k \in DOMAIN buckets[i],
                      buckets[i][k].at \notin changed
               PROVE  HashTableLookup(content[buckets[i][k].data], buckets[i][k].len) # NULL
    BY DEF FoundWhileUnchanged
  <2> DEFINE e == buckets[i][k]
             c == content[e.data]
             h == Hash(c, e.len)
             chain == ChainOf(h)
             hits == {m \in DOMAIN chain : Matches(chain[m], h, c, e.len)}
             first == CHOOSE m \in hits : \A j \in hits : m <= j
  <2>1. buckets \in [0 .. bucket_count - 1 -> Seq(Entry)] /\ i \in 0 .. bucket_count - 1
        /\ k \in 1 .. Len(buckets[i])
    BY DEF TableInv, TypeOK
  <2>2. InItsBucket(e, i)
    BY <2>1 DEF TableInv, Placed
  <2>3. e.hash = h /\ chain = buckets[i]
    BY <2>2 DEF InItsBucket, ChainOf
  <2>4. k \in hits
    BY <2>3 DEF Matches
  <2>5. hits \in SUBSET Nat
    <3>1. DOMAIN chain = 1 .. Len(chain)
      BY <2>1, <2>3
    <3> QED BY <3>1
  <2>6. \E m \in hits : \A j \in hits : m <= j
    <3> HIDE DEF hits
    <3> QED BY <2>4, <2>5, LeastNumber
  <2>7. first \in hits
    <3> HIDE DEF hits
    <3> QED BY <2>6
  <2>8. chain[first] \in Entry
    <3>1. first \in DOMAIN chain
      BY <2>7, SMTT(30)
    <3> HIDE DEF first
    <3> QED BY <2>1, <2>3, <3>1
  <2>9. chain[first].at # NULL
    BY <2>8, TableAssumption DEF Entry
  <2>10. HashTableLookup(c, e.len) = IF hits = {} THEN NULL ELSE chain[first].at
    BY DEF HashTableLookup
  <2> QED
    <3> HIDE DEF hits, first, chain
    <3> QED BY <2>4, <2>9, <2>10
<1> QED BY <1>1, TableInvariant, PTL
=============================================================================
