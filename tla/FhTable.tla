------------------------------ MODULE FhTable -------------------------------
(***************************************************************************)
(* The chained hash table of fast_hash.c over blocks it does not own: an   *)
(* entry keeps the hash of its block from the moment of insertion and a    *)
(* pointer to the block, which its owner may change at any time.           *)
(* `hash & (bucket_count - 1)` is the remainder, bucket_count being a      *)
(* power of two.                                                           *)
(***************************************************************************)
EXTENDS Naturals, Sequences, FiniteSets

CONSTANTS
  Blocks, BlockLen,   \* the callers' blocks and their lengths
  Contents,
  Hash(_, _),    \* fast_hash, of a content and a length
  Addresses,     \* bound: what malloc can give for entries
  SIZE_MOD,      \* 2^w for a size_t of w bits
  Requests,      \* bound: what init_hash_table is asked for
  NULL

ASSUME TableAssumption ==
  /\ DOMAIN BlockLen = Blocks
  /\ \A c \in Contents, b \in Blocks : Hash(c, BlockLen[b]) \in Nat
  /\ IsFiniteSet(Addresses) /\ NULL \notin Addresses
  /\ SIZE_MOD \in Nat /\ SIZE_MOD > 1 /\ Requests \subseteq Nat

VARIABLES
  pc,            \* "none", in init_hash_table's loop "grow", "live" or "failed"
  want, n,       \* its parameter and its local
  buckets, bucket_count, entry_count,
  heap,          \* entries allocated
  content,       \* of each block
  changed        \* ghost: entries whose block has changed since

vars == <<pc, want, n, buckets, bucket_count, entry_count, heap, content, changed>>
table == <<buckets, bucket_count, entry_count, heap, changed>>

Init ==
  /\ pc = "none" /\ want = 0 /\ n = 0
  /\ buckets = <<>> /\ bucket_count = 0 /\ entry_count = 0
  /\ heap = {} /\ content \in [Blocks -> Contents] /\ changed = {}

-----------------------------------------------------------------------------
(* init_hash_table *)
InitHashTable(request) ==
  /\ pc \in {"none", "failed"}
  /\ pc' = "grow" /\ want' = request /\ n' = 1
  /\ UNCHANGED <<content, table>>

More == n < want

Double ==
  /\ pc = "grow" /\ More
  /\ n' = (n * 2) % SIZE_MOD
  /\ UNCHANGED <<pc, want, content, table>>

(* calloc; when it fails, the counts stay as they are found in memory.      *)
Allocate ==
  /\ pc = "grow" /\ ~More
  /\ \/ /\ pc' = "live" /\ buckets' = [i \in 0 .. n - 1 |-> <<>>]
        /\ bucket_count' = n /\ entry_count' = 0
     \/ /\ pc' = "failed" /\ buckets' = <<>>
        /\ bucket_count' \in Requests \cup {0} /\ entry_count' \in {0, bucket_count'}
  /\ UNCHANGED <<want, n, heap, content, changed>>

(* hash_table_insert, when malloc gives an entry (else nothing changes).    *)
(* Mutant: the entry does not lead to the chain it is put before.           *)
ChainedAlone(e, chain) == <<e>>
Chained(e, chain) == <<e>> \o chain

HashTableInsert(b, at) ==
  /\ pc = "live" /\ at \notin heap
  /\ LET h == Hash(content[b], BlockLen[b])
         idx == h % bucket_count
         e == [hash |-> h, data |-> b, len |-> BlockLen[b], at |-> at]
     IN buckets' = [buckets EXCEPT ![idx] = Chained(e, buckets[idx])]
  /\ heap' = heap \cup {at} /\ entry_count' = entry_count + 1
  /\ changed' = changed \ {at}
  /\ UNCHANGED <<pc, want, n, bucket_count, content>>

(* hash_table_lookup, which changes nothing.  Mutant: the chain is that of  *)
(* the next bucket.                                                         *)
ChainAfter(h) == buckets[(h + 1) % bucket_count]
ChainOf(h) == buckets[h % bucket_count]
Matches(e, h, c, l) == e.hash = h /\ e.len = l /\ content[e.data] = c
HashTableLookup(c, l) ==
  LET h == Hash(c, l)
      chain == ChainOf(h)
      hits == {k \in DOMAIN chain : Matches(chain[k], h, c, l)}
      first == CHOOSE k \in hits : \A j \in hits : k <= j
  IN IF hits = {} THEN NULL ELSE chain[first].at

(* The entries in the chains, and those of one block. *)
Linked == {a \in Addresses :
  \E i \in DOMAIN buckets : \E k \in DOMAIN buckets[i] : buckets[i][k].at = a}
LinkedTo(b) == {a \in Addresses :
  \E i \in DOMAIN buckets : \E k \in DOMAIN buckets[i] :
    buckets[i][k].at = a /\ buckets[i][k].data = b}

(* free_hash_table *)
FreeHashTable ==
  /\ pc = "live"
  /\ heap' = heap \ Linked
  /\ pc' = "none" /\ buckets' = <<>> /\ bucket_count' = 0 /\ entry_count' = 0
  /\ changed' = {}
  /\ UNCHANGED <<want, n, content>>

-----------------------------------------------------------------------------
(* The owner of a block changes it, back to what it was perhaps.            *)
ChangeBlock(b, c) ==
  /\ content[b] # c /\ content' = [content EXCEPT ![b] = c]
  /\ changed' = changed \cup LinkedTo(b)
  /\ UNCHANGED <<pc, want, n, buckets, bucket_count, entry_count, heap>>

Next ==
  \/ \E request \in Requests : InitHashTable(request)
  \/ Double \/ Allocate \/ FreeHashTable
  \/ \E b \in Blocks : (\E at \in Addresses : HashTableInsert(b, at)) \/ (\E c \in Contents : ChangeBlock(b, c))

Spec == Init /\ [][Next]_vars

-----------------------------------------------------------------------------
Entry == [hash : Nat, data : Blocks, len : {BlockLen[b] : b \in Blocks}, at : Addresses]
TypeOK ==
  /\ pc \in {"none", "grow", "live", "failed"}
  /\ want \in Nat /\ n \in Nat /\ entry_count \in Nat /\ bucket_count \in Nat
  /\ heap \subseteq Addresses /\ content \in [Blocks -> Contents]
  /\ (pc = "live" => bucket_count > 0 /\ buckets \in [0 .. bucket_count - 1 -> Seq(Entry)])
  /\ (pc # "live" => buckets = <<>>)

(* A block that has been inserted and not changed since is found by its     *)
(* content, whatever has been inserted, changed and collided meanwhile.     *)
FoundWhileUnchanged ==
  pc = "live" => \A i \in DOMAIN buckets : \A k \in DOMAIN buckets[i] :
    LET e == buckets[i][k]
    IN e.at \notin changed => HashTableLookup(content[e.data], e.len) # NULL

(* Every entry allocated is in one place of one chain, and counted; none is *)
(* left when the table is gone.                                             *)
NothingLeaked ==
  /\ heap = Linked
  /\ \A i, j \in DOMAIN buckets : \A k \in DOMAIN buckets[i], l \in DOMAIN buckets[j] :
       buckets[i][k].at = buckets[j][l].at => i = j /\ k = l
  /\ (pc = "live" => entry_count = Cardinality(heap))
=============================================================================
