----------------------------- MODULE DirtyCheck -----------------------------
(***************************************************************************)
(* check_collision of dirtPages.c: a page was hashed (page_hash), its full *)
(* hash may have been cached (rmap_item_hash_max), the tree found a page   *)
(* with an equal hash that differs, and the scanner now asks whether its   *)
(* own page was written meanwhile or whether the two hashes collide.       *)
(*                                                                         *)
(* The process that owns the page goes on writing it; the scanner reads    *)
(* one word a step.  A hash is the sequence of the words it read: an ideal *)
(* hash, which only the words decide.  Words are numbered in the order in  *)
(* which random_nums samples them.                                         *)
(***************************************************************************)
EXTENDS Naturals, Sequences

CONSTANTS HASH_STRENGTH_FULL, HASH_STRENGTH_LOOPBACK, WORDS

ASSUME PageAssumption ==
  HASH_STRENGTH_FULL \in Nat \ {0} /\ HASH_STRENGTH_LOOPBACK \in 0 .. HASH_STRENGTH_FULL

HASH_STRENGTH_MAX == HASH_STRENGTH_FULL + HASH_STRENGTH_LOOPBACK
Index == 0 .. HASH_STRENGTH_FULL - 1

VARIABLES
  key,                \* the words of the page
  hash_strength,
  hash,               \* of the last page_hash; <<>> when there is none
  hash_max,           \* rmap_item->hash_max; <<>> is 0, not computed
  task, read, goal,   \* the hash being computed or "idle", the words it read, its length
  err,                \* what check_collision returned, or "none"
  dirty, dirty_max,   \* ghosts: words written since the reading of hash, of hash_max, began
  raced               \* ghost: a write since the check began

vars == <<key, hash_strength, hash, hash_max, task, read, goal, err, dirty, dirty_max, raced>>
page == <<key, hash_strength>>
ghosts == <<dirty, dirty_max, raced>>


(* The word sampled at step n, the loop-back included. *)
Sampled(n) == IF n < HASH_STRENGTH_FULL THEN n ELSE n - HASH_STRENGTH_FULL

Compute(t, from, to) ==
  /\ task' = t /\ read' = from /\ goal' = to

Init ==
  /\ key \in [Index -> WORDS]
  /\ hash_strength \in 1 .. HASH_STRENGTH_MAX
  /\ hash = <<>> /\ hash_max = <<>> /\ err = "none"
  /\ task = "idle" /\ read = <<>> /\ goal = 0
  /\ dirty = {} /\ dirty_max = {} /\ raced = FALSE

(* page_hash at the strength in force; what is cached is kept. *)
PageHash ==
  /\ task = "idle"
  /\ Compute("page_hash", <<>>, hash_strength)
  /\ err' = "none" /\ dirty' = {} /\ raced' = FALSE
  /\ UNCHANGED <<page, hash, hash_max, dirty_max>>

Read ==
  /\ Len(read) < goal
  /\ read' = Append(read, key[Sampled(Len(read))])
  /\ UNCHANGED <<page, hash, hash_max, task, goal, err, ghosts>>

Hashed ==
  /\ task = "page_hash" /\ Len(read) = goal
  /\ hash' = read
  /\ Compute("hashed", <<>>, 0)
  /\ UNCHANGED <<page, hash_max, err, ghosts>>

(* page_hash_max extends the hash it is given over the page as it is now.   *)
PageHashMax(t) == Compute(t, hash, HASH_STRENGTH_MAX)

(* rmap_item_hash_max, when nothing is cached *)
RmapItemHashMax ==
  /\ task = "hashed" /\ hash_max = <<>>
  /\ PageHashMax("hash_max")
  /\ dirty_max' = dirty
  /\ UNCHANGED <<page, hash, hash_max, err, dirty, raced>>

Cached ==
  /\ task = "hash_max" /\ Len(read) = goal
  /\ hash_max' = read
  /\ Compute("hashed", <<>>, 0)
  /\ UNCHANGED <<page, hash, err, ghosts>>

(* check_collision; mutants: the cached hash is compared with itself, and   *)
(* without a cached hash the page is hashed in full.                        *)
CachedAsItIs == Compute("check_max", hash_max, HASH_STRENGTH_MAX)
Extended == PageHashMax("check_max")
InFull == HASH_STRENGTH_FULL
InForce == hash_strength
CheckCollision ==
  /\ task = "hashed"
  /\ IF hash_max # <<>> THEN Extended ELSE Compute("check", <<>>, InForce)
  /\ raced' = FALSE
  /\ UNCHANGED <<page, hash, hash_max, err, dirty, dirty_max>>

Verdict ==
  /\ task \in {"check_max", "check"} /\ Len(read) = goal
  /\ err' = IF read = (IF task = "check_max" THEN hash_max ELSE hash)
            THEN "COLLI" ELSE "CHANGED"
  /\ task' = "idle"
  /\ UNCHANGED <<page, hash, hash_max, read, goal, ghosts>>

(* The scanner passes on to another page and comes back, in this round or   *)
(* in one with another strength; the item may lose its full hash when it    *)
(* leaves the unstable tree, whose union holds it.                          *)
NextVisit ==
  /\ task \in {"hashed", "idle"} /\ hash # <<>>
  /\ Compute("idle", <<>>, 0)
  /\ hash' = <<>> /\ err' = "none"
  /\ hash_max' \in {hash_max, <<>>}
  /\ hash_strength' \in 1 .. HASH_STRENGTH_MAX
  /\ dirty_max' = IF hash_max' = <<>> THEN {} ELSE dirty_max
  /\ dirty' = {} /\ raced' = FALSE
  /\ UNCHANGED key

(* The owner of the page.  What it writes after a verdict is not looked at: *)
(* the next visit begins with any page.                                     *)
Write(i, w) ==
  /\ w # key[i]
  /\ key' = [key EXCEPT ![i] = w]
  /\ err = "none"
  /\ dirty' = IF task = "idle" THEN dirty ELSE dirty \cup {i}
  /\ dirty_max' = IF hash_max # <<>> \/ task = "hash_max" THEN dirty_max \cup {i} ELSE dirty_max
  /\ raced' = (task \in {"check_max", "check"} \/ raced)
  /\ UNCHANGED <<hash_strength, hash, hash_max, task, read, goal, err>>

Next ==
  \/ PageHash \/ Read \/ Hashed \/ RmapItemHashMax \/ Cached
  \/ CheckCollision \/ Verdict \/ NextVisit
  \/ \E i \in Index, w \in WORDS : Write(i, w)

Spec == Init /\ [][Next]_vars

-----------------------------------------------------------------------------
(* MERGE_ERR_CHANGED is never reported of a page nobody wrote since the     *)
(* hash it is compared with was begun, however the strength changed between *)
(* and although the readings overlap with writes (1099); without a full     *)
(* hash, only if a word it samples was written.                             *)
ChangedMeansWritten ==
  err = "CHANGED" =>
    IF hash_max # <<>> THEN dirty_max # {}
    ELSE \E n \in 0 .. hash_strength - 1 : Sampled(n) \in dirty

(* What MERGE_ERR_COLLI does say, when no write raced with the check: the   *)
(* words the check has read again are those the hash was made of.  With a   *)
(* cached full hash these are the words hash_strength left out, without one *)
(* the words it sampled.                                                    *)
CollisionReadTheSame ==
  err = "COLLI" /\ ~raced =>
    \A n \in 0 .. HASH_STRENGTH_MAX - 1 :
      /\ hash_max # <<>> /\ n >= hash_strength => key[Sampled(n)] = hash_max[n + 1]
      /\ hash_max = <<>> /\ n < hash_strength => key[Sampled(n)] = hash[n + 1]
=============================================================================
