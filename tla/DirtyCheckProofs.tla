-------------------------- MODULE DirtyCheckProofs --------------------------
(***************************************************************************)
(* Proofs about DirtyCheck: what each verdict of check_collision says, for *)
(* every page size, loop-back and set of words.                            *)
(*                                                                         *)
(* The argument is that every hash, finished or under way, follows the     *)
(* page but for the words written since its reading began; and that what   *)
(* was written since the last page_hash was also written since a cached    *)
(* full hash.                                                              *)
(***************************************************************************)
EXTENDS DirtyCheck, SequenceTheorems, TLAPS

Tasks == {"idle", "page_hash", "hashed", "hash_max", "check", "check_max"}

Types ==
  /\ key \in [Index -> WORDS]
  /\ hash_strength \in 1 .. HASH_STRENGTH_MAX
  /\ hash \in Seq(WORDS) /\ hash_max \in Seq(WORDS) /\ read \in Seq(WORDS)
  /\ task \in Tasks /\ goal \in 0 .. HASH_STRENGTH_MAX
  /\ err \in {"none", "COLLI", "CHANGED"}

(* The words of s are those of page k, but for the words in d. *)
Follows(k, s, d) == \A n \in 0 .. Len(s) - 1 : Sampled(n) \notin d => s[n + 1] = k[Sampled(n)]

(* A verdict stands until the next page_hash or visit; while a check is on  *)
(* there is a hash, and it is the page's.                                   *)
HashFollows ==
  /\ task # "idle" => err = "none"
  /\ task = "idle" /\ err = "none" => hash = <<>>
  /\ task \notin {"idle", "page_hash"} => hash # <<>>
  /\ task # "page_hash" /\ hash # <<>> => Len(hash) = hash_strength /\ Follows(key, hash, dirty)

HashMaxFollows ==
  /\ hash_max # <<>> => Len(hash_max) = HASH_STRENGTH_MAX /\ Follows(key, hash_max, dirty_max)
  /\ hash_max # <<>> \/ task = "hash_max" => dirty \subseteq dirty_max

ReadFollows ==
  /\ Len(read) <= goal
  /\ task \in {"idle", "hashed"} => Len(read) = goal
  /\ task \in {"page_hash", "check"} => goal = hash_strength /\ Follows(key, read, dirty)
  /\ task \in {"hash_max", "check_max"} =>
       /\ goal = HASH_STRENGTH_MAX /\ hash_strength <= Len(read)
       /\ Follows(key, read, dirty_max)
  /\ task \in {"hash_max", "check"} => hash_max = <<>>
  /\ task = "check_max" => hash_max # <<>>

(* What a check reads when nobody writes meanwhile is what the page holds. *)
ChecksRead ==
  /\ task = "check" /\ ~raced => Follows(key, read, {})
  /\ task = "check_max" /\ ~raced =>
       \A n \in hash_strength .. Len(read) - 1 : read[n + 1] = key[Sampled(n)]

DInv ==
  /\ Types /\ HashFollows /\ HashMaxFollows /\ ReadFollows /\ ChecksRead
  /\ ChangedMeansWritten /\ CollisionReadTheSame

-----------------------------------------------------------------------------
(* Lemmas about hashes and the words they were read from. *)

LEMMA SampledInPage == \A n \in 0 .. HASH_STRENGTH_MAX - 1 : Sampled(n) \in Index
BY PageAssumption DEF Sampled, Index, HASH_STRENGTH_MAX

LEMMA MaxIsNat == HASH_STRENGTH_MAX \in Nat \ {0}
BY PageAssumption DEF HASH_STRENGTH_MAX

LEMMA EmptyFollows == ASSUME NEW k, NEW d PROVE Follows(k, <<>>, d)
BY DEF Follows

LEMMA FollowsLess ==
  ASSUME NEW k, NEW s, NEW d, NEW e, Follows(k, s, d), d \subseteq e
  PROVE  Follows(k, s, e)
BY DEF Follows

LEMMA FollowsOneMore ==
  ASSUME NEW k, NEW s \in Seq(WORDS), NEW d, Follows(k, s, d), k[Sampled(Len(s))] \in WORDS
  PROVE  Follows(k, Append(s, k[Sampled(Len(s))]), d)
<1> DEFINE w == k[Sampled(Len(s))]
           t == Append(s, w)
<1>1. Len(t) = Len(s) + 1 /\ Len(s) \in Nat
  BY AppendProperties
<1>2. SUFFICES ASSUME NEW n \in 0 .. Len(t) - 1, Sampled(n) \notin d
      PROVE  t[n + 1] = k[Sampled(n)]
  BY DEF Follows
<1>3. CASE n = Len(s)
  BY <1>1, <1>3, AppendProperties
<1>4. CASE n # Len(s)
  <2>1. n \in 0 .. Len(s) - 1 /\ n + 1 \in 1 .. Len(s)
    BY <1>1, <1>2, <1>4
  <2>2. t[n + 1] = s[n + 1]
    BY <2>1, AppendProperties
  <2>3. QED
    BY <2>1, <2>2, <1>2 DEF Follows
<1>5. QED
  BY <1>3, <1>4

(* A write is noted in d, so what follows the page goes on doing so. *)
LEMMA FollowsWritten ==
  ASSUME NEW k \in [Index -> WORDS], NEW s \in Seq(WORDS), NEW d, Follows(k, s, d),
         Len(s) <= HASH_STRENGTH_MAX, NEW i \in Index, NEW w \in WORDS
  PROVE  Follows([k EXCEPT ![i] = w], s, d \cup {i})
<1> SUFFICES ASSUME NEW n \in 0 .. Len(s) - 1, Sampled(n) \notin d \cup {i}
    PROVE  s[n + 1] = [k EXCEPT ![i] = w][Sampled(n)]
  BY DEF Follows
<1>1. n \in 0 .. HASH_STRENGTH_MAX - 1
  BY LenProperties, MaxIsNat
<1>2. Sampled(n) \in Index /\ Sampled(n) # i
  BY <1>1, SampledInPage
<1>3. s[n + 1] = k[Sampled(n)]
  BY DEF Follows
<1>4. QED
  BY <1>2, <1>3

(* Two readings of the same length that follow one page are the same. *)
LEMMA FollowersAgree ==
  ASSUME NEW k, NEW s \in Seq(WORDS), NEW t \in Seq(WORDS), Len(s) = Len(t), s # t, NEW d,
         Follows(k, s, d), Follows(k, t, d)
  PROVE  \E n \in 0 .. Len(s) - 1 : Sampled(n) \in d
<1>1. \E j \in 1 .. Len(s) : s[j] # t[j]
  BY SeqEqual
<1>2. PICK j \in 1 .. Len(s) : s[j] # t[j]
  BY <1>1
<1>3. j - 1 \in 0 .. Len(s) - 1 /\ (j - 1) + 1 = j
  BY <1>2, LenProperties
<1>4. QED
  BY <1>2, <1>3 DEF Follows
-----------------------------------------------------------------------------
(* The inductive invariant. *)

LEMMA DInitial == Init => DInv
<1> SUFFICES ASSUME Init PROVE DInv
  OBVIOUS
<1>1. Types
  BY MaxIsNat DEF Init, Types, Tasks
<1>2. HashFollows /\ HashMaxFollows /\ ReadFollows /\ ChecksRead
  BY DEF Init, HashFollows, HashMaxFollows, ReadFollows, ChecksRead
<1>3. ChangedMeansWritten /\ CollisionReadTheSame
  BY DEF Init, ChangedMeansWritten, CollisionReadTheSame
<1>4. QED
  BY <1>1, <1>2, <1>3 DEF DInv

LEMMA PageHashKeeps == DInv /\ PageHash => DInv'
<1> SUFFICES ASSUME DInv, PageHash PROVE DInv'
  OBVIOUS
<1> USE DEF PageHash, Compute, page
<1>1. Types'
  BY MaxIsNat DEF DInv, Types, Tasks
<1>2. HashFollows' /\ HashMaxFollows'
  BY DEF DInv, HashFollows, HashMaxFollows
<1>3. ReadFollows' /\ ChecksRead'
  BY EmptyFollows DEF DInv, Types, ReadFollows, ChecksRead
<1>4. ChangedMeansWritten' /\ CollisionReadTheSame'
  BY DEF ChangedMeansWritten, CollisionReadTheSame
<1>5. QED
  BY <1>1, <1>2, <1>3, <1>4 DEF DInv

LEMMA ReadKeeps == DInv /\ Read => DInv'
<1> SUFFICES ASSUME DInv, Read PROVE DInv'
  OBVIOUS
<1> DEFINE w == key[Sampled(Len(read))]
<1>1. /\ read \in Seq(WORDS) /\ Len(read) \in 0 .. HASH_STRENGTH_MAX - 1 /\ goal \in 0 .. HASH_STRENGTH_MAX
      /\ hash_strength \in 1 .. HASH_STRENGTH_MAX
  BY MaxIsNat, LenProperties DEF DInv, Types, Read
<1>2. w \in WORDS
  BY <1>1, SampledInPage DEF DInv, Types
<1>3. read' = Append(read, w) /\ read' \in Seq(WORDS) /\ Len(read') = Len(read) + 1
  BY <1>1, <1>2, AppendProperties DEF Read
<1>4. UNCHANGED <<key, hash_strength, hash, hash_max, task, goal, err, dirty, dirty_max, raced>>
  BY DEF Read, page, ghosts
<1>5. Types' /\ HashFollows' /\ HashMaxFollows'
  BY <1>3, <1>4 DEF DInv, Types, HashFollows, HashMaxFollows
<1>6. \A d : Follows(key, read, d) => Follows(key, read', d)
  BY <1>1, <1>2, <1>3, FollowsOneMore
<1>7. Len(read) < goal
  BY DEF Read
<1>8. ReadFollows'
  BY <1>1, <1>3, <1>4, <1>6, <1>7, MaxIsNat DEF DInv, ReadFollows
<1>9. ASSUME task = "check_max", ~raced, NEW n \in hash_strength .. Len(read') - 1
      PROVE  read'[n + 1] = key[Sampled(n)]
  <2>1. CASE n = Len(read)
    BY <1>1, <1>2, <1>3, <2>1, AppendProperties
  <2>2. CASE n # Len(read)
    <3>1. n \in hash_strength .. Len(read) - 1 /\ n + 1 \in 1 .. Len(read)
      BY <1>1, <1>3, <1>9, <2>2
    <3>2. read'[n + 1] = read[n + 1]
      BY <1>1, <1>2, <1>3, <3>1, AppendProperties
    <3>3. QED
      BY <1>9, <3>1, <3>2 DEF DInv, ChecksRead
  <2>3. QED
    BY <2>1, <2>2
<1>10. ChecksRead'
  BY <1>4, <1>6, <1>9 DEF DInv, ChecksRead
<1>11. ChangedMeansWritten' /\ CollisionReadTheSame'
  BY <1>4 DEF DInv, ChangedMeansWritten, CollisionReadTheSame
<1>12. QED
  BY <1>5, <1>8, <1>10, <1>11 DEF DInv

LEMMA HashedKeeps == DInv /\ Hashed => DInv'
<1> SUFFICES ASSUME DInv, Hashed PROVE DInv'
  OBVIOUS
<1> USE DEF Hashed, Compute, page, ghosts
<1>1. Types'
  BY MaxIsNat DEF DInv, Types, Tasks
<1>2. hash' # <<>> /\ Len(hash') = hash_strength /\ Follows(key, hash', dirty)
  BY MaxIsNat DEF DInv, Types, ReadFollows
<1>3. HashFollows' /\ HashMaxFollows'
  BY <1>2 DEF DInv, HashFollows, HashMaxFollows
<1>4. ReadFollows' /\ ChecksRead'
  BY EmptyFollows DEF DInv, ReadFollows, ChecksRead
<1>5. ChangedMeansWritten' /\ CollisionReadTheSame'
  BY DEF DInv, HashFollows, ChangedMeansWritten, CollisionReadTheSame
<1>6. QED
  BY <1>1, <1>3, <1>4, <1>5 DEF DInv

LEMMA RmapItemHashMaxKeeps == DInv /\ RmapItemHashMax => DInv'
<1> SUFFICES ASSUME DInv, RmapItemHashMax PROVE DInv'
  OBVIOUS
<1> USE DEF RmapItemHashMax, PageHashMax, Compute, page
<1>1. Types'
  BY MaxIsNat DEF DInv, Types, Tasks
<1>2. HashFollows' /\ HashMaxFollows'
  BY DEF DInv, HashFollows, HashMaxFollows
<1>3. Len(hash) = hash_strength /\ Follows(key, hash, dirty)
  BY DEF DInv, HashFollows
<1>4. ReadFollows' /\ ChecksRead'
  BY <1>3, MaxIsNat DEF DInv, Types, ReadFollows, ChecksRead
<1>5. ChangedMeansWritten' /\ CollisionReadTheSame'
  BY DEF DInv, HashFollows, ChangedMeansWritten, CollisionReadTheSame
<1>6. QED
  BY <1>1, <1>2, <1>4, <1>5 DEF DInv

LEMMA CachedKeeps == DInv /\ Cached => DInv'
<1> SUFFICES ASSUME DInv, Cached PROVE DInv'
  OBVIOUS
<1> USE DEF Cached, Compute, page, ghosts
<1>1. Types'
  BY MaxIsNat DEF DInv, Types, Tasks
<1>2. HashFollows' /\ HashMaxFollows'
  BY DEF DInv, HashFollows, HashMaxFollows, ReadFollows
<1>3. ReadFollows' /\ ChecksRead'
  BY DEF DInv, ReadFollows, ChecksRead
<1>4. ChangedMeansWritten' /\ CollisionReadTheSame'
  BY DEF DInv, HashFollows, ChangedMeansWritten, CollisionReadTheSame
<1>5. QED
  BY <1>1, <1>2, <1>3, <1>4 DEF DInv

LEMMA CheckCollisionKeeps == DInv /\ CheckCollision => DInv'
<1> SUFFICES ASSUME DInv, CheckCollision PROVE DInv'
  OBVIOUS
<1> USE DEF CheckCollision, Extended, PageHashMax, InForce, Compute, page
<1>1. Types'
  BY MaxIsNat DEF DInv, Types, Tasks
<1>2. HashFollows' /\ HashMaxFollows'
  BY DEF DInv, HashFollows, HashMaxFollows
<1>3. Len(hash) = hash_strength /\ Follows(key, hash, dirty) /\ err = "none"
  BY DEF DInv, HashFollows
<1>4. ASSUME hash_max # <<>> PROVE ReadFollows' /\ ChecksRead'
  <2>1. Follows(key, hash, dirty_max)
    BY <1>3, <1>4, FollowsLess DEF DInv, HashMaxFollows
  <2>2. ReadFollows' /\ ChecksRead'
    BY <1>3, <1>4, <2>1, MaxIsNat DEF DInv, Types, ReadFollows, ChecksRead
  <2>3. QED
    BY <2>2
<1>5. ASSUME hash_max = <<>> PROVE ReadFollows' /\ ChecksRead'
  BY <1>5, EmptyFollows DEF DInv, Types, ReadFollows, ChecksRead
<1>6. ChangedMeansWritten' /\ CollisionReadTheSame'
  BY <1>3 DEF ChangedMeansWritten, CollisionReadTheSame
<1>7. QED
  BY <1>1, <1>2, <1>4, <1>5, <1>6 DEF DInv

(* The two verdicts are where the properties are decided. *)
LEMMA VerdictKeeps == DInv /\ Verdict => DInv'
<1> SUFFICES ASSUME DInv, Verdict PROVE DInv'
  OBVIOUS
<1>0. /\ task' = "idle" /\ err' \in {"COLLI", "CHANGED"} /\ Len(read) = goal
      /\ UNCHANGED <<key, hash_strength, hash, hash_max, read, goal, dirty, dirty_max, raced>>
  BY DEF Verdict, page, ghosts
<1>1. Types'
  BY <1>0 DEF DInv, Types, Tasks
<1>2. hash # <<>> /\ Len(hash) = hash_strength /\ Follows(key, hash, dirty)
  BY DEF DInv, HashFollows, Verdict
<1>3. HashFollows' /\ HashMaxFollows' /\ ReadFollows' /\ ChecksRead'
  BY <1>0, <1>2 DEF DInv, HashFollows, HashMaxFollows, ReadFollows, ChecksRead
<1>4. CASE task = "check_max"
  <2>1. /\ hash_max # <<>> /\ Len(hash_max) = HASH_STRENGTH_MAX /\ Len(read) = HASH_STRENGTH_MAX
        /\ Follows(key, hash_max, dirty_max) /\ Follows(key, read, dirty_max)
    BY <1>0, <1>4 DEF DInv, HashMaxFollows, ReadFollows
  <2>2. err' = IF read = hash_max THEN "COLLI" ELSE "CHANGED"
    BY <1>4 DEF Verdict
  <2>3. read # hash_max => \E n \in 0 .. Len(read) - 1 : Sampled(n) \in dirty_max
    BY <2>1, FollowersAgree DEF DInv, Types
  <2>4. ChangedMeansWritten'
    BY <1>0, <2>1, <2>2, <2>3 DEF ChangedMeansWritten
  <2>5. CollisionReadTheSame'
    <3> SUFFICES ASSUME err' = "COLLI", ~raced, NEW n \in 0 .. HASH_STRENGTH_MAX - 1, n >= hash_strength
        PROVE  key[Sampled(n)] = hash_max[n + 1]
      BY <1>0, <2>1 DEF CollisionReadTheSame
    <3>1. read = hash_max
      BY <2>2
    <3>2. n \in hash_strength .. Len(read) - 1
      BY <2>1, MaxIsNat DEF DInv, Types
    <3>3. QED
      BY <1>4, <3>1, <3>2 DEF DInv, ChecksRead
  <2>6. QED
    BY <1>1, <1>3, <2>4, <2>5 DEF DInv
<1>5. CASE task = "check"
  <2>1. /\ hash_max = <<>> /\ Len(read) = hash_strength /\ Follows(key, read, dirty)
        /\ (~raced => Follows(key, read, {}))
    BY <1>0, <1>5 DEF DInv, ReadFollows, ChecksRead
  <2>2. err' = IF read = hash THEN "COLLI" ELSE "CHANGED"
    BY <1>5 DEF Verdict
  <2>3. read # hash => \E n \in 0 .. Len(read) - 1 : Sampled(n) \in dirty
    BY <1>2, <2>1, FollowersAgree DEF DInv, Types
  <2>4. ChangedMeansWritten'
    BY <1>0, <2>1, <2>2, <2>3 DEF ChangedMeansWritten
  <2>5. CollisionReadTheSame'
    <3> SUFFICES ASSUME err' = "COLLI", ~raced, NEW n \in 0 .. HASH_STRENGTH_MAX - 1, n < hash_strength
        PROVE  key[Sampled(n)] = hash[n + 1]
      BY <1>0, <2>1 DEF CollisionReadTheSame
    <3>1. read = hash
      BY <2>2
    <3>2. n \in 0 .. Len(read) - 1
      BY <2>1 DEF DInv, Types
    <3>3. QED
      BY <2>1, <3>1, <3>2 DEF Follows
  <2>6. QED
    BY <1>1, <1>3, <2>4, <2>5 DEF DInv
<1>6. QED
  BY <1>4, <1>5 DEF Verdict

LEMMA NextVisitKeeps == DInv /\ NextVisit => DInv'
<1> SUFFICES ASSUME DInv, NextVisit PROVE DInv'
  OBVIOUS
<1> USE DEF NextVisit, Compute
<1>0. <<>> \in Seq(WORDS) /\ Len(<<>>) = 0 /\ 0 \in 0 .. HASH_STRENGTH_MAX
  BY MaxIsNat
<1>1. Types'
  <2>1. hash_max' \in Seq(WORDS)
    BY <1>0 DEF DInv, Types
  <2>2. key' \in [Index -> WORDS]
    BY DEF DInv, Types
  <2>3. QED
    BY <1>0, <2>1, <2>2 DEF Types, Tasks
<1>2. HashFollows' /\ HashMaxFollows'
  BY DEF DInv, HashFollows, HashMaxFollows
<1>3. ReadFollows' /\ ChecksRead'
  BY <1>0 DEF ReadFollows, ChecksRead
<1>4. ChangedMeansWritten' /\ CollisionReadTheSame'
  BY DEF ChangedMeansWritten, CollisionReadTheSame
<1>5. QED
  BY <1>1, <1>2, <1>3, <1>4 DEF DInv

LEMMA WriteKeeps == ASSUME NEW i \in Index, NEW w \in WORDS PROVE DInv /\ Write(i, w) => DInv'
<1> SUFFICES ASSUME DInv, Write(i, w) PROVE DInv'
  OBVIOUS
<1>1. /\ key' = [key EXCEPT ![i] = w] /\ err = "none"
      /\ dirty' = (IF task = "idle" THEN dirty ELSE dirty \cup {i})
      /\ dirty_max' = (IF hash_max # <<>> \/ task = "hash_max" THEN dirty_max \cup {i} ELSE dirty_max)
      /\ raced' = (task \in {"check_max", "check"} \/ raced)
      /\ UNCHANGED <<hash_strength, hash, hash_max, task, read, goal, err>>
  BY DEF Write
<1>2. Types'
  BY <1>1 DEF DInv, Types
<1>3. ASSUME NEW s \in Seq(WORDS), NEW d, Follows(key, s, d), Len(s) <= HASH_STRENGTH_MAX
      PROVE  Follows(key', s, d \cup {i})
  BY <1>1, <1>3, FollowsWritten DEF DInv, Types
<1>4. hash \in Seq(WORDS) /\ hash_max \in Seq(WORDS) /\ read \in Seq(WORDS)
      /\ hash_strength \in 1 .. HASH_STRENGTH_MAX /\ goal \in 0 .. HASH_STRENGTH_MAX
  BY DEF DInv, Types
<1>5. HashFollows'
  <2>1. ASSUME task # "page_hash", hash # <<>>
        PROVE  task # "idle" /\ Len(hash) = hash_strength /\ Follows(key', hash, dirty \cup {i})
    <3>1. task # "idle" /\ Len(hash) = hash_strength /\ Follows(key, hash, dirty)
      BY <1>1, <2>1 DEF DInv, HashFollows
    <3>2. Len(hash) <= HASH_STRENGTH_MAX
      BY <1>4, <3>1, MaxIsNat
    <3>3. QED
      BY <1>3, <1>4, <3>1, <3>2
  <2>2. QED
    BY <1>1, <2>1 DEF DInv, HashFollows
<1>6. HashMaxFollows'
  <2>1. ASSUME hash_max # <<>>
        PROVE  Len(hash_max) = HASH_STRENGTH_MAX /\ Follows(key', hash_max, dirty_max \cup {i})
    <3>1. Len(hash_max) = HASH_STRENGTH_MAX /\ Follows(key, hash_max, dirty_max)
      BY <2>1 DEF DInv, HashMaxFollows
    <3>2. Len(hash_max) <= HASH_STRENGTH_MAX
      BY <3>1, MaxIsNat
    <3>3. QED
      BY <1>3, <1>4, <3>1, <3>2
  <2>2. hash_max # <<>> \/ task = "hash_max" => dirty' \subseteq dirty_max'
    BY <1>1 DEF DInv, HashMaxFollows
  <2>3. QED
    BY <1>1, <2>1, <2>2 DEF HashMaxFollows
<1>7. Len(read) <= HASH_STRENGTH_MAX
  BY <1>4, MaxIsNat, LenProperties DEF DInv, ReadFollows
<1>8. ReadFollows'
  BY <1>1, <1>3, <1>4, <1>7 DEF DInv, ReadFollows
<1>9. ChecksRead'
  BY <1>1 DEF DInv, ChecksRead
<1>10. ChangedMeansWritten' /\ CollisionReadTheSame'
  BY <1>1 DEF ChangedMeansWritten, CollisionReadTheSame
<1>11. QED
  BY <1>2, <1>5, <1>6, <1>8, <1>9, <1>10 DEF DInv

LEMMA DInductive == DInv /\ [Next]_vars => DInv'
<1> SUFFICES ASSUME DInv, [Next]_vars PROVE DInv'
  OBVIOUS
<1>1. ASSUME UNCHANGED vars PROVE DInv'
  BY <1>1 DEF vars, DInv, Types, HashFollows, HashMaxFollows, ReadFollows, ChecksRead,
              ChangedMeansWritten, CollisionReadTheSame
<1>2. QED
  BY <1>1, PageHashKeeps, ReadKeeps, HashedKeeps, RmapItemHashMaxKeeps, CachedKeeps,
     CheckCollisionKeeps, VerdictKeeps, NextVisitKeeps, WriteKeeps DEF Next

LEMMA DirtyCheckInv == Spec => []DInv
BY DInitial, DInductive, PTL DEF Spec

-----------------------------------------------------------------------------
(* check_collision never reports a page as changed that nobody wrote since  *)
(* the hash it compares with was begun; without a cached full hash, only if *)
(* a word it samples was written: for pages, strengths and loop-backs of    *)
(* every size, whatever is written between any two of its reads.            *)
THEOREM ChangedIsTrue == Spec => []ChangedMeansWritten
BY DirtyCheckInv, PTL DEF DInv

(* A collision reported without a write during the check says that the      *)
(* words the check has read again are those the hash was made of.           *)
THEOREM CollisionIsTrue == Spec => []CollisionReadTheSame
BY DirtyCheckInv, PTL DEF DInv
=============================================================================
