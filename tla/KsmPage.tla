------------------------------- MODULE KsmPage ------------------------------
(***************************************************************************)
(* get_uksm_page of dirtPages.c, one access to shared memory a step,       *)
(* against the kernel, which meanwhile frees, migrates, reclaims and       *)
(* reuses pages.  The node keeps no reference to its page, only the number *)
(* kpfn; page->mapping leads back to the node, and is trusted only after   *)
(* three readings: bare, with a reference, and with the page lock.         *)
(*                                                                         *)
(* The kernel is external and modelled as get_uksm_page relies on it:      *)
(* migration holds the locks of both pages, gives up when somebody else    *)
(* holds a reference, freezes the count of a page in the swap cache while  *)
(* it moves it, and writes the new kpfn before it clears the old mapping;  *)
(* a frozen page is migrated or freed.                                     *)
(***************************************************************************)
EXTENDS Naturals

CONSTANTS
  Pages,
  First,        \* the node's page at the start
  OPERATIONS,   \* bound: how often the kernel sets out to migrate or reclaim
  RETURNS       \* may a migration go back to a page that was the node's before?

NULL == "NULL"
ASSUME KsmAssumption ==
  First \in Pages /\ NULL \notin Pages /\ OPERATIONS \in Nat /\ RETURNS \in BOOLEAN

VARIABLES
  node,       \* "listed" or "removed"
  kpfn,       \* stable_node->kpfn
  mapping,    \* page->mapping of each page: of this node, of another owner, or clear
  mapped,     \* pages that somebody maps
  swapcache,  \* PageSwapCache
  lock,       \* holder of each page lock
  op,         \* the kernel's operation: what, how far, from and to which page
  ops,        \* operations begun
  left,       \* ghost: pages that were the node's
  pc, kp, held, result   \* get_uksm_page, its local kpfn, its reference, the page returned

vars == <<node, kpfn, mapping, mapped, swapcache, lock, op, ops, left, pc, kp, held, result>>
kernel == <<kpfn, mapping, mapped, swapcache, op, ops, left>>
caller == <<pc, kp, held, result, node>>

NoOp == [what |-> "none", at |-> "idle", from |-> First, to |-> First]
Moved == {"moved", "renamed", "cleared"}
Ops == [what : {"none", "migrate", "reclaim"}, at : {"idle", "locked", "frozen"} \cup Moved, from : Pages, to : Pages]
Labels == {"again", "bare", "get", "zero", "referenced", "lock", "locked", "returned", "stale", "remove", "null"}
Frozen(p) == op.at = "frozen" /\ op.from = p

(* Is anybody but the scanner holding a reference? *)
HeldByKernel(p) ==
  \/ p \in mapped
  \/ p \in swapcache /\ ~(op.from = p /\ op.at \in Moved)
  \/ op.at # "idle" /\ p \in {op.from, op.to}
NoReference(p) == Frozen(p) \/ (~HeldByKernel(p) /\ ~(held /\ kp = p))
Free(p) == NoReference(p) /\ ~Frozen(p) /\ mapping[p] = "clear" /\ lock[p] = "none"

Init ==
  /\ node = "listed" /\ kpfn = First
  /\ mapping = [p \in Pages |-> IF p = First THEN "node" ELSE "clear"]
  /\ mapped = {First} /\ swapcache = {}
  /\ lock = [p \in Pages |-> "none"] /\ op = NoOp /\ ops = 0 /\ left = {First}
  /\ pc = "again" /\ kp = First /\ held = FALSE /\ result = NULL

-----------------------------------------------------------------------------
(* get_uksm_page *)
locals == <<kp, held, result, node, lock>>
Goto(from, to) == pc = from /\ pc' = to /\ UNCHANGED kernel

ReadKpfn ==
  /\ Goto("again", "bare") /\ node = "listed"
  /\ kp' = kpfn /\ UNCHANGED <<held, result, node, lock>>

(* expected_mapping *)
IsNodes == mapping[kp] = "node"

ReadMapping == Goto("bare", IF IsNodes THEN "get" ELSE "stale") /\ UNCHANGED locals

(* get_page_unless_zero *)
GetPage ==
  /\ Goto("get", IF NoReference(kp) THEN "zero" ELSE "referenced")
  /\ held' = ~NoReference(kp) /\ UNCHANGED <<kp, result, node, lock>>

(* A count of 0 in the swap cache may be frozen: wait; mutants: it is dead, *)
(* and a page that has left the swap cache is waited for as well.           *)
ZeroSpins == Goto("zero", "get") /\ UNCHANGED locals
ZeroMeansStale == Goto("zero", "stale") /\ UNCHANGED locals
ZeroCount == Goto("zero", IF kp \in swapcache THEN "get" ELSE "stale") /\ UNCHANGED locals

ReadMappingAgain ==
  /\ Goto("referenced", IF IsNodes THEN "lock" ELSE "stale")
  /\ held' = IsNodes /\ UNCHANGED <<kp, result, node, lock>>

LockPage ==
  /\ Goto("lock", "locked") /\ lock[kp] = "none"
  /\ lock' = [lock EXCEPT ![kp] = "scanner"] /\ UNCHANGED <<kp, held, result, node>>

(* The third reading, under the lock, which is released; mutant: none is    *)
(* made.                                                                    *)
LeaveLock(ok) ==
  /\ Goto("locked", IF ok THEN "returned" ELSE "stale")
  /\ lock' = [lock EXCEPT ![kp] = "none"] /\ held' = ok
  /\ result' = (IF ok THEN kp ELSE NULL) /\ UNCHANGED <<kp, node>>
ReturnUnread == LeaveLock(TRUE)
Return == LeaveLock(IsNodes)

(* stale: a migration changed kpfn, or the node goes; mutant: it just goes. *)
StaleUnread == Goto("stale", "remove") /\ UNCHANGED locals
Stale == Goto("stale", IF kpfn # kp THEN "again" ELSE "remove") /\ UNCHANGED locals

(* remove_node_from_stable_tree *)
RemoveNode == Goto("remove", "null") /\ node' = "removed" /\ UNCHANGED <<kp, held, result, lock>>

(* The caller is done with the page, and calls again some time. *)
Release ==
  /\ Goto("returned", "again")
  /\ result' = NULL /\ held' = FALSE /\ UNCHANGED <<kp, node, lock>>

Step == ReadKpfn \/ ReadMapping \/ GetPage \/ ZeroCount \/ ReadMappingAgain \/ LockPage \/ Return \/ Stale \/ RemoveNode

-----------------------------------------------------------------------------
(* The kernel *)
Begin(what, p, q) ==
  /\ op.at = "idle" /\ ops < OPERATIONS /\ ops' = ops + 1
  /\ mapping[p] = "node" /\ HeldByKernel(p) /\ lock[p] = "none"
  /\ op' = [what |-> what, at |-> "locked", from |-> p, to |-> q]
  /\ lock' = [lock EXCEPT ![p] = "kernel", ![q] = "kernel"]
  /\ mapped' = mapped \ {p}
  /\ UNCHANGED <<kpfn, mapping, swapcache, left, caller>>

Migrate(p, q) == p # q /\ Free(q) /\ (RETURNS \/ q \notin left) /\ Begin("migrate", p, q)
Reclaim(p) == p \in swapcache /\ Begin("reclaim", p, p)

Reach(from, to) == op.at = from /\ op' = [op EXCEPT !.at = to] /\ UNCHANGED <<mapped, ops, lock, caller>>
End ==
  /\ op' = NoOp /\ lock' = [lock EXCEPT ![op.from] = "none", ![op.to] = "none"]
  /\ UNCHANGED <<kpfn, mapping, ops, left, caller>>

(* Somebody else holds a reference, the scanner: give up and map it again.  *)
HeldByScanner == held /\ kp = op.from
GiveUp == op.at = "locked" /\ HeldByScanner /\ mapped' = mapped \cup {op.from} /\ End /\ UNCHANGED swapcache

Freeze ==
  /\ Reach("locked", "frozen") /\ ~HeldByScanner /\ op.from \in swapcache
  /\ UNCHANGED <<kpfn, mapping, swapcache, left>>

Move ==
  /\ op.what = "migrate" /\ mapping' = [mapping EXCEPT ![op.to] = "node"]
  /\ \/ Reach("frozen", "moved") /\ swapcache' = swapcache \cup {op.to}
     \/ Reach("locked", "moved") /\ ~HeldByScanner /\ op.from \notin swapcache /\ UNCHANGED swapcache
  /\ UNCHANGED <<kpfn, left>>

Rename == Reach("moved", "renamed") /\ kpfn' = op.to /\ left' = left \cup {op.to} /\ UNCHANGED <<mapping, swapcache>>
Clear ==
  /\ Reach("renamed", "cleared") /\ mapping' = [mapping EXCEPT ![op.from] = "clear"]
  /\ UNCHANGED <<kpfn, swapcache, left>>

EndMigration ==
  /\ op.at = "cleared" /\ End
  /\ swapcache' = swapcache \ {op.from} /\ mapped' = mapped \cup {op.to}
EndReclaim ==
  /\ op.what = "reclaim" /\ op.at = "frozen" /\ End
  /\ swapcache' = swapcache \ {op.from} /\ UNCHANGED mapped

AddToSwap(p) ==
  /\ op.at = "idle" /\ mapping[p] = "node" /\ HeldByKernel(p) /\ lock[p] = "none"
  /\ swapcache' = swapcache \cup {p} /\ UNCHANGED <<kpfn, mapping, mapped, op, ops, left, lock, caller>>

(* The last mapping of a page goes; a page without references is freed, and *)
(* given to another owner.                                                  *)
Unmap(p) ==
  /\ p \in mapped /\ mapped' = mapped \ {p}
  /\ UNCHANGED <<kpfn, mapping, swapcache, op, ops, left, lock, caller>>
FreePage(p) ==
  /\ NoReference(p) /\ ~Frozen(p) /\ mapping[p] # "clear" /\ mapping' = [mapping EXCEPT ![p] = "clear"]
  /\ UNCHANGED <<kpfn, mapped, swapcache, op, ops, left, lock, caller>>
AllocPage(p) ==
  /\ Free(p) /\ mapping' = [mapping EXCEPT ![p] = "other"] /\ mapped' = mapped \cup {p}
  /\ UNCHANGED <<kpfn, swapcache, op, ops, left, lock, caller>>

KernelStep == GiveUp \/ Freeze \/ Move \/ Rename \/ Clear \/ EndMigration \/ EndReclaim

Next ==
  \/ Step \/ Release \/ KernelStep
  \/ \E p, q \in Pages : Migrate(p, q)
  \/ \E p \in Pages : Reclaim(p) \/ AddToSwap(p) \/ Unmap(p) \/ FreePage(p) \/ AllocPage(p)

Spec == Init /\ [][Next]_vars
FairSpec == Spec /\ WF_vars(Step) /\ WF_vars(KernelStep)

-----------------------------------------------------------------------------
TypeOK ==
  /\ node \in {"listed", "removed"} /\ kpfn \in Pages /\ kp \in Pages /\ held \in BOOLEAN
  /\ mapping \in [Pages -> {"node", "other", "clear"}]
  /\ mapped \subseteq Pages /\ swapcache \subseteq Pages /\ left \subseteq Pages
  /\ lock \in [Pages -> {"none", "scanner", "kernel"}]
  /\ op \in Ops /\ ops \in Nat /\ pc \in Labels /\ result \in Pages \cup {NULL}

(* The page that get_uksm_page returns is the node's and stays the node's   *)
(* while the caller holds it: nobody frees, migrates or reuses it, although *)
(* the lock was given back before the return (1404-1413).                   *)
ReturnedPageIsNodes ==
  result # NULL => mapping[result] = "node" /\ kpfn = result /\ ~NoReference(result)

PageAlive == \E p \in Pages : mapping[p] = "node" /\ (Frozen(p) \/ ~NoReference(p))

(* The node is removed only when no page is left that leads back to it: not *)
(* because a migration moved the page or froze its count for a moment.      *)
NodeKeptWhilePageLives == node = "removed" => ~PageAlive

(* On every way out of the function but the successful one, the reference   *)
(* and the lock have been given back.                                       *)
NothingLeftHeld ==
  pc \in {"again", "stale", "null"} => ~held /\ \A p \in Pages : lock[p] # "scanner"

(* The three readings, the reference and the lock amount to one indivisible *)
(* step on one page.                                                        *)
K == INSTANCE Keyhole WITH
  alive <- PageAlive, listed <- node = "listed", held <- result # NULL
ImplementsKeyhole == K!Spec

(* However often it starts again or waits for a frozen count or a lock, the *)
(* call returns when the page is not migrated for ever.                     *)
CallReturns == pc \notin {"again", "returned", "null"} ~> pc \in {"returned", "null"}
=============================================================================
