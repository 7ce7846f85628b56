--------------------------- MODULE KsmPageProofs ----------------------------
(***************************************************************************)
(* Theorems about KsmPage, for any number of pages and of operations of    *)
(* the kernel: what get_uksm_page returns, and, as long as no migration    *)
(* brings a page back to a frame that was the node's, that it amounts to   *)
(* the indivisible step of Keyhole.                                        *)
(***************************************************************************)
EXTENDS KsmPage, TLAPS

(* Who holds the page locks, and the scanner's reference and result.        *)
Locks ==
  /\ \A p \in Pages : lock[p] = "scanner" <=> pc = "locked" /\ p = kp
  /\ \A p \in Pages : lock[p] = "kernel" <=> op.at # "idle" /\ p \in {op.from, op.to}
Holding ==
  /\ held <=> pc \in {"referenced", "lock", "locked", "returned"}
  /\ result = IF pc = "returned" THEN kp ELSE NULL
  /\ node = "removed" <=> pc = "null"

(* What an operation of the kernel has and has not done yet.                *)
Operation ==
  /\ op.at \in Moved => op.what = "migrate"
  /\ op.at # "idle" /\ op.what = "migrate" => op.from # op.to
  /\ op.at # "idle" => op.from \notin mapped
  /\ op.at = "frozen" => op.from \in swapcache
  /\ op.at = "moved" => mapping[op.to] = "node"
  /\ op.at # "idle" =>
       /\ kpfn = IF op.at \in {"renamed", "cleared"} THEN op.to ELSE op.from
       /\ mapping[kpfn] = "node"

(* Only kpfn's page leads back to the node, and both pages of a migration.  *)
OnlyNodesPages ==
  \A p \in Pages : mapping[p] = "node" =>
    p = kpfn \/ (op.at \in {"moved", "renamed"} /\ p \in {op.from, op.to})

Returned ==
  pc = "returned" => mapping[kp] = "node" /\ kpfn = kp /\ op.at \in {"idle", "locked"}

KInv == TypeOK /\ Locks /\ Holding /\ Operation /\ OnlyNodesPages /\ Returned

-----------------------------------------------------------------------------
LEMMA KInitial == Init => KInv
<1> SUFFICES ASSUME Init PROVE KInv
  OBVIOUS
<1>1. op \in Ops /\ op.at = "idle"
  BY KsmAssumption DEF Init, NoOp, Ops
<1>2. First \in Pages
  BY KsmAssumption
<1>3. TypeOK
  BY <1>1, <1>2 DEF Init, TypeOK, Labels
<1>4. Locks /\ Holding /\ Operation /\ Returned
  BY <1>1, <1>2 DEF Init, Locks, Holding, Operation, Returned, Moved
<1>5. OnlyNodesPages
  BY <1>2 DEF Init, OnlyNodesPages
<1> QED
  BY <1>3, <1>4, <1>5 DEF KInv

(* The fields of the kernel's operation after a step of it.                 *)
LEMMA ReachFields ==
  ASSUME TypeOK, NEW a, NEW b, Reach(a, b), b \in {"frozen"} \cup Moved
  PROVE  /\ op' \in Ops /\ op.at = a /\ op'.at = b
         /\ op'.what = op.what /\ op'.from = op.from /\ op'.to = op.to
         /\ UNCHANGED <<mapped, ops, lock, pc, kp, held, result, node>>
BY DEF TypeOK, Reach, Ops, caller

LEMMA EndFields ==
  ASSUME TypeOK, End
  PROVE  /\ op' \in Ops /\ op'.at = "idle"
         /\ lock' \in [Pages -> {"none", "scanner", "kernel"}]
         /\ \A p \in Pages : lock'[p] = IF p \in {op.from, op.to} THEN "none" ELSE lock[p]
         /\ UNCHANGED <<kpfn, mapping, ops, left, pc, kp, held, result, node>>
BY KsmAssumption DEF TypeOK, End, Ops, NoOp, caller

-----------------------------------------------------------------------------
(* get_uksm_page, and its caller *)
LEMMA ScannerStep ==
  ASSUME KInv, Step \/ Release
  PROVE  KInv'
<1> USE DEF Goto, kernel, locals, Labels, Moved
<1>1. CASE ReadKpfn
  BY <1>1 DEF ReadKpfn, KInv, TypeOK, Locks, Holding, Operation, OnlyNodesPages, Returned
<1>2. CASE ReadMapping
  BY <1>2 DEF ReadMapping, KInv, TypeOK, Locks, Holding, Operation, OnlyNodesPages, Returned
<1>3. CASE GetPage
  BY <1>3 DEF GetPage, KInv, TypeOK, Locks, Holding, Operation, OnlyNodesPages, Returned
<1>4. CASE ZeroCount
  BY <1>4 DEF ZeroCount, KInv, TypeOK, Locks, Holding, Operation, OnlyNodesPages, Returned
<1>5. CASE ReadMappingAgain
  <2>1. TypeOK'
    BY <1>5 DEF ReadMappingAgain, IsNodes, KInv, TypeOK
  <2>2. Holding'
    BY <1>5 DEF ReadMappingAgain, KInv, Holding
  <2>3. Locks' /\ Operation' /\ OnlyNodesPages' /\ Returned'
    BY <1>5 DEF ReadMappingAgain, KInv, Locks, Operation, OnlyNodesPages, Returned
  <2> QED
    BY <2>1, <2>2, <2>3 DEF KInv
<1>6. CASE LockPage
  BY <1>6 DEF LockPage, KInv, TypeOK, Locks, Holding, Operation, OnlyNodesPages, Returned
<1>7. CASE Return
  <2>1. /\ pc = "locked" /\ pc' = (IF IsNodes THEN "returned" ELSE "stale")
        /\ lock' = [lock EXCEPT ![kp] = "none"] /\ held' = IsNodes
        /\ result' = (IF IsNodes THEN kp ELSE NULL)
        /\ UNCHANGED <<kp, node, kpfn, mapping, mapped, swapcache, op, ops, left>>
    BY <1>7 DEF Return, LeaveLock
  <2>2. IsNodes => kpfn = kp /\ op.at = "idle"
    BY <2>1 DEF IsNodes, KInv, TypeOK, Locks, Operation, OnlyNodesPages, Ops
  <2>3. TypeOK'
    BY <2>1 DEF KInv, TypeOK, IsNodes
  <2>4. Locks'
    BY <2>1 DEF KInv, TypeOK, Locks
  <2>5. Holding'
    BY <2>1 DEF KInv, Holding, IsNodes
  <2>6. Returned'
    BY <2>1, <2>2 DEF Returned, IsNodes
  <2> QED
    BY <2>1, <2>3, <2>4, <2>5, <2>6 DEF KInv, Operation, OnlyNodesPages
<1>8. CASE Stale
  BY <1>8 DEF Stale, KInv, TypeOK, Locks, Holding, Operation, OnlyNodesPages, Returned
<1>9. CASE RemoveNode
  BY <1>9 DEF RemoveNode, KInv, TypeOK, Locks, Holding, Operation, OnlyNodesPages, Returned
<1>10. CASE Release
  BY <1>10 DEF Release, KInv, TypeOK, Locks, Holding, Operation, OnlyNodesPages, Returned
<1> QED
  BY <1>1, <1>2, <1>3, <1>4, <1>5, <1>6, <1>7, <1>8, <1>9, <1>10 DEF Step

-----------------------------------------------------------------------------
(* The kernel *)
LEMMA BeginStep ==
  ASSUME KInv, NEW p \in Pages, NEW q \in Pages, NEW what \in {"migrate", "reclaim"},
         Begin(what, p, q), lock[q] = "none", what = "migrate" => p # q
  PROVE  KInv'
<1>1. /\ op.at = "idle" /\ ops' = ops + 1 /\ mapping[p] = "node" /\ lock[p] = "none"
      /\ lock' = [lock EXCEPT ![p] = "kernel", ![q] = "kernel"] /\ mapped' = mapped \ {p}
      /\ UNCHANGED <<kpfn, mapping, swapcache, left, pc, kp, held, result, node>>
  BY DEF Begin, caller
<1>2. /\ op' \in Ops /\ op'.what = what /\ op'.at = "locked" /\ op'.from = p /\ op'.to = q
  BY DEF Begin, Ops
<1>3. p = kpfn
  BY <1>1 DEF KInv, OnlyNodesPages
<1>4. TypeOK'
  BY <1>1, <1>2 DEF KInv, TypeOK
<1>5. Locks'
  BY <1>1, <1>2 DEF KInv, TypeOK, Locks
<1>6. Holding'
  BY <1>1 DEF KInv, Holding
<1>7. Operation'
  BY <1>1, <1>2, <1>3 DEF Operation, Moved
<1>8. OnlyNodesPages' /\ Returned'
  BY <1>1, <1>2 DEF KInv, OnlyNodesPages, Returned
<1> QED
  BY <1>4, <1>5, <1>6, <1>7, <1>8 DEF KInv

LEMMA GiveUpStep ==
  ASSUME KInv, GiveUp
  PROVE  KInv'
<1>1. /\ TypeOK /\ op.at = "locked" /\ mapped' = mapped \cup {op.from} /\ UNCHANGED swapcache /\ End
  BY DEF GiveUp, KInv
<1>2. op.from \in Pages
  BY <1>1 DEF TypeOK, Ops
<1> QED
  BY <1>1, <1>2, EndFields DEF KInv, TypeOK, Locks, Holding, Operation, OnlyNodesPages, Returned, Moved

LEMMA FreezeStep ==
  ASSUME KInv, Freeze
  PROVE  KInv'
<1>1. /\ TypeOK /\ Reach("locked", "frozen") /\ ~(held /\ kp = op.from) /\ op.from \in swapcache
      /\ UNCHANGED <<kpfn, mapping, swapcache, left>>
  BY DEF Freeze, KInv, HeldByScanner
<1>2. pc # "returned"
  BY <1>1, ReachFields DEF KInv, Returned, Operation, Holding
<1> QED
  BY <1>1, <1>2, ReachFields DEF KInv, TypeOK, Locks, Holding, Operation, OnlyNodesPages, Returned, Moved

LEMMA MoveStep ==
  ASSUME KInv, Move
  PROVE  KInv'
<1>1. /\ TypeOK /\ op.what = "migrate" /\ mapping' = [mapping EXCEPT ![op.to] = "node"]
      /\ UNCHANGED <<kpfn, left>>
  BY DEF Move, KInv
<1>2. \/ Reach("frozen", "moved") /\ swapcache' = swapcache \cup {op.to}
      \/ Reach("locked", "moved") /\ ~(held /\ kp = op.from) /\ UNCHANGED swapcache
  BY DEF Move, HeldByScanner
<1>3. /\ op' \in Ops /\ op.at \in {"locked", "frozen"} /\ op'.at = "moved"
      /\ op'.what = op.what /\ op'.from = op.from /\ op'.to = op.to
      /\ UNCHANGED <<mapped, ops, lock, pc, kp, held, result, node>>
  BY <1>1, <1>2, ReachFields DEF Moved
<1>4. op.to \in Pages /\ op.from \in Pages
  BY <1>1 DEF TypeOK, Ops
<1>5. pc # "returned"
  BY <1>2, <1>3, ReachFields DEF KInv, Returned, Operation, Holding, Reach
<1>6. TypeOK'
  BY <1>1, <1>2, <1>3, <1>4 DEF TypeOK
<1>7. Locks' /\ Holding' /\ Returned'
  BY <1>3, <1>5 DEF KInv, Locks, Holding, Returned
<1>8. Operation'
  BY <1>1, <1>3, <1>4 DEF KInv, TypeOK, Operation, Moved
<1>9. OnlyNodesPages'
  BY <1>1, <1>3, <1>4 DEF KInv, TypeOK, OnlyNodesPages
<1> QED
  BY <1>6, <1>7, <1>8, <1>9 DEF KInv

LEMMA RenameStep ==
  ASSUME KInv, Rename
  PROVE  KInv'
<1>1. /\ TypeOK /\ Reach("moved", "renamed") /\ kpfn' = op.to /\ left' = left \cup {op.to}
      /\ UNCHANGED <<mapping, swapcache>>
  BY DEF Rename, KInv
<1>2. op.to \in Pages /\ op.from \in Pages
  BY <1>1 DEF TypeOK, Ops
<1>3. TypeOK'
  BY <1>1, <1>2, ReachFields DEF TypeOK, Moved
<1>4. Operation'
  BY <1>1, ReachFields DEF KInv, Operation, Moved
<1>6. OnlyNodesPages'
  BY <1>1, ReachFields DEF KInv, OnlyNodesPages, Operation, Moved
<1>5. Locks' /\ Holding' /\ Returned'
  BY <1>1, ReachFields DEF KInv, Locks, Holding, Returned, Moved
<1> QED
  BY <1>3, <1>4, <1>5, <1>6 DEF KInv

LEMMA ClearStep ==
  ASSUME KInv, Clear
  PROVE  KInv'
<1>1. /\ TypeOK /\ Reach("renamed", "cleared") /\ mapping' = [mapping EXCEPT ![op.from] = "clear"]
      /\ UNCHANGED <<kpfn, swapcache, left>>
  BY DEF Clear, KInv
<1>2. op.to \in Pages /\ op.from \in Pages /\ op.from # op.to /\ kpfn = op.to
  BY <1>1, ReachFields DEF KInv, TypeOK, Ops, Operation, Moved
<1> QED
  BY <1>1, <1>2, ReachFields DEF KInv, TypeOK, Locks, Holding, Operation, OnlyNodesPages, Returned, Moved

LEMMA EndStep ==
  ASSUME KInv, EndMigration \/ EndReclaim
  PROVE  KInv'
<1>1. /\ TypeOK /\ End /\ op.at \in {"cleared", "frozen"} /\ swapcache' = swapcache \ {op.from}
      /\ mapped' \in {mapped, mapped \cup {op.to}}
  BY DEF EndMigration, EndReclaim, KInv
<1>2. op.to \in Pages /\ op.from \in Pages
  BY <1>1 DEF TypeOK, Ops
<1>3. OnlyNodesPages'
  BY <1>1, EndFields DEF KInv, OnlyNodesPages
<1>4. TypeOK'
  BY <1>1, <1>2, EndFields DEF TypeOK
<1>5. Locks'
  BY <1>1, <1>2, EndFields DEF KInv, Locks
<1>6. Holding' /\ Operation' /\ Returned'
  BY <1>1, EndFields DEF KInv, Holding, Operation, Returned, Moved
<1> QED
  BY <1>3, <1>4, <1>5, <1>6 DEF KInv

LEMMA PageStep ==
  ASSUME KInv, NEW p \in Pages, AddToSwap(p) \/ Unmap(p) \/ FreePage(p) \/ AllocPage(p)
  PROVE  KInv'
<1>1. CASE AddToSwap(p)
  BY <1>1 DEF AddToSwap, caller, KInv, TypeOK, Locks, Holding, Operation, OnlyNodesPages, Returned
<1>2. CASE Unmap(p)
  BY <1>2 DEF Unmap, caller, KInv, TypeOK, Locks, Holding, Operation, OnlyNodesPages, Returned
<1>3. CASE FreePage(p)
  <2>1. /\ ~(held /\ kp = p) /\ mapping' = [mapping EXCEPT ![p] = "clear"]
        /\ (op.at # "idle" => p \notin {op.from, op.to})
        /\ UNCHANGED <<kpfn, mapped, swapcache, op, ops, left, lock, pc, kp, held, result, node>>
    BY <1>3 DEF FreePage, caller, NoReference, HeldByKernel
  <2> QED
    BY <2>1 DEF KInv, TypeOK, Locks, Holding, Operation, OnlyNodesPages, Returned
<1>4. CASE AllocPage(p)
  <2>1. /\ mapping[p] = "clear" /\ lock[p] = "none"
        /\ mapping' = [mapping EXCEPT ![p] = "other"] /\ mapped' = mapped \cup {p}
        /\ UNCHANGED <<kpfn, swapcache, op, ops, left, lock, pc, kp, held, result, node>>
    BY <1>4 DEF AllocPage, caller, Free
  <2>2. op.at # "idle" => p \notin {op.from, op.to}
    BY <2>1 DEF KInv, Locks
  <2> QED
    BY <2>1, <2>2 DEF KInv, TypeOK, Locks, Holding, Operation, OnlyNodesPages, Returned
<1> QED
  BY <1>1, <1>2, <1>3, <1>4

LEMMA KStep == KInv /\ [Next]_vars => KInv'
<1> SUFFICES ASSUME KInv, [Next]_vars PROVE KInv'
  OBVIOUS
<1>1. CASE UNCHANGED vars
  BY <1>1 DEF vars, KInv, TypeOK, Locks, Holding, Operation, OnlyNodesPages, Returned
<1>2. ASSUME NEW p \in Pages, NEW q \in Pages, Migrate(p, q) PROVE KInv'
  BY <1>2, BeginStep DEF Migrate, Free
<1>3. ASSUME NEW p \in Pages, Reclaim(p) PROVE KInv'
  BY <1>3, BeginStep DEF Reclaim, Begin
<1> QED
  BY <1>1, <1>2, <1>3, ScannerStep, GiveUpStep, FreezeStep, MoveStep, RenameStep, ClearStep, EndStep,
     PageStep DEF Next, KernelStep

LEMMA KInvariant == Spec => []KInv
BY KInitial, KStep, PTL DEF Spec

-----------------------------------------------------------------------------
(* Types, above all that the page returned is a page or NULL. *)
THEOREM KeyholeTypes == Spec => []TypeOK
<1>1. KInv => TypeOK
  BY DEF KInv
<1> QED BY <1>1, KInvariant, PTL

(* The page that get_uksm_page returns is the node's, and stays so while    *)
(* the caller holds it (1404-1415), also when frames are used again.        *)
THEOREM ReturnsNodesPage == Spec => []ReturnedPageIsNodes
<1>1. KInv => ReturnedPageIsNodes
  BY DEF KInv, Holding, Returned, ReturnedPageIsNodes, NoReference, Frozen
<1> QED BY <1>1, KInvariant, PTL

(* On the other ways out the reference and the lock have been given back.   *)
THEOREM FailureHoldsNothing == Spec => []NothingLeftHeld
<1>1. KInv => NothingLeftHeld
  BY DEF KInv, Holding, Locks, NothingLeftHeld
<1> QED BY <1>1, KInvariant, PTL

-----------------------------------------------------------------------------
(* Is there a live page of the node?  Only kpfn's can be one.               *)
NodesPageAlive == mapping[kpfn] = "node" /\ (HeldByKernel(kpfn) \/ (held /\ kp = kpfn))

LEMMA OneLivePage == KInv => (PageAlive <=> NodesPageAlive)
<1> SUFFICES ASSUME KInv PROVE PageAlive <=> NodesPageAlive
  OBVIOUS
<1>1. kpfn \in Pages
  BY DEF KInv, TypeOK
<1>2. ASSUME NodesPageAlive PROVE PageAlive
  BY <1>1, <1>2 DEF PageAlive, NodesPageAlive, NoReference
<1>3. ASSUME NEW p \in Pages, mapping[p] = "node", Frozen(p) \/ ~NoReference(p)
      PROVE  NodesPageAlive
  <2>1. HeldByKernel(p) \/ (held /\ kp = p)
    BY <1>3 DEF Frozen, NoReference, HeldByKernel
  <2>2. CASE p = kpfn
    BY <1>3, <2>1, <2>2 DEF NodesPageAlive
  <2>3. CASE op.at # "idle"
    BY <2>3 DEF KInv, Operation, NodesPageAlive, HeldByKernel
  <2> QED
    BY <1>3, <2>2, <2>3 DEF KInv, OnlyNodesPages
<1> QED
  BY <1>2, <1>3 DEF PageAlive

LEMMA OneLivePageNext == KInv' => (PageAlive' <=> NodesPageAlive')
BY OneLivePage, PTL

LEMMA OperationAlive ==
  ASSUME KInv, op.at # "idle"
  PROVE  PageAlive
BY OneLivePage DEF KInv, Operation, NodesPageAlive, HeldByKernel

(* What get_uksm_page knows when it gives the node up.  It needs that kpfn, *)
(* once changed, does not take its old value again.                         *)
Kept ==
  /\ kp \in left /\ kpfn \in left
  /\ op.what = "migrate" /\ op.at \in {"locked", "frozen", "moved"} => op.to \notin left
  /\ pc = "stale" /\ kpfn = kp => ~PageAlive
  /\ pc = "zero" /\ kpfn = kp => ~PageAlive \/ kp \in swapcache
  /\ pc = "remove" \/ node = "removed" => ~PageAlive

LEMMA KeptInitial == Init => Kept
BY KsmAssumption DEF Init, Kept, NoOp

(* Steps of the scanner leave a dead page dead, and a live one alive but    *)
(* for the caller's release.                                                *)
LEMMA ScannerAlive ==
  ASSUME KInv, KInv', Step \/ Release
  PROVE  /\ PageAlive' => PageAlive
         /\ Step => (PageAlive => PageAlive')
         /\ UNCHANGED <<kpfn, mapping, swapcache, op, left>>
         /\ kp' \in {kp, kpfn}
<1>1. UNCHANGED <<kpfn, mapping, mapped, swapcache, op, left>>
  BY DEF Step, Release, ReadKpfn, ReadMapping, GetPage, ZeroCount, ReadMappingAgain, LockPage,
         Return, LeaveLock, Stale, RemoveNode, Goto, kernel
<1>2. HeldByKernel(kpfn)' <=> HeldByKernel(kpfn)
  BY <1>1 DEF HeldByKernel
<1>3. kp' \in {kp, kpfn}
  BY DEF Step, Release, ReadKpfn, ReadMapping, GetPage, ZeroCount, ReadMappingAgain, LockPage,
         Return, LeaveLock, Stale, RemoveNode, locals
<1>4. \/ UNCHANGED <<held, kp>>
      \/ ~held /\ ~held'
      \/ ~held /\ held' /\ UNCHANGED kp /\ GetPage
      \/ held /\ ~held' /\ UNCHANGED kp /\ (mapping[kp] # "node" \/ Release)
  BY DEF Step, Release, ReadKpfn, ReadMapping, GetPage, ZeroCount, ReadMappingAgain, LockPage,
         Return, LeaveLock, Stale, RemoveNode, locals, KInv, Holding, IsNodes, Goto
<1>5. GetPage /\ held' => HeldByKernel(kp) \/ held
  BY DEF GetPage, NoReference
<1>6. Step => ~Release
  BY DEF Step, Release, ReadKpfn, ReadMapping, GetPage, ZeroCount, ReadMappingAgain, LockPage,
         Return, LeaveLock, Stale, RemoveNode, Goto
<1>7. NodesPageAlive' => NodesPageAlive
  BY <1>1, <1>2, <1>4, <1>5 DEF NodesPageAlive
<1>8. Step => (NodesPageAlive => NodesPageAlive')
  BY <1>1, <1>2, <1>4, <1>6 DEF NodesPageAlive
<1>9. PageAlive' <=> NodesPageAlive'
  BY OneLivePageNext
<1> QED
  BY <1>1, <1>3, <1>7, <1>8, <1>9, OneLivePage

LEMMA ScannerKept ==
  ASSUME KInv, KInv', Kept, Step \/ Release
  PROVE  Kept'
<1>1. /\ PageAlive' => PageAlive
      /\ UNCHANGED <<kpfn, mapping, swapcache, op, left>> /\ kp' \in {kp, kpfn}
  BY ScannerAlive
<1>2. mapping[kpfn] # "node" => ~PageAlive
  BY OneLivePage DEF NodesPageAlive
<1>3. pc' = "stale" /\ kpfn' = kp' => ~PageAlive
  <2>1. CASE ReadMapping \/ ReadMappingAgain \/ Return
    BY <2>1, <1>1, <1>2 DEF ReadMapping, ReadMappingAgain, Return, LeaveLock, Goto, locals, IsNodes
  <2>2. CASE ZeroCount
    BY <2>2, <1>1 DEF ZeroCount, Goto, locals, Kept
  <2>3. CASE ReadKpfn \/ GetPage \/ LockPage \/ Stale \/ RemoveNode \/ Release
    BY <2>3 DEF ReadKpfn, GetPage, LockPage, Stale, RemoveNode, Release, Goto
  <2> QED BY <2>1, <2>2, <2>3 DEF Step
<1>4. pc' = "zero" /\ kpfn' = kp' => ~PageAlive \/ kp' \in swapcache'
  <2>1. CASE GetPage
    <3>1. CASE ~NoReference(kp)
      BY <2>1, <3>1 DEF GetPage, Goto
    <3>2. CASE Frozen(kp)
      BY <2>1, <3>2, <1>1 DEF GetPage, Frozen, KInv, Operation
    <3>3. CASE ~HeldByKernel(kp) /\ ~(held /\ kp = kp)
      BY <2>1, <3>3, <1>1, OneLivePage DEF GetPage, NodesPageAlive
    <3> QED BY <3>1, <3>2, <3>3 DEF NoReference
  <2>2. CASE \/ ReadKpfn \/ ReadMapping \/ ZeroCount \/ ReadMappingAgain \/ LockPage \/ Return
             \/ Stale \/ RemoveNode \/ Release
    BY <2>2 DEF ReadKpfn, ReadMapping, ZeroCount, ReadMappingAgain, LockPage, Return, LeaveLock,
                Stale, RemoveNode, Release, Goto
  <2> QED BY <2>1, <2>2 DEF Step
<1>5. pc' = "remove" \/ node' = "removed" => ~PageAlive
  <2>1. CASE Stale
    BY <2>1 DEF Stale, Goto, locals, Kept
  <2>2. CASE RemoveNode
    BY <2>2 DEF RemoveNode, Goto, Kept
  <2>3. CASE \/ ReadKpfn \/ ReadMapping \/ GetPage \/ ZeroCount \/ ReadMappingAgain \/ LockPage
             \/ Return \/ Release
    BY <2>3 DEF ReadKpfn, ReadMapping, GetPage, ZeroCount, ReadMappingAgain, LockPage, Return,
                LeaveLock, Release, Goto, locals, Kept
  <2> QED BY <2>1, <2>2, <2>3 DEF Step
<1> QED
  BY <1>1, <1>3, <1>4, <1>5 DEF Kept

-----------------------------------------------------------------------------
KernelNext ==
  \/ KernelStep
  \/ \E p, q \in Pages : Migrate(p, q)
  \/ \E p \in Pages : Reclaim(p) \/ AddToSwap(p) \/ Unmap(p) \/ FreePage(p) \/ AllocPage(p)

(* No step of the kernel brings a dead page back. *)
LEMMA KernelAlive ==
  ASSUME KInv, KInv', KernelNext
  PROVE  PageAlive' => PageAlive
<1>1. CASE op.at # "idle"
  BY <1>1, OperationAlive
<1>2. CASE op.at = "idle"
  <2>1. ASSUME NEW p \in Pages, mapping[p] = "node", HeldByKernel(p)
        PROVE  PageAlive
    BY <2>1, <1>2, OneLivePage DEF KInv, OnlyNodesPages, NodesPageAlive
  <2>2. ~KernelStep
    BY <1>2 DEF KernelStep, GiveUp, Freeze, Move, Rename, Clear, EndMigration, EndReclaim, Reach
  <2>3. ASSUME NEW p \in Pages, NEW q \in Pages, Migrate(p, q) \/ Reclaim(p) \/ AddToSwap(p)
        PROVE  PageAlive
    BY <2>3, <2>1 DEF Migrate, Reclaim, AddToSwap, Begin
  <2>4. ASSUME NEW p \in Pages, Unmap(p) \/ FreePage(p) \/ AllocPage(p)
        PROVE  NodesPageAlive' => NodesPageAlive
    <3>1. CASE Unmap(p)
      BY <3>1 DEF Unmap, caller, NodesPageAlive, HeldByKernel
    <3>2. CASE FreePage(p)
      BY <3>2 DEF FreePage, caller, NodesPageAlive, HeldByKernel, KInv, TypeOK
    <3>3. CASE AllocPage(p)
      BY <3>3 DEF AllocPage, caller, NodesPageAlive, HeldByKernel, KInv, TypeOK
    <3> QED BY <2>4, <3>1, <3>2, <3>3
  <2> QED
    BY <2>2, <2>3, <2>4, OneLivePage, OneLivePageNext DEF KernelNext
<1> QED
  BY <1>1, <1>2

(* What a step of the kernel does to what the scanner has read.             *)
LEMMA KernelMoves ==
  ASSUME KInv, KernelNext
  PROVE  /\ UNCHANGED <<pc, kp, held, result, node>>
         /\ \/ UNCHANGED <<kpfn, left>>
            \/ op.at = "moved" /\ op'.at = "renamed" /\ kpfn' = op.to /\ left' = left \cup {op.to}
         /\ op'.what = "migrate" /\ op'.at \in {"locked", "frozen", "moved"} =>
              \/ op'.to = op.to /\ op.what = "migrate" /\ op.at \in {"locked", "frozen", "moved"}
              \/ RETURNS \/ op'.to \notin left
         /\ \/ swapcache \subseteq swapcache'
            \/ swapcache' = swapcache \ {op.from} /\ EndMigration
            \/ swapcache' = swapcache \ {op.from} /\ EndReclaim
<1>t. TypeOK
  BY DEF KInv
<1>1. CASE GiveUp \/ EndMigration \/ EndReclaim
  <2>1. End
    BY <1>1 DEF GiveUp, EndMigration, EndReclaim
  <2>2. /\ op'.at = "idle" /\ UNCHANGED <<kpfn, left, pc, kp, held, result, node>>
    BY <1>t, <2>1, EndFields
  <2> QED
    BY <1>1, <2>2 DEF GiveUp, EndMigration, EndReclaim
<1>2. CASE Freeze
  BY <1>t, <1>2, ReachFields DEF Freeze, Moved
<1>3. CASE Move
  BY <1>t, <1>3, ReachFields DEF Move, Moved
<1>4. CASE Rename
  BY <1>t, <1>4, ReachFields DEF Rename, Moved
<1>5. CASE Clear
  BY <1>t, <1>5, ReachFields DEF Clear, Moved
<1>6. ASSUME NEW p \in Pages, NEW q \in Pages, NEW what \in {"migrate", "reclaim"}, Begin(what, p, q),
             what = "migrate" => RETURNS \/ q \notin left
      PROVE  /\ UNCHANGED <<pc, kp, held, result, node, kpfn, left, swapcache>>
             /\ op'.what = "migrate" => RETURNS \/ op'.to \notin left
  <2>1. op'.what = what /\ op'.to = q
    BY <1>6 DEF Begin
  <2> QED
    BY <1>6, <2>1 DEF Begin, caller
<1>7. ASSUME NEW p \in Pages, NEW q \in Pages, Migrate(p, q)
      PROVE  /\ UNCHANGED <<pc, kp, held, result, node, kpfn, left, swapcache>>
             /\ RETURNS \/ op'.what # "migrate" \/ op'.to \notin left
  BY <1>6, <1>7 DEF Migrate
<1>8. ASSUME NEW p \in Pages, Reclaim(p)
      PROVE  /\ UNCHANGED <<pc, kp, held, result, node, kpfn, left, swapcache>>
             /\ op'.what # "migrate"
  BY <1>8 DEF Reclaim, Begin, caller
<1>9. ASSUME NEW p \in Pages, AddToSwap(p) \/ Unmap(p) \/ FreePage(p) \/ AllocPage(p)
      PROVE  /\ UNCHANGED <<pc, kp, held, result, node, kpfn, left, op>>
             /\ swapcache \subseteq swapcache'
  BY <1>9 DEF AddToSwap, Unmap, FreePage, AllocPage, caller
<1> QED
  BY <1>1, <1>2, <1>3, <1>4, <1>5, <1>7, <1>8, <1>9 DEF KernelNext, KernelStep

LEMMA KernelKept ==
  ASSUME ~RETURNS, KInv, KInv', Kept, KernelNext
  PROVE  Kept'
<1>1. PageAlive' => PageAlive
  BY KernelAlive
<1>2. UNCHANGED <<pc, kp, held, result, node>>
  BY KernelMoves
<1>3. op.at = "moved" => op.what = "migrate" /\ op.to # kp
  BY DEF KInv, Operation, Moved, Kept
<1>4. kpfn' = kp => kpfn = kp
  BY <1>3, KernelMoves
<1>5. kp \in left' /\ kpfn' \in left'
  BY KernelMoves DEF Kept
<1>6. op'.what = "migrate" /\ op'.at \in {"locked", "frozen", "moved"} => op'.to \notin left'
  BY KernelMoves DEF Kept
<1>7. pc = "zero" /\ kpfn' = kp => ~PageAlive' \/ kp \in swapcache'
  <2> SUFFICES ASSUME pc = "zero", kpfn = kp, PageAlive' PROVE kp \in swapcache'
    BY <1>4
  <2>1. kp \in swapcache
    BY <1>1 DEF Kept
  <2>2. CASE EndMigration
    <3>1. op.from # op.to /\ kpfn = op.to
      BY <2>2 DEF EndMigration, KInv, Operation, Moved
    <3> QED BY <2>1, <2>2, <3>1 DEF EndMigration
  <2>3. CASE EndReclaim
    <3>1. TypeOK /\ End /\ swapcache' = swapcache \ {op.from} /\ UNCHANGED mapped
          /\ op.from = kpfn /\ op.from \notin mapped /\ ~held
      BY <2>3 DEF EndReclaim, KInv, Operation, Holding
    <3>2. op'.at = "idle" /\ UNCHANGED <<kpfn, held>>
      BY <3>1, EndFields
    <3>3. ~NodesPageAlive'
      BY <3>1, <3>2 DEF NodesPageAlive, HeldByKernel
    <3> QED BY <3>3, OneLivePageNext
  <2> QED BY <2>1, <2>2, <2>3, KernelMoves
<1> QED
  BY <1>1, <1>2, <1>4, <1>5, <1>6, <1>7 DEF Kept

LEMMA AlwaysSomebody == Next => Step \/ Release \/ KernelNext
BY DEF Next, KernelNext

LEMMA KeptStep == ~RETURNS /\ KInv /\ KInv' /\ Kept /\ [Next]_vars => Kept'
<1> SUFFICES ASSUME ~RETURNS, KInv, KInv', Kept, [Next]_vars PROVE Kept'
  OBVIOUS
<1>1. CASE UNCHANGED vars
  <2>1. PageAlive' <=> PageAlive
    BY <1>1 DEF vars, PageAlive, Frozen, NoReference, HeldByKernel
  <2> QED BY <1>1, <2>1 DEF vars, Kept
<1> QED
  BY <1>1, AlwaysSomebody, ScannerKept, KernelKept

LEMMA KeptInvariant == ASSUME ~RETURNS PROVE Spec => [](KInv /\ Kept)
<1>1. Init => KInv /\ Kept
  BY KInitial, KeptInitial
<1>2. KInv /\ Kept /\ [Next]_vars => (KInv /\ Kept)'
  BY KStep, KeptStep
<1> QED BY <1>1, <1>2, PTL DEF Spec

-----------------------------------------------------------------------------
(* A node is removed only when no page leads back to it any more, however   *)
(* the page was migrated and its count frozen meanwhile (1418-1427), as     *)
(* long as no migration goes back to a frame the node has had.              *)
THEOREM NodeKept == ASSUME ~RETURNS PROVE Spec => []NodeKeptWhilePageLives
<1>1. KInv /\ Kept => NodeKeptWhilePageLives
  BY DEF Kept, NodeKeptWhilePageLives
<1> QED BY <1>1, KeptInvariant, PTL

(* get_uksm_page, with its readings, its waiting and its restarts, and the  *)
(* kernel together implement the indivisible steps of Keyhole.              *)
LEMMA KeyholeScanner ==
  ASSUME KInv, KInv', Kept, Step \/ Release
  PROVE  [K!Next]_(K!keyholeVars)
<1>1. PageAlive' => PageAlive
  BY ScannerAlive
<1>2. CASE Release
  <2>1. result # NULL /\ result' = NULL /\ UNCHANGED node
    BY <1>2, KsmAssumption DEF Release, Goto, KInv, Holding, TypeOK
  <2>2. PageAlive' \in BOOLEAN
    BY DEF PageAlive
  <2>3. (result # NULL)' = FALSE /\ UNCHANGED (node = "listed")
    BY <2>1
  <2> QED BY <1>1, <2>1, <2>2, <2>3 DEF K!Next, K!PutPage
<1>3. CASE Step
  <2>1. PageAlive' <=> PageAlive
    BY <1>1, <1>3, ScannerAlive
  <2>2. CASE RemoveNode
    <3>1. node = "listed" /\ node' = "removed" /\ UNCHANGED result /\ ~PageAlive
      BY <2>2 DEF RemoveNode, Goto, KInv, Holding, TypeOK, Kept
    <3> QED BY <2>1, <3>1 DEF K!Next, K!DropNode
  <2>3. CASE Return /\ pc' = "returned"
    <3>1. node = "listed" /\ result = NULL /\ result' # NULL /\ UNCHANGED node
      BY <2>3, KsmAssumption DEF Return, LeaveLock, Goto, KInv, Holding, TypeOK
    <3>2. PageAlive'
      BY <2>3, OneLivePageNext DEF KInv, Holding, Returned, NodesPageAlive
    <3> QED BY <2>1, <3>1, <3>2 DEF K!Next, K!GetPage
  <2>4. CASE /\ ~RemoveNode
             /\ ~(Return /\ pc' = "returned")
    <3>1. UNCHANGED node /\ pc # "returned" /\ pc' # "returned"
      BY <1>3, <2>4 DEF Step, ReadKpfn, ReadMapping, GetPage, ZeroCount, ReadMappingAgain, LockPage,
         Return, LeaveLock, Stale, Goto, locals
    <3>2. UNCHANGED result
      BY <3>1 DEF KInv, Holding
    <3> QED BY <2>1, <3>1, <3>2 DEF K!keyholeVars
  <2> QED BY <2>2, <2>3, <2>4
<1> QED BY <1>2, <1>3

LEMMA KeyholeKernel ==
  ASSUME KInv, KInv', KernelNext
  PROVE  [K!Next]_(K!keyholeVars)
<1>1. (PageAlive' => PageAlive) /\ UNCHANGED <<result, node>>
  BY KernelAlive, KernelMoves
<1>2. result' # NULL => PageAlive'
  BY OneLivePageNext DEF KInv, Holding, Returned, NodesPageAlive
<1>3. CASE PageAlive' <=> PageAlive
  BY <1>1, <1>3 DEF K!keyholeVars
<1>4. CASE PageAlive /\ ~PageAlive'
  BY <1>1, <1>2, <1>4 DEF K!Next, K!PageGone
<1> QED BY <1>1, <1>3, <1>4

THEOREM KeyholeImplemented == ASSUME ~RETURNS PROVE Spec => ImplementsKeyhole
<1>1. Init => K!Init
  <2> SUFFICES ASSUME Init PROVE K!Init
    OBVIOUS
  <2>1. PageAlive
    BY KInitial, OneLivePage, KsmAssumption DEF Init, NodesPageAlive, HeldByKernel
  <2> QED BY <2>1 DEF Init, K!Init
<1>2. KInv /\ Kept /\ (KInv /\ Kept)' /\ [Next]_vars => [K!Next]_(K!keyholeVars)
  <2> SUFFICES ASSUME KInv, Kept, KInv', [Next]_vars PROVE [K!Next]_(K!keyholeVars)
    OBVIOUS
  <2>1. CASE UNCHANGED vars
    BY <2>1 DEF vars, PageAlive, Frozen, NoReference, HeldByKernel, K!keyholeVars
  <2> QED BY <2>1, AlwaysSomebody, KeyholeScanner, KeyholeKernel
<1> QED BY <1>1, <1>2, KeptInvariant, PTL DEF Spec, ImplementsKeyhole, K!Spec
=============================================================================
