---------------------------- MODULE WriteProtect ----------------------------
(***************************************************************************)
(* write_protect_page of dirtPages.c, one access to the page table entry   *)
(* or to the page's counters a step, against everybody who may write the   *)
(* page meanwhile: a processor through the entry or through its TLB, DMA   *)
(* through a page pinned by get_user_pages_fast, a secondary MMU through   *)
(* its shadow mapping; and against threads that change the entry now and   *)
(* flush the TLB later.                                                    *)
(*                                                                         *)
(* These are external and modelled as the function relies on them: an      *)
(* entry is changed under its lock, but by the hardware, which sets dirty  *)
(* in a writable entry; the caller holds mmap_sem and the page lock, so    *)
(* the process does not fork and the swap cache keeps the page meanwhile.  *)
(***************************************************************************)
EXTENDS Naturals

CONSTANTS
  Changes,   \* what other threads do to the entry before they flush:
             \*   "wrprotect" (clear_refs), "protnone" (NUMA), "clean" (MADV_FREE)
  DMA,       \* may the page be pinned for DMA?
  SHARERS,   \* bound: processes that map the page as well
  SHARING    \* may these come and go during the call?

ASSUME WriteProtectAssumption ==
  /\ Changes \subseteq {"wrprotect", "protnone", "clean"}
  /\ DMA \in BOOLEAN /\ SHARERS \in Nat /\ SHARING \in BOOLEAN

VARIABLES
  pte,        \* the entry of the page in the process
  tlb,        \* what a processor has cached of it
  ptl,        \* is the entry's lock held by write_protect_page?
  ranged,     \* between mmu_notifier_invalidate_range_start and _end
  shadow,     \* has a secondary MMU mapped the page for writing?
  pending,    \* the change whose TLB flush is pending, or "none"
  gup, gupPte,\* get_user_pages_fast: how far, and the entry it saw
  sharers, swapcache, pageDirty,
  unsaved,    \* ghost: written, and not yet accounted for
  touched,    \* ghost: "fault" and "write", since the call or since *orig_pte was set
  pc, entry, seen, orig, err   \* write_protect_page and its locals

others == <<tlb, shadow, pending, gup, gupPte, sharers, unsaved, touched>>
locals == <<pc, entry, seen, orig, err, ptl, ranged, swapcache>>
vars == <<pte, pageDirty, others, locals>>

Pte(w, d, n, s) == [present |-> TRUE, write |-> w, dirty |-> d, protnone |-> n, saved |-> s]
NoPte == [present |-> FALSE, write |-> FALSE, dirty |-> FALSE, protnone |-> FALSE, saved |-> FALSE]
NoEntry == [write |-> FALSE, dirty |-> FALSE]
Unread == 0

Mapcount == sharers + (IF pte.present \/ pc \in {"flush", "counts", "set"} THEN 1 ELSE 0)
Pinning == gup \in {"referenced", "pinned"}
PageCount ==   \* of every mapping, the swap cache, write_protect_page's caller, and pins
  Mapcount + (IF swapcache THEN 1 ELSE 0) + 1 + (IF Pinning THEN 1 ELSE 0)

Init ==
  /\ pte \in {NoPte, Pte(TRUE, TRUE, FALSE, FALSE), Pte(FALSE, FALSE, FALSE, FALSE)}
  /\ tlb = NoEntry /\ ptl = FALSE /\ ranged = FALSE /\ shadow = FALSE
  /\ pending = "none" /\ gup = "none" /\ gupPte = NoPte
  /\ sharers = 0 /\ swapcache \in BOOLEAN /\ pageDirty = FALSE
  /\ unsaved = FALSE /\ touched = {}
  /\ pc = "idle" /\ entry = NoPte /\ seen = [map |-> Unread, count |-> Unread]
  /\ orig = NoPte /\ err = "none"

-----------------------------------------------------------------------------
(* write_protect_page *)
Goto(from, to) == pc = from /\ pc' = to /\ UNCHANGED swapcache
Begun == <<pending, gup, gupPte, sharers, unsaved>>

Call ==
  /\ Goto("idle", "address") /\ err' = "EFAULT" /\ orig' = NoPte /\ touched' = {}
  /\ seen' = [map |-> Unread, count |-> Unread] /\ entry' = NoPte
  /\ UNCHANGED <<pte, pageDirty, tlb, shadow, Begun, ptl, ranged>>

NoAddress == Goto("address", "idle") /\ UNCHANGED <<pte, pageDirty, others, entry, seen, orig, err, ptl, ranged>>

RangeStart ==
  /\ Goto("address", "walk") /\ ranged' = TRUE /\ shadow' = FALSE
  /\ UNCHANGED <<pte, pageDirty, tlb, Begun, touched, entry, seen, orig, err, ptl>>

(* page_vma_mapped_walk takes the lock where the page is mapped, else goes  *)
(* to out_mn.                                                               *)
Walk ==
  /\ Goto("walk", IF pte.present THEN "look" ELSE "end") /\ ptl' = pte.present
  /\ UNCHANGED <<pte, pageDirty, others, entry, seen, orig, err, ranged>>

(* Must the entry be taken away?  Mutant: a pending flush is forgotten.     *)
MayBeWrittenUnflushed == pte.write \/ pte.dirty \/ (pte.protnone /\ pte.saved)
MayBeWritten == pte.write \/ pte.dirty \/ (pte.protnone /\ pte.saved) \/ pending # "none"

(* *old_pte; mutant: the counters are read while the entry is still there.  *)
SeenWithEntry == [map |-> Mapcount, count |-> PageCount]
SeenYet == seen
Look ==
  /\ Goto("look", IF MayBeWritten THEN "clear" ELSE "orig") /\ entry' = pte /\ seen' = SeenYet
  /\ UNCHANGED <<pte, pageDirty, others, orig, err, ptl, ranged>>

(* ptep_clear_flush_notify exchanges the entry, then flushes. *)
Taken == pte
Clear ==
  /\ Goto("clear", "flush") /\ entry' = Taken /\ pte' = NoPte
  /\ UNCHANGED <<pageDirty, others, seen, orig, err, ptl, ranged>>
Flush ==
  /\ Goto("flush", "counts") /\ tlb' = NoEntry
  /\ UNCHANGED <<pte, pageDirty, shadow, Begun, touched, entry, seen, orig, err, ptl, ranged>>

(* page_mapcount and page_count, in either order. *)
ReadCounter(c, n) ==
  /\ Goto("counts", "counts") /\ seen[c] = Unread /\ seen' = [seen EXCEPT ![c] = n]
  /\ UNCHANGED <<pte, pageDirty, others, entry, orig, err, ptl, ranged>>

NobodyElse == seen.map + 1 + (IF swapcache THEN 1 ELSE 0) = seen.count

(* Somebody else holds the page: the entry goes back as it was. *)
Compare ==
  /\ Goto("counts", IF NobodyElse THEN "set" ELSE "unlock") /\ seen.map # Unread /\ seen.count # Unread
  /\ pte' = (IF NobodyElse THEN pte ELSE entry)
  /\ UNCHANGED <<pageDirty, others, entry, seen, orig, err, ptl, ranged>>

(* The entry as it is put back; mutant: still dirty.                        *)
ProtectedDirty(e) == IF e.protnone THEN [e EXCEPT !.saved = FALSE] ELSE [e EXCEPT !.write = FALSE]
Protected(e) ==
  IF e.protnone THEN [e EXCEPT !.saved = FALSE, !.dirty = FALSE]
  ELSE [e EXCEPT !.write = FALSE, !.dirty = FALSE]

(* Mutant: no set_page_dirty. *)
NotMarked == pageDirty
Marked == pageDirty \/ entry.dirty
SetPte ==
  /\ Goto("set", "orig") /\ pageDirty' = Marked /\ pte' = Protected(entry)
  /\ UNCHANGED <<others, entry, seen, orig, err, ptl, ranged>>
SetOrig ==
  /\ Goto("orig", "unlock") /\ orig' = pte /\ err' = "0" /\ touched' = {}
  /\ UNCHANGED <<pte, pageDirty, tlb, shadow, Begun, entry, seen, ptl, ranged>>

Unlock == Goto("unlock", "end") /\ ptl' = FALSE /\ UNCHANGED <<pte, pageDirty, others, entry, seen, orig, err, ranged>>
RangeEnd == Goto("end", "idle") /\ ranged' = FALSE /\ UNCHANGED <<pte, pageDirty, others, entry, seen, orig, err, ptl>>

WriteProtectPage ==
  \/ Call \/ NoAddress \/ RangeStart \/ Walk \/ Look \/ Clear \/ Flush
  \/ ReadCounter("map", Mapcount) \/ ReadCounter("count", PageCount)
  \/ Compare \/ SetPte \/ SetOrig \/ Unlock \/ RangeEnd

-----------------------------------------------------------------------------
(* The processor *)
Reachable == pte.present /\ ~pte.protnone
Pins == <<gup, gupPte>>

Load ==
  /\ Reachable /\ tlb' = [write |-> pte.write, dirty |-> pte.dirty]
  /\ UNCHANGED <<pte, pageDirty, shadow, Begun, touched, locals>>

(* A write through a TLB entry that is dirty does not look at the entry in  *)
(* memory; any other sets it dirty.  What is written while MADV_FREE runs   *)
(* may be given up.                                                         *)
Write ==
  /\ \/ tlb.write /\ tlb.dirty /\ UNCHANGED <<tlb, pte>>
     \/ /\ Reachable /\ pte.write
        /\ pte' = [pte EXCEPT !.dirty = TRUE] /\ tlb' = [write |-> TRUE, dirty |-> TRUE]
  /\ unsaved' = (unsaved \/ pending # "clean") /\ touched' = touched \cup {"write"}
  /\ UNCHANGED <<pageDirty, shadow, pending, Pins, sharers, locals>>

(* A write fault: the page is the process's own, or it gets a copy. *)
WriteFault ==
  /\ Reachable /\ ~pte.write /\ ~ptl
  /\ IF sharers = 0 THEN pte' = Pte(TRUE, TRUE, FALSE, FALSE) /\ UNCHANGED pageDirty
     ELSE pte' = NoPte /\ pageDirty' = (pageDirty \/ pte.dirty)
  /\ tlb' = NoEntry /\ touched' = touched \cup {"fault"}
  /\ UNCHANGED <<shadow, Begun, locals>>

NumaFault ==
  /\ pte.protnone /\ ~ptl /\ pte' = Pte(pte.saved, pte.dirty, FALSE, FALSE)
  /\ touched' = touched \cup (IF pte.saved THEN {"fault"} ELSE {})
  /\ UNCHANGED <<pageDirty, tlb, shadow, Begun, locals>>

(* Another thread changes the entry under its lock, and flushes later.      *)
ChangePte(change) ==
  /\ pending = "none" /\ Reachable /\ ~ptl /\ pending' = change
  /\ pte' = CASE change = "wrprotect" -> [pte EXCEPT !.write = FALSE]
              [] change = "clean" -> [pte EXCEPT !.dirty = FALSE]
              [] change = "protnone" -> Pte(FALSE, pte.dirty, TRUE, pte.write)
  /\ pageDirty' = (pageDirty /\ change # "clean") /\ unsaved' = (unsaved /\ change # "clean")
  /\ UNCHANGED <<tlb, shadow, Pins, sharers, touched, locals>>
FlushChange ==
  /\ pending # "none" /\ pending' = "none" /\ tlb' = NoEntry
  /\ UNCHANGED <<pte, pageDirty, shadow, Pins, sharers, unsaved, touched, locals>>

(* The secondary MMU maps what is writable, outside of invalidations.       *)
MapShadow ==
  /\ ~shadow /\ ~ranged /\ ~ptl /\ Reachable /\ pte.write /\ shadow' = TRUE
  /\ UNCHANGED <<pte, pageDirty, tlb, Begun, touched, locals>>

(* get_user_pages_fast: read, take a reference, read again.                 *)
Gup(from, to) ==
  /\ gup = from /\ gup' = to
  /\ UNCHANGED <<pte, tlb, shadow, pending, sharers, unsaved, touched, locals>>
GupRead == DMA /\ Reachable /\ pte.write /\ Gup("none", "read") /\ gupPte' = pte /\ UNCHANGED pageDirty
GupReference == Gup("read", "referenced") /\ UNCHANGED <<gupPte, pageDirty>>
GupPin == pte = gupPte /\ Gup("referenced", "pinned") /\ UNCHANGED <<gupPte, pageDirty>>
GupBack == pte # gupPte /\ Gup("referenced", "none") /\ gupPte' = NoPte /\ UNCHANGED pageDirty
Unpin == Gup("pinned", "none") /\ gupPte' = NoPte /\ pageDirty' = TRUE

(* The process forks; a sharer forks or exits. *)
Fork ==
  /\ pc = "idle" /\ pending = "none" /\ Reachable /\ sharers < SHARERS
  /\ sharers' = sharers + 1 /\ pte' = [pte EXCEPT !.write = FALSE] /\ tlb' = NoEntry /\ shadow' = FALSE
  /\ UNCHANGED <<pageDirty, pending, Pins, unsaved, touched, locals>>
ShareOrExit ==
  /\ sharers > 0 /\ (SHARING \/ pc = "idle")
  /\ sharers' \in {sharers - 1, sharers + 1} \cap 0..SHARERS
  /\ UNCHANGED <<pte, pageDirty, tlb, shadow, pending, Pins, unsaved, touched, locals>>

Others ==
  \/ Load \/ Write \/ WriteFault \/ NumaFault \/ FlushChange \/ MapShadow
  \/ GupRead \/ GupReference \/ GupPin \/ GupBack \/ Unpin \/ Fork \/ ShareOrExit
  \/ \E change \in Changes : ChangePte(change)

Next == WriteProtectPage \/ Others
Spec == Init /\ [][Next]_vars

-----------------------------------------------------------------------------
Labels == {"idle", "address", "walk", "look", "clear", "flush", "counts", "set", "orig", "unlock", "end"}
Ptes == [present : BOOLEAN, write : BOOLEAN, dirty : BOOLEAN, protnone : BOOLEAN, saved : BOOLEAN]
TypeOK ==
  /\ {pte, gupPte, entry, orig} \subseteq Ptes /\ tlb \in [write : BOOLEAN, dirty : BOOLEAN]
  /\ {ptl, ranged, shadow, swapcache, pageDirty, unsaved} \subseteq BOOLEAN
  /\ pending \in Changes \cup {"none"} /\ gup \in {"none", "read", "referenced", "pinned"}
  /\ sharers \in 0..SHARERS /\ err \in {"none", "EFAULT", "0"}
  /\ seen \in [map : 0..SHARERS + 1, count : Nat] /\ pc \in Labels /\ touched \subseteq {"fault", "write"}

Succeeded == pc = "idle" /\ err = "0"

(* After a success every write faults first, whatever the entry was, who    *)
(* had it cached and whose flush was pending (978-990, 996-1001).           *)
ProtectedNeedsFault ==
  Succeeded /\ "fault" \notin touched =>
    ~pte.write /\ ~pte.saved /\ ~tlb.write /\ ~shadow /\ "write" \notin touched

(* Once the counters were compared and found equal, nobody writes the page  *)
(* by DMA (1003-1004), as long as no other process comes or goes meanwhile. *)
DmaExcluded ==
  Succeeded /\ seen.map # Unread /\ "fault" \notin touched => gup # "pinned"

(* What was written stays accounted for: in the entry, in the local copy    *)
(* while the entry is away, or in the page (1009-1017).                     *)
DirtyNeverLost ==
  unsaved => pageDirty \/ pte.dirty \/ (pc \in {"flush", "counts", "set"} /\ entry.dirty)

(* *orig_pte differs from the entry once the page has been written, but for *)
(* what MADV_FREE has given up.                                             *)
OrigPteShowsWrites == Succeeded /\ "write" \in touched /\ unsaved => pte # orig

(* Every way out gives the lock back, ends the invalidation it began, and   *)
(* puts the entry it took away back (1004-1006, 1025-1030).                 *)
NothingLeftHalfDone ==
  pc = "idle" => ~ptl /\ ~ranged /\ (entry.present => pte.present \/ "fault" \in touched)
=============================================================================
