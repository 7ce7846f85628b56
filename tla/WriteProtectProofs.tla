------------------------- MODULE WriteProtectProofs --------------------------
(***************************************************************************)
(* Theorems about WriteProtect, for any number of sharers, with and        *)
(* without DMA, and for every way the entry may change under a deferred    *)
(* flush: a protected page faults before it is written, and what has been  *)
(* written stays accounted for.                                            *)
(***************************************************************************)
EXTENDS WriteProtect, TLAPS

InWindow == {"flush", "counts", "set"}
InLock == InWindow \cup {"look", "clear", "orig", "unlock"}

Held ==
  /\ ptl <=> pc \in InLock
  /\ ranged <=> pc \in InLock \cup {"walk", "end"}
  /\ ranged => ~shadow

(* A page table entry, and where the entry of the page is.                  *)
Sane(e) ==
  /\ e.saved => e.protnone
  /\ e.protnone => ~e.write
  /\ ~e.present => ~e.write /\ ~e.dirty /\ ~e.protnone /\ ~e.saved
Entries ==
  /\ Sane(pte) /\ Sane(entry)
  /\ pc \in InWindow => ~pte.present /\ entry.present
  /\ pc \in {"look", "clear", "orig", "unlock"} => pte.present
  /\ pc \in {"address", "walk"} => ~entry.present
  /\ pc \in {"orig", "unlock", "end", "idle"} /\ entry.present => pte.present \/ "fault" \in touched

(* Why a processor may write without looking at the entry.                  *)
Cached ==
  /\ tlb.write => pte.write \/ pending # "none" \/ pc = "flush"
  /\ pc \in {"counts", "set"} => ~tlb.write

Readonly == ~pte.write /\ ~pte.saved /\ ~tlb.write /\ ~shadow
Protection ==
  /\ pc = "orig" => Readonly
  /\ err = "0" => pc \in {"unlock", "end", "idle"}
  /\ err = "0" /\ "fault" \notin touched => Readonly /\ "write" \notin touched

Accounted == pageDirty \/ pte.dirty \/ (pc \in InWindow /\ entry.dirty)
Dirt ==
  /\ unsaved => Accounted
  /\ tlb.write /\ tlb.dirty /\ pending # "clean" => Accounted

(* TypeOK, one variable a conjunct. *)
Types ==
  /\ pte \in Ptes /\ gupPte \in Ptes /\ entry \in Ptes /\ orig \in Ptes
  /\ tlb \in [write : BOOLEAN, dirty : BOOLEAN]
  /\ ptl \in BOOLEAN /\ ranged \in BOOLEAN /\ shadow \in BOOLEAN /\ swapcache \in BOOLEAN
  /\ pageDirty \in BOOLEAN /\ unsaved \in BOOLEAN
  /\ pending \in Changes \cup {"none"} /\ gup \in {"none", "read", "referenced", "pinned"}
  /\ sharers \in 0..SHARERS /\ err \in {"none", "EFAULT", "0"}
  /\ seen \in [map : 0..SHARERS + 1, count : Nat] /\ pc \in Labels /\ touched \subseteq {"fault", "write"}

WInv == Types /\ Held /\ Entries /\ Cached /\ Protection /\ Dirt

-----------------------------------------------------------------------------
(* The fields of the entries that the steps write.                          *)
LEMMA PteFields ==
  ASSUME NEW w \in BOOLEAN, NEW d \in BOOLEAN, NEW n \in BOOLEAN, NEW s \in BOOLEAN
  PROVE  /\ Pte(w, d, n, s) \in Ptes /\ Pte(w, d, n, s).present
         /\ Pte(w, d, n, s).write = w /\ Pte(w, d, n, s).dirty = d
         /\ Pte(w, d, n, s).protnone = n /\ Pte(w, d, n, s).saved = s
BY DEF Pte, Ptes

LEMMA NoFields ==
  /\ NoPte \in Ptes /\ ~NoPte.present /\ ~NoPte.write /\ ~NoPte.dirty /\ ~NoPte.protnone /\ ~NoPte.saved
  /\ NoEntry \in [write : BOOLEAN, dirty : BOOLEAN] /\ ~NoEntry.write /\ ~NoEntry.dirty
BY DEF NoPte, NoEntry, Ptes

LEMMA WriteFields ==
  ASSUME NEW e \in Ptes
  PROVE  LET r == [e EXCEPT !.write = FALSE]
         IN  r \in Ptes /\ r.present = e.present /\ ~r.write /\ r.dirty = e.dirty
             /\ r.protnone = e.protnone /\ r.saved = e.saved
BY DEF Ptes

LEMMA DirtyFields ==
  ASSUME NEW e \in Ptes, NEW d \in BOOLEAN
  PROVE  LET r == [e EXCEPT !.dirty = d]
         IN  r \in Ptes /\ r.present = e.present /\ r.write = e.write /\ r.dirty = d
             /\ r.protnone = e.protnone /\ r.saved = e.saved
BY DEF Ptes

LEMMA ProtectedFields ==
  ASSUME NEW e \in Ptes, Sane(e)
  PROVE  /\ Protected(e) \in Ptes /\ Protected(e).present = e.present
         /\ ~Protected(e).write /\ ~Protected(e).dirty /\ ~Protected(e).saved
         /\ Protected(e).protnone = e.protnone
<1>1. CASE e.protnone
  <2> DEFINE r == [e EXCEPT !.saved = FALSE, !.dirty = FALSE]
  <2>1. r \in Ptes /\ r.present = e.present /\ r.write = e.write /\ ~r.dirty /\ ~r.saved
        /\ r.protnone = e.protnone
    BY DEF Ptes
  <2>2. Protected(e) = r
    BY <1>1 DEF Protected
  <2> HIDE DEF r
  <2> QED BY <1>1, <2>1, <2>2 DEF Sane
<1>2. CASE ~e.protnone
  <2> DEFINE r == [e EXCEPT !.write = FALSE, !.dirty = FALSE]
  <2>1. r \in Ptes /\ r.present = e.present /\ ~r.write /\ ~r.dirty /\ r.saved = e.saved
        /\ r.protnone = e.protnone
    BY DEF Ptes
  <2>2. Protected(e) = r
    BY <1>2 DEF Protected
  <2> HIDE DEF r
  <2> QED BY <1>2, <2>1, <2>2 DEF Sane
<1> QED BY <1>1, <1>2

LEMMA WInitial == Init => WInv
<1> SUFFICES ASSUME Init PROVE WInv
  OBVIOUS
<1>1. NoPte \in Ptes /\ Sane(NoPte)
  BY NoFields DEF Sane
<1>2. Pte(TRUE, TRUE, FALSE, FALSE) \in Ptes /\ Sane(Pte(TRUE, TRUE, FALSE, FALSE))
  BY PteFields DEF Sane
<1>3. Pte(FALSE, FALSE, FALSE, FALSE) \in Ptes /\ Sane(Pte(FALSE, FALSE, FALSE, FALSE))
  BY PteFields DEF Sane
<1>4. pte \in Ptes /\ Sane(pte) /\ entry = NoPte /\ orig = NoPte /\ gupPte = NoPte
  BY <1>1, <1>2, <1>3 DEF Init
<1>5. seen \in [map : 0..SHARERS + 1, count : Nat] /\ sharers \in 0..SHARERS
  BY WriteProtectAssumption DEF Init, Unread
<1>6. Types
  BY <1>1, <1>4, <1>5, NoFields DEF Init, Types, Labels
<1>7. Entries /\ Cached
  BY <1>1, <1>4, NoFields DEF Init, Entries, Cached, InWindow
<1>8. Held /\ Protection /\ Dirt
  BY NoFields DEF Init, Held, InLock, InWindow, Protection, Dirt
<1> QED
  BY <1>6, <1>7, <1>8 DEF WInv

LEMMA CallKept ==
  ASSUME WInv, Call
  PROVE  WInv'
<1> USE DEF WInv, Call, Goto, Begun, others, locals, Pins, Reachable
<1>1. pte \in Ptes /\ seen' \in [map : 0..SHARERS + 1, count : Nat]
  BY WriteProtectAssumption DEF Types, Unread
<1>2. Types'
  BY <1>1, NoFields DEF Types, Labels
<1>3. Held'
  BY <1>1, NoFields DEF Types, Held, InLock, InWindow
<1>4. Entries'
  BY <1>1, NoFields DEF Types, Held, Entries, Sane, InLock, InWindow
<1>5. Cached'
  BY <1>1, NoFields DEF Types, Held, Entries, Sane, Cached, InLock, InWindow
<1>6. Protection'
  BY <1>1, NoFields DEF Types, Held, Entries, Sane, Cached, Protection, Readonly, InLock, InWindow
<1>7. Dirt'
  BY <1>1, NoFields DEF Types, Held, Entries, Sane, Cached, Dirt, Accounted, InLock, InWindow
<1> QED
  BY <1>2, <1>3, <1>4, <1>5, <1>6, <1>7

LEMMA NoAddressKept ==
  ASSUME WInv, NoAddress
  PROVE  WInv'
<1> USE DEF WInv, NoAddress, Goto, Begun, others, locals, Pins, Reachable
<1>1. Types'
  BY DEF Types, Labels
<1>2. Held'
  BY DEF Types, Held, InLock, InWindow
<1>3. Entries'
  BY DEF Types, Held, Entries, Sane, InLock, InWindow
<1>4. Cached'
  BY DEF Types, Held, Entries, Sane, Cached, InLock, InWindow
<1>5. Protection'
  BY DEF Types, Held, Entries, Sane, Cached, Protection, Readonly, InLock, InWindow
<1>6. Dirt'
  BY DEF Types, Held, Entries, Sane, Cached, Dirt, Accounted, InLock, InWindow
<1> QED
  BY <1>1, <1>2, <1>3, <1>4, <1>5, <1>6

LEMMA RangeStartKept ==
  ASSUME WInv, RangeStart
  PROVE  WInv'
<1> USE DEF WInv, RangeStart, Goto, Begun, others, locals, Pins, Reachable
<1>1. Types'
  BY ZenonT(60) DEF Types, Labels
<1>2. Held'
  BY DEF Types, Held, InLock, InWindow
<1>3. Entries'
  BY DEF Types, Held, Entries, Sane, InLock, InWindow
<1>4. Cached'
  BY DEF Types, Held, Entries, Sane, Cached, InLock, InWindow
<1>5. Protection'
  BY DEF Types, Held, Entries, Sane, Cached, Protection, Readonly, InLock, InWindow
<1>6. Dirt'
  BY DEF Types, Held, Entries, Sane, Cached, Dirt, Accounted, InLock, InWindow
<1> QED
  BY <1>1, <1>2, <1>3, <1>4, <1>5, <1>6

LEMMA WalkKept ==
  ASSUME WInv, Walk
  PROVE  WInv'
<1> USE DEF WInv, Walk, Goto, Begun, others, locals
<1>1. pte.present \in BOOLEAN
  BY DEF Types, Ptes
<1>2. Types'
  BY <1>1 DEF Types, Labels
<1>3. Held'
  BY <1>1 DEF Types, Held, InLock, InWindow
<1>4. Entries'
  BY <1>1 DEF Types, Held, Entries, Sane, InLock, InWindow
<1>5. Cached'
  BY <1>1 DEF Types, Held, Entries, Sane, Cached, InLock, InWindow
<1>6. Protection'
  BY <1>1 DEF Types, Held, Entries, Sane, Cached, Protection, Readonly, InLock, InWindow
<1>7. Dirt'
  BY <1>1 DEF Types, Held, Entries, Sane, Cached, Dirt, Accounted, InLock, InWindow
<1> QED
  BY <1>2, <1>3, <1>4, <1>5, <1>6, <1>7

LEMMA LookKept ==
  ASSUME WInv, Look
  PROVE  WInv'
<1> USE DEF WInv, Look, Goto, others, SeenYet, MayBeWritten
<1>1. Types'
  BY DEF Types, Labels
<1>2. Held'
  BY DEF Types, Held, InLock, InWindow
<1>3. Entries'
  BY DEF Types, Held, Entries, Sane, InLock, InWindow
<1>4. Cached'
  BY DEF Types, Held, Entries, Sane, Cached, InLock, InWindow
<1>5. Protection'
  BY DEF Types, Held, Entries, Sane, Cached, Protection, Readonly, InLock, InWindow
<1>6. Dirt'
  BY DEF Types, Held, Entries, Sane, Cached, Dirt, Accounted, InLock, InWindow
<1> QED
  BY <1>1, <1>2, <1>3, <1>4, <1>5, <1>6

LEMMA ClearKept ==
  ASSUME WInv, Clear
  PROVE  WInv'
<1> USE DEF WInv, Clear, Goto, others, Taken
<1>1. Types'
  BY NoFields DEF Types, Labels
<1>2. Held'
  BY NoFields DEF Types, Held, InLock, InWindow
<1>3. Entries'
  BY NoFields DEF Types, Held, Entries, Sane, InLock, InWindow
<1>4. Cached'
  BY NoFields DEF Types, Held, Entries, Sane, Cached, InLock, InWindow
<1>5. Protection'
  BY NoFields DEF Types, Held, Entries, Sane, Cached, Protection, Readonly, InLock, InWindow
<1>6. Dirt'
  BY NoFields DEF Types, Held, Entries, Sane, Cached, Dirt, Accounted, InLock, InWindow
<1> QED
  BY <1>1, <1>2, <1>3, <1>4, <1>5, <1>6

LEMMA FlushKept ==
  ASSUME WInv, Flush
  PROVE  WInv'
<1> USE DEF WInv, Flush, Goto, Begun, others, locals, Pins, Reachable
<1>1. Types'
  BY NoFields DEF Types, Labels
<1>2. Held'
  BY NoFields DEF Types, Held, InLock, InWindow
<1>3. Entries'
  BY NoFields DEF Types, Held, Entries, Sane, InLock, InWindow
<1>4. Cached'
  BY NoFields DEF Types, Held, Entries, Sane, Cached, InLock, InWindow
<1>5. Protection'
  BY NoFields DEF Types, Held, Entries, Sane, Cached, Protection, Readonly, InLock, InWindow
<1>6. Dirt'
  BY NoFields DEF Types, Held, Entries, Sane, Cached, Dirt, Accounted, InLock, InWindow
<1> QED
  BY <1>1, <1>2, <1>3, <1>4, <1>5, <1>6

LEMMA ReadMapKept ==
  ASSUME WInv, ReadCounter("map", Mapcount)
  PROVE  WInv'
<1> USE DEF WInv, ReadCounter, Goto, others
<1>1. Mapcount \in 0..SHARERS + 1 /\ PageCount \in Nat
  BY WriteProtectAssumption DEF Types, Mapcount, PageCount
<1>2. seen' \in [map : 0..SHARERS + 1, count : Nat]
  BY <1>1 DEF Types
<1>3. Types'
  BY <1>1, <1>2 DEF Types, Labels
<1>4. Held'
  BY <1>1, <1>2 DEF Types, Held, InLock, InWindow
<1>5. Entries'
  BY <1>1, <1>2 DEF Types, Held, Entries, Sane, InLock, InWindow
<1>6. Cached'
  BY <1>1, <1>2 DEF Types, Held, Entries, Sane, Cached, InLock, InWindow
<1>7. Protection'
  BY <1>1, <1>2 DEF Types, Held, Entries, Sane, Cached, Protection, Readonly, InLock, InWindow
<1>8. Dirt'
  BY <1>1, <1>2 DEF Types, Held, Entries, Sane, Cached, Dirt, Accounted, InLock, InWindow
<1> QED
  BY <1>3, <1>4, <1>5, <1>6, <1>7, <1>8

LEMMA ReadCountKept ==
  ASSUME WInv, ReadCounter("count", PageCount)
  PROVE  WInv'
<1> USE DEF WInv, ReadCounter, Goto, others
<1>1. Mapcount \in 0..SHARERS + 1 /\ PageCount \in Nat
  BY WriteProtectAssumption DEF Types, Mapcount, PageCount
<1>2. seen' \in [map : 0..SHARERS + 1, count : Nat]
  BY <1>1 DEF Types
<1>3. Types'
  BY <1>1, <1>2 DEF Types, Labels
<1>4. Held'
  BY <1>1, <1>2 DEF Types, Held, InLock, InWindow
<1>5. Entries'
  BY <1>1, <1>2 DEF Types, Held, Entries, Sane, InLock, InWindow
<1>6. Cached'
  BY <1>1, <1>2 DEF Types, Held, Entries, Sane, Cached, InLock, InWindow
<1>7. Protection'
  BY <1>1, <1>2 DEF Types, Held, Entries, Sane, Cached, Protection, Readonly, InLock, InWindow
<1>8. Dirt'
  BY <1>1, <1>2 DEF Types, Held, Entries, Sane, Cached, Dirt, Accounted, InLock, InWindow
<1> QED
  BY <1>3, <1>4, <1>5, <1>6, <1>7, <1>8

LEMMA CompareKept ==
  ASSUME WInv, Compare
  PROVE  WInv'
<1> USE DEF WInv, Compare, Goto, others
<1>1. Types'
  BY DEF Types, Labels
<1>2. Held'
  BY DEF Types, Held, InLock, InWindow
<1>3. Entries'
  BY DEF Types, Held, Entries, Sane, InLock, InWindow
<1>4. Cached'
  BY DEF Types, Held, Entries, Sane, Cached, InLock, InWindow
<1>5. Protection'
  BY DEF Types, Held, Entries, Sane, Cached, Protection, Readonly, InLock, InWindow
<1>6. Dirt'
  BY DEF Types, Held, Entries, Sane, Cached, Dirt, Accounted, InLock, InWindow
<1> QED
  BY <1>1, <1>2, <1>3, <1>4, <1>5, <1>6

LEMMA SetPteKept ==
  ASSUME WInv, SetPte
  PROVE  WInv'
<1> USE DEF WInv, SetPte, Goto, others, Marked
<1>1. entry \in Ptes /\ Sane(entry)
  BY DEF Types, Entries
<1>2. Types'
  BY <1>1, ProtectedFields DEF Types, Labels
<1>3. Held'
  BY <1>1, ProtectedFields DEF Types, Held, InLock, InWindow
<1>4. Entries'
  BY <1>1, ProtectedFields DEF Types, Held, Entries, Sane, InLock, InWindow
<1>5. Cached'
  BY <1>1, ProtectedFields DEF Types, Held, Entries, Sane, Cached, InLock, InWindow
<1>6. Protection'
  BY <1>1, ProtectedFields DEF Types, Held, Entries, Sane, Cached, Protection, Readonly, InLock, InWindow
<1>7. Dirt'
  BY <1>1, ProtectedFields DEF Types, Held, Entries, Sane, Cached, Dirt, Accounted, InLock, InWindow
<1> QED
  BY <1>2, <1>3, <1>4, <1>5, <1>6, <1>7

LEMMA SetOrigKept ==
  ASSUME WInv, SetOrig
  PROVE  WInv'
<1> USE DEF WInv, SetOrig, Goto, Begun, others, locals, Pins, Reachable
<1>1. Types'
  BY DEF Types, Labels
<1>2. Held'
  BY DEF Types, Held, InLock, InWindow
<1>3. Entries'
  BY DEF Types, Held, Entries, Sane, InLock, InWindow
<1>4. Cached'
  BY DEF Types, Held, Entries, Sane, Cached, InLock, InWindow
<1>5. Protection'
  BY DEF Types, Held, Entries, Sane, Cached, Protection, Readonly, InLock, InWindow
<1>6. Dirt'
  BY DEF Types, Held, Entries, Sane, Cached, Dirt, Accounted, InLock, InWindow
<1> QED
  BY <1>1, <1>2, <1>3, <1>4, <1>5, <1>6

LEMMA UnlockKept ==
  ASSUME WInv, Unlock
  PROVE  WInv'
<1>0. /\ pc' = "end" /\ ptl' = FALSE
      /\ pte' = pte /\ gupPte' = gupPte /\ entry' = entry /\ orig' = orig /\ tlb' = tlb
      /\ ranged' = ranged /\ shadow' = shadow /\ swapcache' = swapcache
      /\ pageDirty' = pageDirty /\ unsaved' = unsaved /\ pending' = pending /\ gup' = gup
      /\ sharers' = sharers /\ err' = err /\ seen' = seen /\ touched' = touched
  BY DEF Unlock, Goto, others
<1>1. Types'
  <2>1. Types
    BY DEF WInv
  <2>2. "end" \in Labels
    BY DEF Labels
  <2>3. FALSE \in BOOLEAN
    OBVIOUS
  <2> QED BY <1>0, <2>1, <2>2, <2>3, ZenonT(60) DEF Types
<1> USE DEF WInv, Unlock, Goto, others
<1>2. Held'
  BY DEF Types, Held, InLock, InWindow
<1>3. Entries'
  BY DEF Types, Held, Entries, Sane, InLock, InWindow
<1>4. Cached'
  BY DEF Types, Held, Entries, Sane, Cached, InLock, InWindow
<1>5. Protection'
  BY DEF Types, Held, Entries, Sane, Cached, Protection, Readonly, InLock, InWindow
<1>6. Dirt'
  BY DEF Types, Held, Entries, Sane, Cached, Dirt, Accounted, InLock, InWindow
<1> QED
  BY <1>1, <1>2, <1>3, <1>4, <1>5, <1>6

LEMMA RangeEndKept ==
  ASSUME WInv, RangeEnd
  PROVE  WInv'
<1> USE DEF WInv, RangeEnd, Goto, others
<1>1. pc' \in Labels /\ ranged' \in BOOLEAN
  BY DEF Labels
<1>2. Types'
  BY <1>1 DEF Types, Labels
<1>3. Held'
  BY <1>1 DEF Types, Held, InLock, InWindow
<1>4. Entries'
  BY <1>1 DEF Types, Held, Entries, Sane, InLock, InWindow
<1>5. Cached'
  BY <1>1 DEF Types, Held, Entries, Sane, Cached, InLock, InWindow
<1>6. Protection'
  BY <1>1 DEF Types, Held, Entries, Sane, Cached, Protection, Readonly, InLock, InWindow
<1>7. Dirt'
  BY <1>1 DEF Types, Held, Entries, Sane, Cached, Dirt, Accounted, InLock, InWindow
<1> QED
  BY <1>2, <1>3, <1>4, <1>5, <1>6, <1>7

LEMMA LoadKept ==
  ASSUME WInv, Load
  PROVE  WInv'
<1> USE DEF WInv, Load, Begun, locals, Pins, Reachable
<1>1. tlb' \in [write : BOOLEAN, dirty : BOOLEAN] /\ tlb'.write = pte.write /\ tlb'.dirty = pte.dirty
  BY DEF Types, Ptes
<1>2. Types'
  BY <1>1 DEF Types, Labels
<1>3. Held'
  BY <1>1 DEF Types, Held, InLock, InWindow
<1>4. Entries'
  BY <1>1 DEF Types, Held, Entries, Sane, InLock, InWindow
<1>5. Cached'
  BY <1>1 DEF Types, Held, Entries, Sane, Cached, InLock, InWindow
<1>6. Protection'
  BY <1>1 DEF Types, Held, Entries, Sane, Cached, Protection, Readonly, InLock, InWindow
<1>7. Dirt'
  BY <1>1 DEF Types, Held, Entries, Sane, Cached, Dirt, Accounted, InLock, InWindow
<1> QED
  BY <1>2, <1>3, <1>4, <1>5, <1>6, <1>7

LEMMA WriteKept ==
  ASSUME WInv, Write
  PROVE  WInv'
<1> USE DEF WInv
<1>1. /\ UNCHANGED <<shadow, gup, gupPte, sharers, pc, entry, seen, orig, err, ptl, ranged, swapcache>>
      /\ UNCHANGED <<pageDirty, pending>>
      /\ unsaved' = (unsaved \/ pending # "clean") /\ touched' = touched \cup {"write"}
  BY DEF Write, locals, Pins
<1>2. /\ pte' \in Ptes /\ pte'.present = pte.present /\ pte'.write = pte.write
      /\ pte'.protnone = pte.protnone /\ pte'.saved = pte.saved
      /\ tlb' \in [write : BOOLEAN, dirty : BOOLEAN]
      /\ tlb.write \/ pte.write
      /\ tlb'.write => tlb.write \/ pte.write
      /\ pte'.dirty \/ (tlb.write /\ tlb.dirty /\ pte' = pte)
      /\ pte' = pte \/ pte.present
  <2>1. CASE tlb.write /\ tlb.dirty /\ UNCHANGED <<tlb, pte>>
    BY <2>1 DEF Types
  <2>2. CASE /\ Reachable /\ pte.write
             /\ pte' = [pte EXCEPT !.dirty = TRUE] /\ tlb' = [write |-> TRUE, dirty |-> TRUE]
    <3>1. /\ pte' \in Ptes /\ pte'.present = pte.present /\ pte'.write = pte.write
          /\ pte'.protnone = pte.protnone /\ pte'.saved = pte.saved /\ pte'.dirty
      BY <2>2, DirtyFields DEF Types
    <3>2. tlb' \in [write : BOOLEAN, dirty : BOOLEAN]
      BY <2>2
    <3> QED BY <2>2, <3>1, <3>2 DEF Reachable
  <2> QED BY <2>1, <2>2 DEF Write
<1>3. Types'
  BY <1>1, <1>2 DEF Types, Labels
<1>4. Held'
  BY <1>1, <1>2 DEF Types, Held, InLock, InWindow
<1>5. Entries'
  BY <1>1, <1>2 DEF Types, Held, Entries, Sane, InLock, InWindow
<1>6. Cached'
  BY <1>1, <1>2 DEF Types, Held, Entries, Sane, Cached, InLock, InWindow
<1>7. Protection'
  BY <1>1, <1>2 DEF Types, Held, Entries, Sane, Cached, Protection, Readonly, InLock, InWindow
<1>8. Dirt'
  BY <1>1, <1>2 DEF Types, Held, Entries, Sane, Cached, Dirt, Accounted, InLock, InWindow
<1> QED
  BY <1>3, <1>4, <1>5, <1>6, <1>7, <1>8

LEMMA WriteFaultKept ==
  ASSUME WInv, WriteFault
  PROVE  WInv'
<1> USE DEF WInv
<1>1. /\ UNCHANGED <<shadow, gup, gupPte, sharers, pc, entry, seen, orig, err, ptl, ranged, swapcache>>
      /\ UNCHANGED <<pending, unsaved>>
      /\ tlb' = NoEntry /\ touched' = touched \cup {"fault"} /\ ~ptl /\ pte.present
  BY DEF WriteFault, Reachable, Begun, locals
<1>2. tlb' \in [write : BOOLEAN, dirty : BOOLEAN] /\ ~tlb'.write /\ ~tlb'.dirty
  BY <1>1, NoFields
<1>3. /\ pte' \in Ptes /\ Sane(pte') /\ pageDirty' \in BOOLEAN
      /\ pageDirty \/ pte.dirty => pageDirty' \/ pte'.dirty
  <2>1. CASE sharers = 0
    <3>1. pte' = Pte(TRUE, TRUE, FALSE, FALSE) /\ pageDirty' = pageDirty
      BY <2>1 DEF WriteFault
    <3> QED BY <3>1, PteFields DEF Types, Sane
  <2>2. CASE sharers # 0
    <3>1. pte' = NoPte /\ pageDirty' = (pageDirty \/ pte.dirty)
      BY <2>2 DEF WriteFault
    <3>2. pageDirty' \in BOOLEAN
      BY <3>1
    <3> QED BY <3>1, <3>2, NoFields DEF Sane
  <2> QED BY <2>1, <2>2
<1>4. Types'
  BY <1>1, <1>2, <1>3 DEF Types, Labels
<1>5. Held'
  BY <1>1, <1>2, <1>3 DEF Types, Held, InLock, InWindow
<1>6. Entries'
  BY <1>1, <1>2, <1>3 DEF Types, Held, Entries, Sane, InLock, InWindow
<1>7. Cached'
  BY <1>1, <1>2, <1>3 DEF Types, Held, Entries, Sane, Cached, InLock, InWindow
<1>8. Protection'
  BY <1>1, <1>2, <1>3 DEF Types, Held, Entries, Sane, Cached, Protection, Readonly, InLock, InWindow
<1>9. Dirt'
  BY <1>1, <1>2, <1>3 DEF Types, Held, Entries, Sane, Cached, Dirt, Accounted, InLock, InWindow
<1> QED
  BY <1>4, <1>5, <1>6, <1>7, <1>8, <1>9

LEMMA NumaFaultKept ==
  ASSUME WInv, NumaFault
  PROVE  WInv'
<1> USE DEF WInv
<1>1. /\ UNCHANGED <<shadow, gup, gupPte, sharers, pc, entry, seen, orig, err, ptl, ranged, swapcache>>
      /\ UNCHANGED <<tlb, pending, unsaved, pageDirty>> /\ ~ptl /\ pte.protnone
      /\ pte' = Pte(pte.saved, pte.dirty, FALSE, FALSE)
  BY DEF NumaFault, Begun, locals
<1>2. /\ pte' \in Ptes /\ pte'.present /\ pte'.write = pte.saved /\ pte'.dirty = pte.dirty
      /\ ~pte'.protnone /\ ~pte'.saved
  <2>1. pte.saved \in BOOLEAN /\ pte.dirty \in BOOLEAN
    BY DEF Types, Ptes
  <2> QED BY <1>1, <2>1, PteFields
<1>3. /\ touched' \subseteq {"fault", "write"}
      /\ "fault" \in touched => "fault" \in touched'
      /\ "write" \in touched' => "write" \in touched
      /\ pte.saved => "fault" \in touched'
  BY DEF NumaFault, Types
<1>4. Types'
  <2>1. pte' \in Ptes /\ touched' \subseteq {"fault", "write"}
    BY <1>2, <1>3
  <2>2. /\ UNCHANGED <<shadow, gup, gupPte, sharers, pc, entry, seen, orig, err, ptl, ranged, swapcache>>
        /\ UNCHANGED <<tlb, pending, unsaved, pageDirty>>
    BY <1>1
  <2> QED BY <2>1, <2>2 DEF Types, Labels
<1>5. Held'
  BY <1>1, <1>2, <1>3 DEF Types, Held, InLock, InWindow
<1>6. Entries'
  BY <1>1, <1>2, <1>3 DEF Types, Held, Entries, Sane, InLock, InWindow
<1>7. Cached'
  BY <1>1, <1>2, <1>3 DEF Types, Held, Entries, Sane, Cached, InLock, InWindow
<1>8. Protection'
  BY <1>1, <1>2, <1>3 DEF Types, Held, Entries, Sane, Cached, Protection, Readonly, InLock, InWindow
<1>9. Dirt'
  BY <1>1, <1>2, <1>3 DEF Types, Held, Entries, Sane, Cached, Dirt, Accounted, InLock, InWindow
<1> QED
  BY <1>4, <1>5, <1>6, <1>7, <1>8, <1>9

LEMMA ChangePteKept ==
  ASSUME WInv, NEW change \in Changes, ChangePte(change)
  PROVE  WInv'
<1> USE DEF WInv
<1>1. /\ UNCHANGED <<shadow, gup, gupPte, sharers, pc, entry, seen, orig, err, ptl, ranged, swapcache>>
      /\ UNCHANGED <<tlb, touched>> /\ ~ptl /\ pte.present /\ ~pte.protnone
      /\ pending = "none" /\ pending' = change /\ change # "none" /\ pending' \in Changes \cup {"none"}
      /\ pageDirty' = (pageDirty /\ change # "clean") /\ unsaved' = (unsaved /\ change # "clean")
  BY WriteProtectAssumption DEF ChangePte, Reachable, Pins, locals
<1>2. /\ pte' \in Ptes /\ pte'.present /\ Sane(pte')
      /\ pte'.write => pte.write
      /\ pte'.saved => pte.write
      /\ change # "clean" => pte'.dirty = pte.dirty
  <2>1. pte.write \in BOOLEAN /\ pte.dirty \in BOOLEAN /\ ~pte.saved
    BY <1>1 DEF Types, Ptes, Entries, Sane
  <2>2. CASE change = "wrprotect"
    <3>1. pte' = [pte EXCEPT !.write = FALSE]
      BY <2>2 DEF ChangePte
    <3> QED BY <1>1, <2>1, <3>1, WriteFields DEF Types, Sane
  <2>3. CASE change = "clean"
    <3>1. pte' = [pte EXCEPT !.dirty = FALSE]
      BY <2>3 DEF ChangePte
    <3> QED BY <1>1, <2>1, <2>3, <3>1, DirtyFields DEF Types, Sane
  <2>4. CASE change = "protnone"
    <3>1. pte' = Pte(FALSE, pte.dirty, TRUE, pte.write)
      BY <2>4 DEF ChangePte
    <3> QED BY <2>1, <3>1, PteFields DEF Sane
  <2> QED BY <2>2, <2>3, <2>4, WriteProtectAssumption
<1>3. Types'
  BY <1>1, <1>2 DEF Types, Labels
<1>4. Held'
  BY <1>1, <1>2 DEF Types, Held, InLock, InWindow
<1>5. Entries'
  BY <1>1, <1>2 DEF Types, Held, Entries, Sane, InLock, InWindow
<1>6. Cached'
  BY <1>1, <1>2 DEF Types, Held, Entries, Sane, Cached, InLock, InWindow
<1>7. Protection'
  BY <1>1, <1>2 DEF Types, Held, Entries, Sane, Cached, Protection, Readonly, InLock, InWindow
<1>8. Dirt'
  BY <1>1, <1>2 DEF Types, Held, Entries, Sane, Cached, Dirt, Accounted, InLock, InWindow
<1> QED
  BY <1>3, <1>4, <1>5, <1>6, <1>7, <1>8

LEMMA FlushChangeKept ==
  ASSUME WInv, FlushChange
  PROVE  WInv'
<1> USE DEF WInv, FlushChange, Begun, locals, Pins, Reachable
<1>1. Types'
  BY NoFields DEF Types, Labels
<1>2. Held'
  BY NoFields DEF Types, Held, InLock, InWindow
<1>3. Entries'
  BY NoFields DEF Types, Held, Entries, Sane, InLock, InWindow
<1>4. Cached'
  BY NoFields DEF Types, Held, Entries, Sane, Cached, InLock, InWindow
<1>5. Protection'
  BY NoFields DEF Types, Held, Entries, Sane, Cached, Protection, Readonly, InLock, InWindow
<1>6. Dirt'
  BY NoFields DEF Types, Held, Entries, Sane, Cached, Dirt, Accounted, InLock, InWindow
<1> QED
  BY <1>1, <1>2, <1>3, <1>4, <1>5, <1>6

LEMMA MapShadowKept ==
  ASSUME WInv, MapShadow
  PROVE  WInv'
<1> USE DEF WInv, MapShadow, Begun, locals, Pins, Reachable
<1>1. Types'
  BY DEF Types, Labels
<1>2. Held'
  BY DEF Types, Held, InLock, InWindow
<1>3. Entries'
  BY DEF Types, Held, Entries, Sane, InLock, InWindow
<1>4. Cached'
  BY DEF Types, Held, Entries, Sane, Cached, InLock, InWindow
<1>5. Protection'
  BY DEF Types, Held, Entries, Sane, Cached, Protection, Readonly, InLock, InWindow
<1>6. Dirt'
  BY DEF Types, Held, Entries, Sane, Cached, Dirt, Accounted, InLock, InWindow
<1> QED
  BY <1>1, <1>2, <1>3, <1>4, <1>5, <1>6

LEMMA GupReadKept ==
  ASSUME WInv, GupRead
  PROVE  WInv'
<1> USE DEF WInv, GupRead, Gup, locals, Reachable
<1>1. Types'
  BY DEF Types, Labels
<1>2. Held'
  BY DEF Types, Held, InLock, InWindow
<1>3. Entries'
  BY DEF Types, Held, Entries, Sane, InLock, InWindow
<1>4. Cached'
  BY DEF Types, Held, Entries, Sane, Cached, InLock, InWindow
<1>5. Protection'
  BY DEF Types, Held, Entries, Sane, Cached, Protection, Readonly, InLock, InWindow
<1>6. Dirt'
  BY DEF Types, Held, Entries, Sane, Cached, Dirt, Accounted, InLock, InWindow
<1> QED
  BY <1>1, <1>2, <1>3, <1>4, <1>5, <1>6

LEMMA GupReferenceKept ==
  ASSUME WInv, GupReference
  PROVE  WInv'
<1> USE DEF WInv, GupReference, Gup, locals, Reachable
<1>1. Types'
  BY DEF Types, Labels
<1>2. Held'
  BY DEF Types, Held, InLock, InWindow
<1>3. Entries'
  BY DEF Types, Held, Entries, Sane, InLock, InWindow
<1>4. Cached'
  BY DEF Types, Held, Entries, Sane, Cached, InLock, InWindow
<1>5. Protection'
  BY DEF Types, Held, Entries, Sane, Cached, Protection, Readonly, InLock, InWindow
<1>6. Dirt'
  BY DEF Types, Held, Entries, Sane, Cached, Dirt, Accounted, InLock, InWindow
<1> QED
  BY <1>1, <1>2, <1>3, <1>4, <1>5, <1>6

LEMMA GupPinKept ==
  ASSUME WInv, GupPin
  PROVE  WInv'
<1> USE DEF WInv, GupPin, Gup, locals, Reachable
<1>1. Types'
  BY DEF Types, Labels
<1>2. Held'
  BY DEF Types, Held, InLock, InWindow
<1>3. Entries'
  BY DEF Types, Held, Entries, Sane, InLock, InWindow
<1>4. Cached'
  BY DEF Types, Held, Entries, Sane, Cached, InLock, InWindow
<1>5. Protection'
  BY DEF Types, Held, Entries, Sane, Cached, Protection, Readonly, InLock, InWindow
<1>6. Dirt'
  BY DEF Types, Held, Entries, Sane, Cached, Dirt, Accounted, InLock, InWindow
<1> QED
  BY <1>1, <1>2, <1>3, <1>4, <1>5, <1>6

LEMMA GupBackKept ==
  ASSUME WInv, GupBack
  PROVE  WInv'
<1> USE DEF WInv, GupBack, Gup, locals, Reachable
<1>1. Types'
  BY NoFields DEF Types, Labels
<1>2. Held'
  BY NoFields DEF Types, Held, InLock, InWindow
<1>3. Entries'
  BY NoFields DEF Types, Held, Entries, Sane, InLock, InWindow
<1>4. Cached'
  BY NoFields DEF Types, Held, Entries, Sane, Cached, InLock, InWindow
<1>5. Protection'
  BY NoFields DEF Types, Held, Entries, Sane, Cached, Protection, Readonly, InLock, InWindow
<1>6. Dirt'
  BY NoFields DEF Types, Held, Entries, Sane, Cached, Dirt, Accounted, InLock, InWindow
<1> QED
  BY <1>1, <1>2, <1>3, <1>4, <1>5, <1>6

LEMMA UnpinKept ==
  ASSUME WInv, Unpin
  PROVE  WInv'
<1> USE DEF WInv, Unpin, Gup, locals, Reachable
<1>1. Types'
  BY NoFields DEF Types, Labels
<1>2. Held'
  BY NoFields DEF Types, Held, InLock, InWindow
<1>3. Entries'
  BY NoFields DEF Types, Held, Entries, Sane, InLock, InWindow
<1>4. Cached'
  BY NoFields DEF Types, Held, Entries, Sane, Cached, InLock, InWindow
<1>5. Protection'
  BY NoFields DEF Types, Held, Entries, Sane, Cached, Protection, Readonly, InLock, InWindow
<1>6. Dirt'
  BY NoFields DEF Types, Held, Entries, Sane, Cached, Dirt, Accounted, InLock, InWindow
<1> QED
  BY <1>1, <1>2, <1>3, <1>4, <1>5, <1>6

LEMMA ForkKept ==
  ASSUME WInv, Fork
  PROVE  WInv'
<1> USE DEF WInv, Fork, Begun, locals, Pins, Reachable
<1>1. sharers' \in 0..SHARERS
  BY WriteProtectAssumption DEF Types
<1>2. Types'
  BY <1>1, NoFields, WriteFields DEF Types, Labels
<1>3. Held'
  BY <1>1, NoFields, WriteFields DEF Types, Held, InLock, InWindow
<1>4. Entries'
  BY <1>1, NoFields, WriteFields DEF Types, Held, Entries, Sane, InLock, InWindow
<1>5. Cached'
  BY <1>1, NoFields, WriteFields DEF Types, Held, Entries, Sane, Cached, InLock, InWindow
<1>6. Protection'
  BY <1>1, NoFields, WriteFields DEF Types, Held, Entries, Sane, Cached, Protection, Readonly, InLock, InWindow
<1>7. Dirt'
  BY <1>1, NoFields, WriteFields DEF Types, Held, Entries, Sane, Cached, Dirt, Accounted, InLock, InWindow
<1> QED
  BY <1>2, <1>3, <1>4, <1>5, <1>6, <1>7

LEMMA ShareOrExitKept ==
  ASSUME WInv, ShareOrExit
  PROVE  WInv'
<1> USE DEF WInv, ShareOrExit, Begun, locals, Pins, Reachable
<1>1. sharers' \in 0..SHARERS
  OBVIOUS
<1>2. Types'
  BY <1>1 DEF Types, Labels
<1>3. Held'
  BY <1>1 DEF Types, Held, InLock, InWindow
<1>4. Entries'
  BY <1>1 DEF Types, Held, Entries, Sane, InLock, InWindow
<1>5. Cached'
  BY <1>1 DEF Types, Held, Entries, Sane, Cached, InLock, InWindow
<1>6. Protection'
  BY <1>1 DEF Types, Held, Entries, Sane, Cached, Protection, Readonly, InLock, InWindow
<1>7. Dirt'
  BY <1>1 DEF Types, Held, Entries, Sane, Cached, Dirt, Accounted, InLock, InWindow
<1> QED
  BY <1>2, <1>3, <1>4, <1>5, <1>6, <1>7

-----------------------------------------------------------------------------
LEMMA WStep == WInv /\ [Next]_vars => WInv'
<1> SUFFICES ASSUME WInv, [Next]_vars
             PROVE  WInv'
  OBVIOUS
<1>1. CASE Call
  BY <1>1, CallKept
<1>2. CASE NoAddress
  BY <1>2, NoAddressKept
<1>3. CASE RangeStart
  BY <1>3, RangeStartKept
<1>4. CASE Walk
  BY <1>4, WalkKept
<1>5. CASE Look
  BY <1>5, LookKept
<1>6. CASE Clear
  BY <1>6, ClearKept
<1>7. CASE Flush
  BY <1>7, FlushKept
<1>8. CASE ReadCounter("map", Mapcount)
  BY <1>8, ReadMapKept
<1>9. CASE ReadCounter("count", PageCount)
  BY <1>9, ReadCountKept
<1>10. CASE Compare
  BY <1>10, CompareKept
<1>11. CASE SetPte
  BY <1>11, SetPteKept
<1>12. CASE SetOrig
  BY <1>12, SetOrigKept
<1>13. CASE Unlock
  BY <1>13, UnlockKept
<1>14. CASE RangeEnd
  BY <1>14, RangeEndKept
<1>15. CASE Load
  BY <1>15, LoadKept
<1>16. CASE Write
  BY <1>16, WriteKept
<1>17. CASE WriteFault
  BY <1>17, WriteFaultKept
<1>18. CASE NumaFault
  BY <1>18, NumaFaultKept
<1>19. CASE \E change \in Changes : ChangePte(change)
  BY <1>19, ChangePteKept
<1>20. CASE FlushChange
  BY <1>20, FlushChangeKept
<1>21. CASE MapShadow
  BY <1>21, MapShadowKept
<1>22. CASE GupRead
  BY <1>22, GupReadKept
<1>23. CASE GupReference
  BY <1>23, GupReferenceKept
<1>24. CASE GupPin
  BY <1>24, GupPinKept
<1>25. CASE GupBack
  BY <1>25, GupBackKept
<1>26. CASE Unpin
  BY <1>26, UnpinKept
<1>27. CASE Fork
  BY <1>27, ForkKept
<1>28. CASE ShareOrExit
  BY <1>28, ShareOrExitKept
<1>29. CASE UNCHANGED vars
  BY <1>29 DEF vars, others, locals, WInv, Types, Held, Entries, Sane, Cached, Protection, Readonly,
                Dirt, Accounted, InLock, InWindow
<1> QED
  BY <1>1, <1>2, <1>3, <1>4, <1>5, <1>6, <1>7, <1>8, <1>9, <1>10, <1>11, <1>12, <1>13, <1>14, <1>15, <1>16, <1>17, <1>18, <1>19, <1>20, <1>21, <1>22, <1>23, <1>24, <1>25, <1>26, <1>27, <1>28, <1>29
  DEF Next, WriteProtectPage, Others

LEMMA WInvariant == Spec => []WInv
BY WInitial, WStep, PTL DEF Spec

(* Every variable keeps its type, whatever the other threads do with the    *)
(* entry meanwhile.                                                         *)
THEOREM WpTypes == Spec => []TypeOK
<1>1. WInv => TypeOK
  BY DEF WInv, Types, TypeOK
<1> QED BY <1>1, WInvariant, PTL

(* After write_protect_page has returned 0 the page is not written before a *)
(* fault: not through the entry, not through what a processor had cached of *)
(* it, not through a secondary MMU (978-990, 996-1001).                     *)
THEOREM FaultsFirst == Spec => []ProtectedNeedsFault
<1>1. WInv => ProtectedNeedsFault
  BY DEF WInv, Protection, Readonly, Succeeded, ProtectedNeedsFault
<1> QED BY <1>1, WInvariant, PTL

(* What has been written to the page is in the dirty bit of the entry, in   *)
(* the local copy of it, or in the page's own (1009-1017), for any number   *)
(* of sharers, and with a change of the entry still to be flushed.          *)
THEOREM DirtyKept == Spec => []DirtyNeverLost
<1>1. WInv => DirtyNeverLost
  BY DEF WInv, Dirt, Accounted, InWindow, DirtyNeverLost
<1> QED BY <1>1, WInvariant, PTL

(* Every exit has given the lock back, ended the range it began and put the *)
(* entry back (1004-1006, 1025-1030).                                       *)
THEOREM ExitsClean == Spec => []NothingLeftHalfDone
<1>1. WInv => NothingLeftHalfDone
  BY DEF WInv, Held, InLock, InWindow, Entries, NothingLeftHalfDone
<1> QED BY <1>1, WInvariant, PTL

-----------------------------------------------------------------------------
(* *orig_pte: the entry it keeps a copy of was clean, and what is written   *)
(* after it was taken makes the entry dirty or goes with the mapping.       *)
Shown ==
  /\ pc = "orig" => ~pte.dirty
  /\ err = "0" => orig.present /\ ~orig.dirty
  /\ pending = "clean" => ~unsaved
  /\ err = "0" /\ tlb.write /\ tlb.dirty /\ pending # "clean" => pte.dirty
  /\ err = "0" /\ "write" \in touched /\ unsaved => pte.dirty \/ ~pte.present

(* The counters: what they were when read, and who can hold a pin since.    *)
(* The entry get_user_pages_fast saw was writable, so it is not the one     *)
(* that is there while the page is protected.                               *)
InSwap == IF swapcache THEN 1 ELSE 0
Counted ==
  /\ gup # "none" => gupPte.present /\ gupPte.write
  /\ pc \in {"address", "walk", "look", "clear", "flush"} => seen.map = Unread /\ seen.count = Unread
  /\ pc = "counts" /\ seen.map # Unread => seen.map = sharers + 1
  /\ pc = "counts" /\ seen.count # Unread =>
       seen.count >= sharers + 2 + InSwap + (IF gup = "pinned" THEN 1 ELSE 0)
  /\ pc = "set" => gup # "pinned"
  /\ pc = "orig" /\ seen.map # Unread => gup # "pinned"
  /\ err = "0" /\ seen.map # Unread /\ "fault" \notin touched => gup # "pinned"

OInv == WInv /\ Shown

LEMMA OInitial == Init => OInv
BY WInitial, NoFields DEF OInv, Init, Shown

(* The steps that leave the entry, its cached copies and the history alone. *)
Quiet ==
  /\ UNCHANGED <<pte, tlb, pending, unsaved, touched, err, orig>>
  /\ pc' = "orig" => pc = "orig"

LEMMA QuietShown == ASSUME Shown, Quiet PROVE Shown'
BY DEF Shown, Quiet

LEMMA QuietSteps ==
  ASSUME \/ NoAddress \/ RangeStart \/ Walk \/ ReadCounter("map", Mapcount)
         \/ ReadCounter("count", PageCount) \/ Unlock \/ RangeEnd \/ MapShadow
         \/ GupRead \/ GupReference \/ GupPin \/ GupBack \/ Unpin \/ ShareOrExit
  PROVE  Quiet
<1> USE DEF Quiet, Goto, others, locals, Begun, Pins
<1>1. CASE NoAddress \/ RangeStart \/ Walk
  BY <1>1 DEF NoAddress, RangeStart, Walk
<1>2. CASE ReadCounter("map", Mapcount) \/ ReadCounter("count", PageCount) \/ Unlock \/ RangeEnd
  BY <1>2 DEF ReadCounter, Unlock, RangeEnd
<1>3. CASE MapShadow \/ ShareOrExit
  BY <1>3 DEF MapShadow, ShareOrExit
<1>4. CASE GupRead \/ GupReference \/ GupPin \/ GupBack \/ Unpin
  BY <1>4 DEF GupRead, GupReference, GupPin, GupBack, Unpin, Gup
<1> QED BY <1>1, <1>2, <1>3, <1>4

LEMMA TakingShown ==
  ASSUME OInv, Call \/ Look \/ Clear \/ Flush \/ Compare
  PROVE  Shown'
<1> USE DEF OInv, WInv, Goto, others, locals, Begun
<1>1. CASE Call
  BY <1>1 DEF Call, Shown
<1>2. CASE Look
  BY <1>2 DEF Look, MayBeWritten, Shown
<1>3. CASE Clear \/ Flush \/ Compare
  <2>1. err # "0" /\ err' = err /\ pc' # "orig" /\ UNCHANGED <<pending, unsaved>>
    BY <1>3 DEF Clear, Flush, Compare, Protection
  <2> QED BY <2>1 DEF Shown
<1> QED BY <1>1, <1>2, <1>3

LEMMA PuttingBackShown ==
  ASSUME OInv, SetPte \/ SetOrig
  PROVE  Shown'
<1> USE DEF OInv, WInv, Goto, others, locals, Begun
<1>1. CASE SetPte
  <2>1. ~Protected(entry).dirty
    BY ProtectedFields DEF Types, Entries
  <2>2. err # "0" /\ err' = err /\ pte' = Protected(entry) /\ UNCHANGED <<pending, unsaved>>
    BY <1>1 DEF SetPte, Protection
  <2> QED BY <2>1, <2>2 DEF Shown
<1>2. CASE SetOrig
  <2>1. pc = "orig" /\ pte.present /\ ~pte.dirty /\ ~tlb.write
    BY <1>2 DEF SetOrig, Entries, Protection, Readonly, Shown
  <2>2. orig' = pte /\ touched' = {} /\ pc' = "unlock" /\ UNCHANGED <<pte, tlb, pending, unsaved>>
    BY <1>2 DEF SetOrig
  <2> QED BY <2>1, <2>2 DEF Shown
<1> QED BY <1>1, <1>2

LEMMA LoadShown == ASSUME OInv, Load PROVE Shown'
<1>1. tlb'.write = pte.write /\ tlb'.dirty = pte.dirty
  BY DEF Load
<1>2. UNCHANGED <<pte, pending, unsaved, touched, err, orig, pc>>
  BY DEF Load, Begun, locals
<1> QED BY <1>1, <1>2 DEF OInv, Shown

LEMMA WriteShown == ASSUME OInv, Write PROVE Shown'
<1> USE DEF OInv, WInv
<1>1. /\ UNCHANGED <<pending, err, orig, pc>> /\ touched' = touched \cup {"write"}
      /\ unsaved' = (unsaved \/ pending # "clean")
  BY DEF Write, locals
<1>2. pc # "orig"
  BY DEF Write, Protection, Readonly
<1>3. CASE tlb.write /\ tlb.dirty /\ UNCHANGED <<tlb, pte>>
  BY <1>1, <1>2, <1>3 DEF Shown
<1>4. CASE pte' = [pte EXCEPT !.dirty = TRUE]
  <2>1. pte'.dirty
    BY <1>4, DirtyFields DEF Types
  <2> QED BY <1>1, <1>2, <2>1 DEF Shown
<1> QED BY <1>3, <1>4 DEF Write

LEMMA FaultShown == ASSUME OInv, WriteFault \/ NumaFault PROVE Shown'
<1> USE DEF OInv, WInv
<1>1. CASE WriteFault
  <2>1. ~ptl /\ tlb' = NoEntry /\ UNCHANGED <<pending, unsaved, err, orig, pc>>
    BY <1>1 DEF WriteFault, Begun, locals
  <2>2. pte'.dirty \/ ~pte'.present
    <3>1. pte' = Pte(TRUE, TRUE, FALSE, FALSE) \/ pte' = NoPte
      BY <1>1 DEF WriteFault
    <3>2. Pte(TRUE, TRUE, FALSE, FALSE).dirty /\ ~NoPte.present
      BY DEF Pte, NoPte
    <3> QED BY <3>1, <3>2
  <2>3. pc # "orig"
    BY <2>1 DEF Held, InLock
  <2> QED BY <2>1, <2>2, <2>3, NoFields DEF Shown
<1>2. CASE NumaFault
  <2>1. /\ pte.protnone /\ ~ptl
        /\ ("write" \in touched') <=> ("write" \in touched)
        /\ UNCHANGED <<tlb, pending, unsaved, err, orig, pc>>
    BY <1>2 DEF NumaFault, Begun, locals
  <2>2. pte.saved \in BOOLEAN /\ pte.dirty \in BOOLEAN /\ pte' = Pte(pte.saved, pte.dirty, FALSE, FALSE)
    BY <1>2 DEF NumaFault, Types, Ptes
  <2>3. pte'.dirty = pte.dirty /\ pte.present
    <3>1. pte.present
      BY <2>1 DEF Entries, Sane
    <3>2. Pte(pte.saved, pte.dirty, FALSE, FALSE).dirty = pte.dirty
      BY DEF Pte
    <3> QED BY <2>2, <3>1, <3>2
  <2>4. pc # "orig"
    BY <2>1 DEF Held, InLock
  <2> QED BY <2>1, <2>3, <2>4 DEF Shown
<1> QED BY <1>1, <1>2

LEMMA ChangeShown == ASSUME OInv, NEW change \in Changes, ChangePte(change) PROVE Shown'
<1> USE DEF OInv, WInv
<1>1. /\ pending = "none" /\ pte.present /\ ~ptl /\ pending' = change /\ pc # "orig"
      /\ unsaved' = (unsaved /\ change # "clean") /\ UNCHANGED <<tlb, touched, err, orig, pc>>
  BY DEF ChangePte, Reachable, locals, Held, InLock
<1>2. ASSUME change # "clean" PROVE pte'.dirty = pte.dirty
  <2>1. pte.write \in BOOLEAN /\ pte.dirty \in BOOLEAN
    BY DEF Types, Ptes
  <2>2. CASE change = "wrprotect"
    BY <2>2, WriteFields DEF ChangePte, Types
  <2>3. CASE change = "protnone"
    BY <2>1, <2>3, PteFields DEF ChangePte
  <2> QED BY <1>2, <2>2, <2>3, WriteProtectAssumption
<1>3. CASE change = "clean"
  BY <1>1, <1>3 DEF Shown
<1>4. CASE change # "clean"
  BY <1>1, <1>2, <1>4 DEF Shown
<1> QED BY <1>3, <1>4

LEMMA FlushedShown == ASSUME OInv, FlushChange \/ Fork PROVE Shown'
<1> USE DEF OInv, WInv
<1>1. CASE FlushChange
  <2>1. ~tlb'.write /\ pending' = "none" /\ UNCHANGED <<pte, unsaved, touched, err, orig, pc>>
    BY <1>1, NoFields DEF FlushChange, locals
  <2> QED BY <2>1 DEF Shown
<1>2. CASE Fork
  <2>1. ~tlb'.write /\ pc = "idle" /\ UNCHANGED <<pending, unsaved, touched, err, orig, pc>>
    BY <1>2, NoFields DEF Fork, locals
  <2>2. pte'.dirty = pte.dirty /\ pte'.present = pte.present
    BY <1>2, WriteFields DEF Fork, Types
  <2> QED BY <2>1, <2>2 DEF Shown
<1> QED BY <1>1, <1>2

LEMMA OStep == OInv /\ [Next]_vars => OInv'
<1> SUFFICES ASSUME OInv, [Next]_vars PROVE OInv'
  OBVIOUS
<1>1. WInv'
  BY WStep DEF OInv
<1>2. ASSUME UNCHANGED vars PROVE Shown'
  BY <1>2, QuietShown DEF vars, others, locals, Quiet, OInv
<1>3. ASSUME WriteProtectPage PROVE Shown'
  BY <1>3, QuietSteps, QuietShown, TakingShown, PuttingBackShown DEF WriteProtectPage, OInv
<1>4. ASSUME Others PROVE Shown'
  BY <1>4, QuietSteps, QuietShown, LoadShown, WriteShown, FaultShown, ChangeShown, FlushedShown
  DEF Others, OInv
<1>5. Shown'
  BY <1>2, <1>3, <1>4 DEF Next
<1> QED BY <1>1, <1>5 DEF OInv

(* After a success the caller can tell by *orig_pte that the page has been  *)
(* written since, through the entry or a copy of it, whoever else changed   *)
(* the entry meanwhile; but for what MADV_FREE gave up (1021).              *)
THEOREM OrigPteTells == Spec => []OrigPteShowsWrites
<1>1. OInv => OrigPteShowsWrites
  BY DEF OInv, Shown, Succeeded, OrigPteShowsWrites
<1> QED BY <1>1, OInitial, OStep, PTL DEF Spec

-----------------------------------------------------------------------------
(* DMA, as long as no sharer comes or goes during the call. *)

CInv == WInv /\ Counted

LEMMA CInitial == Init => CInv
BY WInitial DEF CInv, Init, Counted, Unread

(* The steps that neither move write_protect_page nor pin or unpin.         *)
Elsewhere ==
  /\ UNCHANGED <<pc, seen, err, swapcache, gup, gupPte>>
  /\ "fault" \in touched => "fault" \in touched'
  /\ sharers' = sharers \/ pc = "idle"

LEMMA ElsewhereCounted == ASSUME Counted, Elsewhere PROVE Counted'
BY DEF Counted, Elsewhere, InSwap

LEMMA ElsewhereSteps ==
  ASSUME \/ Load \/ Write \/ WriteFault \/ NumaFault \/ FlushChange \/ MapShadow \/ Fork
         \/ (ShareOrExit /\ SHARING = FALSE) \/ \E change \in Changes : ChangePte(change)
  PROVE  Elsewhere
<1> USE DEF Elsewhere, locals, Begun, Pins
<1>1. CASE Load \/ Write \/ MapShadow
  BY <1>1 DEF Load, Write, MapShadow
<1>2. CASE WriteFault \/ NumaFault
  BY <1>2 DEF WriteFault, NumaFault
<1>3. CASE FlushChange \/ Fork
  BY <1>3 DEF FlushChange, Fork
<1>4. CASE ShareOrExit /\ SHARING = FALSE
  BY <1>4 DEF ShareOrExit
<1>5. CASE \E change \in Changes : ChangePte(change)
  BY <1>5 DEF ChangePte
<1> QED BY <1>1, <1>2, <1>3, <1>4, <1>5

(* A pin is taken only where the entry is the writable one that was read:   *)
(* not while it is away, nor once it is protected.                          *)
LEMMA PinCounted ==
  ASSUME CInv, GupRead \/ GupReference \/ GupPin \/ GupBack \/ Unpin
  PROVE  Counted'
<1> USE DEF CInv, WInv
<1>1. UNCHANGED <<pte, sharers, touched, pc, seen, err, swapcache>>
  BY DEF GupRead, GupReference, GupPin, GupBack, Unpin, Gup, locals
<1>2. CASE GupRead
  <2>1. gup' = "read" /\ gupPte' = pte /\ pte.present /\ pte.write /\ gup = "none"
    BY <1>2 DEF GupRead, Gup, Reachable
  <2> QED BY <1>1, <2>1 DEF Counted, InSwap
<1>3. CASE GupReference
  BY <1>1, <1>3 DEF GupReference, Gup, Counted, InSwap
<1>4. CASE GupPin
  <2>1. gup = "referenced" /\ gup' = "pinned" /\ gupPte' = gupPte /\ pte = gupPte
    BY <1>4 DEF GupPin, Gup
  <2>2. pte.present /\ pte.write
    BY <2>1 DEF Counted
  <2>3. pc \notin InWindow /\ pc # "orig" /\ (err = "0" => "fault" \in touched)
    BY <2>2 DEF Entries, Protection, Readonly
  <2> QED BY <1>1, <2>1, <2>3 DEF Counted, InSwap, InWindow
<1>5. CASE GupBack \/ Unpin
  <2>1. gup' = "none" /\ (gup = "pinned" => seen.count \in Nat)
    BY <1>5 DEF GupBack, Unpin, Gup, Types
  <2>2. seen.count \in Nat /\ sharers \in Nat
    BY WriteProtectAssumption DEF Types
  <2> QED BY <1>1, <2>1, <2>2 DEF Counted, InSwap
<1> QED BY <1>2, <1>3, <1>4, <1>5

LEMMA ReadCounted ==
  ASSUME CInv, ReadCounter("map", Mapcount) \/ ReadCounter("count", PageCount)
  PROVE  Counted'
<1> USE DEF CInv, WInv
<1>1. /\ pc = "counts" /\ ~pte.present
      /\ seen \in [map : 0..SHARERS + 1, count : Nat] /\ sharers \in Nat
      /\ UNCHANGED <<gup, gupPte, sharers, touched, pc, err, swapcache>>
  BY WriteProtectAssumption DEF ReadCounter, Goto, others, Types, Entries, InWindow
<1>2. Mapcount = sharers + 1
  BY <1>1 DEF Mapcount
<1>3. PageCount \in Nat /\ PageCount >= sharers + 2 + InSwap + (IF gup = "pinned" THEN 1 ELSE 0)
  BY <1>1, <1>2 DEF PageCount, InSwap, Pinning
<1>4. err # "0"
  BY <1>1 DEF Protection
<1>5. CASE ReadCounter("map", Mapcount)
  <2>1. seen'.map = sharers + 1 /\ seen'.count = seen.count
    BY <1>1, <1>2, <1>5 DEF ReadCounter
  <2> QED BY <1>1, <1>4, <2>1 DEF Counted, InSwap
<1>6. CASE ReadCounter("count", PageCount)
  <2>1. seen'.count = PageCount /\ seen'.map = seen.map
    BY <1>1, <1>6 DEF ReadCounter
  <2> QED BY <1>1, <1>3, <1>4, <2>1 DEF Counted, InSwap
<1> QED BY <1>5, <1>6

(* Where the counters are compared: equal counters leave no room for a pin. *)
LEMMA CompareCounted == ASSUME CInv, Compare PROVE Counted'
<1> USE DEF CInv, WInv
<1>1. /\ pc = "counts" /\ seen.map # Unread /\ seen.count # Unread
      /\ pc' = (IF NobodyElse THEN "set" ELSE "unlock")
      /\ UNCHANGED <<gup, gupPte, sharers, touched, err, seen, swapcache>>
  BY DEF Compare, Goto, others
<1>2. seen.count \in Nat /\ sharers \in Nat
  BY WriteProtectAssumption DEF Types
<1>3. NobodyElse => gup # "pinned"
  BY <1>1, <1>2 DEF NobodyElse, Counted, InSwap
<1>4. err # "0"
  BY <1>1 DEF Protection
<1> QED BY <1>1, <1>3, <1>4 DEF Counted

LEMMA CallCounted ==
  ASSUME CInv,
         \/ Call \/ NoAddress \/ RangeStart \/ Walk \/ Look \/ Clear \/ Flush
         \/ SetPte \/ SetOrig \/ Unlock \/ RangeEnd
  PROVE  Counted'
<1> USE DEF CInv, WInv, Goto, others, locals, Begun, Counted
<1>1. CASE Call
  BY <1>1 DEF Call
<1>2. CASE NoAddress
  BY <1>2 DEF NoAddress
<1>3. CASE RangeStart
  BY <1>3 DEF RangeStart
<1>4. CASE Walk
  BY <1>4 DEF Walk
<1>5. CASE Look
  BY <1>5 DEF Look, SeenYet
<1>6. CASE Clear
  BY <1>6 DEF Clear
<1>7. CASE Flush
  BY <1>7 DEF Flush
<1>8. CASE SetPte
  BY <1>8 DEF SetPte, Protection
<1>9. CASE SetOrig
  BY <1>9 DEF SetOrig
<1>10. CASE Unlock
  BY <1>10 DEF Unlock
<1>11. CASE RangeEnd
  BY <1>11 DEF RangeEnd
<1> QED BY <1>1, <1>2, <1>3, <1>4, <1>5, <1>6, <1>7, <1>8, <1>9, <1>10, <1>11

LEMMA CStep == ASSUME SHARING = FALSE PROVE CInv /\ [Next]_vars => CInv'
<1> SUFFICES ASSUME CInv, [Next]_vars PROVE CInv'
  OBVIOUS
<1>1. WInv'
  BY WStep DEF CInv
<1>2. ASSUME UNCHANGED vars PROVE Counted'
  BY <1>2, ElsewhereCounted DEF vars, others, locals, Elsewhere, CInv
<1>3. ASSUME WriteProtectPage PROVE Counted'
  BY <1>3, ReadCounted, CompareCounted, CallCounted DEF WriteProtectPage
<1>4. ASSUME Others PROVE Counted'
  BY <1>4, ElsewhereSteps, ElsewhereCounted, PinCounted DEF Others, CInv
<1>5. Counted'
  BY <1>2, <1>3, <1>4 DEF Next
<1> QED BY <1>1, <1>5 DEF CInv

(* Once write_protect_page has found the two counters equal, no pin taken   *)
(* by get_user_pages_fast, before or during the call, writes the page by    *)
(* DMA until a fault: in whichever order the counters are read, with and    *)
(* without swap cache, for any number of sharers (1003-1004).               *)
THEOREM DmaIsExcluded == ASSUME SHARING = FALSE PROVE Spec => []DmaExcluded
<1>1. CInv => DmaExcluded
  BY DEF CInv, Counted, Succeeded, DmaExcluded
<1>2. CInv /\ [Next]_vars => CInv'
  BY CStep
<1> QED BY <1>1, <1>2, CInitial, PTL DEF Spec
=============================================================================
