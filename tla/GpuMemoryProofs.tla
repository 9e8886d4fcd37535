--------------------------- MODULE GpuMemoryProofs ---------------------------
(***************************************************************************)
(* Proofs about GpuMemory: the driver's stash follows VidMm, the TLBs      *)
(* follow the tables, and pages that were taken back are out of reach, for *)
(* every set of allocations and BOs and every number of grants.  At the    *)
(* end, about Present: what is on the screen, and which frame.             *)
(***************************************************************************)
EXTENDS GpuMemory, Sequences, TLAPS

\* A grant is held by an allocation, and kept by its locks.
Held(g) == \E a \in Allocs : vid[a].grant = g
Kept(g) == \E a \in Allocs : vid[a].grant = g /\ vid[a].locked

\* What VidMm has: every allocation its own pages at its own place.
Residency ==
    /\ \A a \in Allocs :
        /\ vid[a].grant <= given /\ vid[a].grant \notin taken
        /\ vid[a].grant = 0 <=> vid[a].off = 0
        /\ vid[a].grant # 0 => Live(a)
        /\ vid[a].locked => vid[a].grant # 0 /\ paging.ka # a
    /\ \A a, b \in Allocs : a # b /\ vid[a].grant # 0 =>
          vid[a].grant # vid[b].grant /\ vid[a].off # vid[b].off

\* The operation VidMm is at fits what it has.
PagingFits ==
    /\ paging.op = "none" => paging = NoOp
    /\ paging.op \notin {"map", "unmap"} => paging.ka = Nothing
    /\ paging.op \in {"map", "unmap"} =>
          paging.ka \in Allocs /\ Live(paging.ka) /\ paging.at \in Addrs
    /\ paging.op = "map" =>
          /\ vid[paging.ka].grant = 0 /\ Free(paging.at) /\ ~Held(paging.grant)
          /\ paging.grant \in 1..given /\ paging.grant \notin taken
    /\ paging.op = "unmap" =>
          /\ paging.grant = vid[paging.ka].grant /\ paging.at = vid[paging.ka].off
          /\ paging.grant # 0 /\ ~dirty
          /\ \A x \in Addrs : pt["context"][x] # paging.grant
    /\ paging.op = "update" => paging.at \in Addrs /\ (paging.grant = 0 \/ Held(paging.grant))

\* What the driver remembers of it, also while an operation is under way.
Stash ==
    \A a \in Allocs :
        /\ ~bound => ka[a].mdl = 0
        /\ paging.ka = a => ka[a].mdl \in {0, paging.grant}
        /\ paging.ka # a => ka[a].mdl = IF bound THEN vid[a].grant ELSE 0
        /\ paging.ka # a /\ ka[a].mdl # 0 =>
              ka[a].va = vid[a].off /\ pt["aperture"][vid[a].off] = ka[a].mdl

\* The aperture and the context translate to what an allocation holds.
ApertureHeld ==
    /\ ~bound => pt["aperture"] = None
    /\ \A x \in Addrs : pt["aperture"][x] # 0 =>
          \/ \E a \in Allocs : vid[a].off = x /\ vid[a].grant = pt["aperture"][x]
          \/ paging.op = "map" /\ paging.at = x /\ paging.grant = pt["aperture"][x]
ContextHeld ==
    \A x \in Addrs :
        /\ pt["context"][x] = 0 \/ Held(pt["context"][x])
        /\ "context" \in stuck \/ tlb["context"][x] = 0 \/ Held(tlb["context"][x])

\* A living UMD keeps what its BOs name and what it was told is mapped; its VM
\* translates to that, or to what a failed VmMap left.
Told(x) == {0, umd.map[x]} \cup torn.grants
UmdKeeps ==
    /\ umd.at = "alive" =>
        /\ \A b \in Bos : bo[b] = 0 \/ Kept(bo[b])
        /\ \A x \in Addrs :
            /\ umd.map[x] = 0 \/ Kept(umd.map[x])
            /\ pt["vm"][x] \in Told(x)
            /\ "vm" \in stuck \/ tlb["vm"][x] \in Told(x)
    /\ umd.at = "gone" =>
        /\ \A b \in Bos : bo[b] = 0
        /\ \A x \in Addrs : pt["vm"][x] = 0 /\ ("vm" \in stuck \/ tlb["vm"][x] = 0)

MemInv ==
    /\ TypeOK /\ Residency /\ PagingFits /\ Stash
    /\ ApertureHeld /\ ContextHeld /\ UmdKeeps /\ TlbFollowsTables

LEMMA TypeFacts ==
  ASSUME MemInv
  PROVE  /\ pt \in [Spaces -> [Addrs -> 0..MaxGrants]]
         /\ tlb \in [Spaces -> [Addrs -> 0..MaxGrants]]
         /\ bound \in BOOLEAN /\ dirty \in BOOLEAN
         /\ {"aperture", "vm", "context"} = Spaces
         /\ Addrs = {1, 2} /\ MaxGrants \in Nat /\ 0 \notin Allocs
         /\ Ranges \cup ContextVas \subseteq Addrs
  BY MemAssumption DEF MemInv, TypeOK, Addrs, Spaces

(* A GPU access: what it caches is what the table says.                     *)
LEMMA TranslateInv ==
  ASSUME MemInv, NEW s \in Spaces, NEW x \in Addrs, Translate(s, x)
  PROVE  MemInv'
<1>1. TypeOK'
  BY TypeFacts DEF MemInv, TypeOK, Translate, pages, Nothing
<1>2. Residency'
  BY TypeFacts DEF MemInv, Residency, Live, Translate, pages, Nothing
<1>3. PagingFits'
  BY TypeFacts DEF MemInv, PagingFits, Live, Free, Held, NoOp, Nothing,
    Translate, pages
<1>4. Stash'
  BY TypeFacts DEF MemInv, Stash, Translate, pages, Nothing
<1>5. ApertureHeld'
  BY TypeFacts DEF MemInv, ApertureHeld, None, Translate, pages, Nothing
<1>6. ContextHeld'
  BY TypeFacts DEF MemInv, ContextHeld, Held, Translate, pages, Nothing
<1>7. UmdKeeps'
  BY TypeFacts DEF MemInv, UmdKeeps, Kept, Told, Translate, pages, Nothing
<1>8. TlbFollowsTables'
  BY TypeFacts DEF MemInv, TlbFollowsTables, Nothing, Translate, pages
<1>9. QED
  BY <1>1, <1>2, <1>3, <1>4, <1>5, <1>6, <1>7, <1>8 DEF MemInv

LEMMA StickInv ==
  ASSUME MemInv, NEW s \in Spaces, Stick(s)
  PROVE  MemInv'
<1>1. TypeOK'
  BY TypeFacts DEF MemInv, TypeOK, Stick, pages, hw
<1>2. Residency'
  BY TypeFacts DEF MemInv, Residency, Live, Stick, pages, hw
<1>3. PagingFits'
  BY TypeFacts DEF MemInv, PagingFits, Live, Free, Held, NoOp, Nothing, Stick,
    pages, hw
<1>4. Stash'
  BY TypeFacts DEF MemInv, Stash, Stick, pages, hw
<1>5. ApertureHeld'
  BY TypeFacts DEF MemInv, ApertureHeld, None, Stick, pages, hw
<1>6. ContextHeld'
  BY TypeFacts DEF MemInv, ContextHeld, Held, Stick, pages, hw
<1>7. UmdKeeps'
  BY TypeFacts DEF MemInv, UmdKeeps, Kept, Told, Stick, pages, hw
<1>8. TlbFollowsTables'
  BY TypeFacts DEF MemInv, TlbFollowsTables, Nothing, Stick, pages, hw
<1>9. QED
  BY <1>1, <1>2, <1>3, <1>4, <1>5, <1>6, <1>7, <1>8 DEF MemInv

LEMMA CreateAllocationInv ==
  ASSUME MemInv, CreateAllocation
  PROVE  MemInv'
<1>1. TypeOK'
  BY TypeFacts DEF MemInv, TypeOK, CreateAllocation, pages, hw, NewKa
<1>2. Residency'
  BY TypeFacts DEF MemInv, Residency, Live, PagingFits, Nothing,
    CreateAllocation, pages, hw, NewKa
<1>3. PagingFits'
  BY TypeFacts DEF MemInv, PagingFits, Live, Free, Held, NoOp, Nothing, NewKa,
    CreateAllocation, pages, hw
<1>4. Stash'
  BY TypeFacts DEF MemInv, Stash, Residency, PagingFits, Live, NoOp, Nothing,
    CreateAllocation, pages, hw, NewKa
<1>5. ApertureHeld'
  BY TypeFacts DEF MemInv, ApertureHeld, None, CreateAllocation, pages, hw,
    NewKa
<1>6. ContextHeld'
  BY TypeFacts DEF MemInv, ContextHeld, Held, CreateAllocation, pages, hw,
    NewKa
<1>7. UmdKeeps'
  BY TypeFacts DEF MemInv, UmdKeeps, Kept, Told, CreateAllocation, pages, hw,
    NewKa
<1>8. TlbFollowsTables'
  BY TypeFacts DEF MemInv, TlbFollowsTables, Nothing, CreateAllocation, pages,
    hw, NewKa
<1>9. QED
  BY <1>1, <1>2, <1>3, <1>4, <1>5, <1>6, <1>7, <1>8 DEF MemInv

LEMMA DestroyAllocationInv ==
  ASSUME MemInv, NEW a \in Allocs, DestroyAllocation(a)
  PROVE  MemInv'
<1>1. TypeOK'
  <2>1. ka[a] \in [live: {"no", "live", "freed"}, mdl: 0..MaxGrants, va: 0..2]
    BY DEF MemInv, TypeOK
  <2>2. [ka[a] EXCEPT !.live = "freed"]
          \in [live: {"no", "live", "freed"}, mdl: 0..MaxGrants, va: 0..2]
    BY <2>1
  <2>3. QED
    BY <2>2 DEF MemInv, TypeOK, DestroyAllocation, pages, hw
<1>2. Residency'
  BY TypeFacts DEF MemInv, Residency, Live, DestroyAllocation, pages, hw
<1>3. PagingFits'
  BY TypeFacts DEF MemInv, PagingFits, Live, Free, Held, NoOp, Nothing,
    DestroyAllocation, pages, hw
<1>4. Stash'
  BY TypeFacts DEF MemInv, Stash, DestroyAllocation, pages, hw, Live
<1>5. ApertureHeld'
  BY TypeFacts DEF MemInv, ApertureHeld, None, DestroyAllocation, pages, hw,
    Live
<1>6. ContextHeld'
  BY TypeFacts DEF MemInv, ContextHeld, Held, DestroyAllocation, pages, hw,
    Live
<1>7. UmdKeeps'
  BY TypeFacts DEF MemInv, UmdKeeps, Kept, Told, DestroyAllocation, pages, hw,
    Live
<1>8. TlbFollowsTables'
  BY TypeFacts DEF MemInv, TlbFollowsTables, Nothing, DestroyAllocation,
    pages, hw, Live
<1>9. QED
  BY <1>1, <1>2, <1>3, <1>4, <1>5, <1>6, <1>7, <1>8 DEF MemInv

(* VidMm picks pages that are nobody's.                                     *)
LEMMA MakeResidentInv ==
  ASSUME MemInv, NEW a \in Allocs, MakeResident(a)
  PROVE  MemInv'
<1>1. TypeOK'
  BY TypeFacts DEF MemInv, TypeOK, MakeResident, pages, hw, Page, Free, NoOp,
    Nothing
<1>2. Residency'
  BY TypeFacts DEF MemInv, Residency, Live, TypeOK, MakeResident, pages, hw,
    Page, Free, NoOp, Nothing
<1>3. PagingFits'
  BY TypeFacts DEF MemInv, PagingFits, Live, Free, Held, NoOp, Nothing,
    Residency, TypeOK, MakeResident, pages, hw, Page
<1>4. Stash'
  BY TypeFacts DEF MemInv, Stash, Residency, MakeResident, pages, hw, Page,
    Free, NoOp, Nothing
<1>5. ApertureHeld'
  BY TypeFacts DEF MemInv, ApertureHeld, None, MakeResident, pages, hw, Page,
    Free, NoOp, Nothing
<1>6. ContextHeld'
  BY TypeFacts DEF MemInv, ContextHeld, Held, MakeResident, pages, hw, Page,
    Free, NoOp, Nothing
<1>7. UmdKeeps'
  BY TypeFacts DEF MemInv, UmdKeeps, Kept, Told, MakeResident, pages, hw,
    Page, Free, NoOp, Nothing
<1>8. TlbFollowsTables'
  BY TypeFacts DEF MemInv, TlbFollowsTables, Nothing, MakeResident, pages, hw,
    Page, Free, NoOp
<1>9. QED
  BY <1>1, <1>2, <1>3, <1>4, <1>5, <1>6, <1>7, <1>8 DEF MemInv

LEMMA EvictInv ==
  ASSUME MemInv, NEW a \in Allocs, Evict(a)
  PROVE  MemInv'
<1>1. TypeOK'
  BY TypeFacts DEF MemInv, TypeOK, Evict, pages, hw, Page, NoOp, Nothing
<1>2. Residency'
  BY TypeFacts DEF MemInv, Residency, Live, Evict, pages, hw, Page, NoOp,
    Nothing
<1>3. PagingFits'
  BY TypeFacts DEF MemInv, PagingFits, Live, Free, Held, NoOp, Nothing,
    Residency, TypeOK, Evict, pages, hw, Page
<1>4. Stash'
  BY TypeFacts DEF MemInv, Stash, Residency, Evict, pages, hw, Page, NoOp,
    Nothing
<1>5. ApertureHeld'
  BY TypeFacts DEF MemInv, ApertureHeld, None, Evict, pages, hw, Page, NoOp,
    Nothing
<1>6. ContextHeld'
  BY TypeFacts DEF MemInv, ContextHeld, Held, Evict, pages, hw, Page, NoOp,
    Nothing
<1>7. UmdKeeps'
  BY TypeFacts DEF MemInv, UmdKeeps, Kept, Told, Evict, pages, hw, Page, NoOp,
    Nothing
<1>8. TlbFollowsTables'
  BY TypeFacts DEF MemInv, TlbFollowsTables, Nothing, Evict, pages, hw, Page,
    NoOp
<1>9. QED
  BY <1>1, <1>2, <1>3, <1>4, <1>5, <1>6, <1>7, <1>8 DEF MemInv

LEMMA UpdatePteInv ==
  ASSUME MemInv, NEW x \in ContextVas, UpdatePte(x)
  PROVE  MemInv'
<1>1. TypeOK'
  BY TypeFacts DEF MemInv, TypeOK, UpdatePte, pages, hw, Page, NoOp, Nothing
<1>2. Residency'
  BY TypeFacts DEF MemInv, Residency, Live, UpdatePte, pages, hw, Page, NoOp,
    Nothing
<1>3. PagingFits'
  BY TypeFacts DEF MemInv, PagingFits, Live, Free, Held, NoOp, Nothing,
    UpdatePte, pages, hw, Page
<1>4. Stash'
  BY TypeFacts DEF MemInv, Stash, UpdatePte, pages, hw, Page, NoOp, Nothing
<1>5. ApertureHeld'
  BY TypeFacts DEF MemInv, ApertureHeld, None, UpdatePte, pages, hw, Page,
    NoOp, Nothing
<1>6. ContextHeld'
  BY TypeFacts DEF MemInv, ContextHeld, Held, UpdatePte, pages, hw, Page,
    NoOp, Nothing
<1>7. UmdKeeps'
  BY TypeFacts DEF MemInv, UmdKeeps, Kept, Told, UpdatePte, pages, hw, Page,
    NoOp, Nothing
<1>8. TlbFollowsTables'
  BY TypeFacts DEF MemInv, TlbFollowsTables, Nothing, UpdatePte, pages, hw,
    Page, NoOp
<1>9. QED
  BY <1>1, <1>2, <1>3, <1>4, <1>5, <1>6, <1>7, <1>8 DEF MemInv

LEMMA FlushInv ==
  ASSUME MemInv, Flush
  PROVE  MemInv'
<1>1. TypeOK'
  BY TypeFacts DEF MemInv, TypeOK, Flush, pages, hw, Page, NoOp, Nothing
<1>2. Residency'
  BY TypeFacts DEF MemInv, Residency, Live, Flush, pages, hw, Page, NoOp,
    Nothing
<1>3. PagingFits'
  BY TypeFacts DEF MemInv, PagingFits, Live, Free, Held, NoOp, Nothing, Flush,
    pages, hw, Page
<1>4. Stash'
  BY TypeFacts DEF MemInv, Stash, Flush, pages, hw, Page, NoOp, Nothing
<1>5. ApertureHeld'
  BY TypeFacts DEF MemInv, ApertureHeld, None, Flush, pages, hw, Page, NoOp,
    Nothing
<1>6. ContextHeld'
  BY TypeFacts DEF MemInv, ContextHeld, Held, Flush, pages, hw, Page, NoOp,
    Nothing
<1>7. UmdKeeps'
  BY TypeFacts DEF MemInv, UmdKeeps, Kept, Told, Flush, pages, hw, Page, NoOp,
    Nothing
<1>8. TlbFollowsTables'
  BY TypeFacts DEF MemInv, TlbFollowsTables, Nothing, Flush, pages, hw, Page,
    NoOp
<1>9. QED
  BY <1>1, <1>2, <1>3, <1>4, <1>5, <1>6, <1>7, <1>8 DEF MemInv

LEMMA LockInv ==
  ASSUME MemInv, NEW a \in Allocs, Lock(a)
  PROVE  MemInv'
<1>1. TypeOK'
  <2>1. vid' \in [Allocs -> [grant: 0..MaxGrants, off: 0..2, locked: BOOLEAN]]
    BY DEF MemInv, TypeOK, Lock
  <2>2. QED
    BY <2>1 DEF MemInv, TypeOK, Lock, pages, hw
<1>2. Residency'
  BY TypeFacts DEF MemInv, Residency, Live, Lock, pages, hw
<1>3. PagingFits'
  BY TypeFacts DEF MemInv, PagingFits, Live, Free, Held, NoOp, Nothing, Lock,
    pages, hw
<1>4. Stash'
  BY TypeFacts DEF MemInv, Stash, Lock, pages, hw
<1>5. ApertureHeld'
  BY TypeFacts DEF MemInv, ApertureHeld, None, Lock, pages, hw
<1>6. ContextHeld'
  BY TypeFacts DEF MemInv, ContextHeld, Held, Lock, pages, hw
<1>7. UmdKeeps'
  BY TypeFacts DEF MemInv, UmdKeeps, Kept, Told, Lock, pages, hw
<1>8. TlbFollowsTables'
  BY TypeFacts DEF MemInv, TlbFollowsTables, Nothing, Lock, pages, hw
<1>9. QED
  BY <1>1, <1>2, <1>3, <1>4, <1>5, <1>6, <1>7, <1>8 DEF MemInv

LEMMA UnlockInv ==
  ASSUME MemInv, NEW a \in Allocs, Unlock(a)
  PROVE  MemInv'
<1>1. TypeOK'
  <2>1. vid' \in [Allocs -> [grant: 0..MaxGrants, off: 0..2, locked: BOOLEAN]]
    BY DEF MemInv, TypeOK, Unlock
  <2>2. QED
    BY <2>1 DEF MemInv, TypeOK, Unlock, pages, hw
<1>2. Residency'
  BY TypeFacts DEF MemInv, Residency, Live, Unlock, pages, hw
<1>3. PagingFits'
  BY TypeFacts DEF MemInv, PagingFits, Live, Free, Held, NoOp, Nothing,
    Unlock, pages, hw
<1>4. Stash'
  BY TypeFacts DEF MemInv, Stash, Unlock, pages, hw
<1>5. ApertureHeld'
  BY TypeFacts DEF MemInv, ApertureHeld, None, Unlock, pages, hw
<1>6. ContextHeld'
  BY TypeFacts DEF MemInv, ContextHeld, Held, Unlock, pages, hw
<1>7. UmdKeeps'
  <2>1. /\ \A d \in Allocs \ {a} : vid'[d] = vid[d]
        /\ \A b \in Bos : bo[b] # vid[a].grant
        /\ \A x \in Addrs : umd.map[x] # vid[a].grant
    BY DEF MemInv, TypeOK, Unlock
  <2>2. /\ \A b \in Bos : Kept(bo[b]) => Kept(bo[b])'
        /\ \A x \in Addrs : Kept(umd.map[x]) => Kept(umd.map[x])'
    BY <2>1 DEF Kept, Unlock
  <2>3. QED
    BY <2>2 DEF MemInv, UmdKeeps, Told, Unlock, pages, hw
<1>8. TlbFollowsTables'
  BY TypeFacts DEF MemInv, TlbFollowsTables, Nothing, Unlock, pages, hw
<1>9. QED
  BY <1>1, <1>2, <1>3, <1>4, <1>5, <1>6, <1>7, <1>8 DEF MemInv

LEMMA BoFromAllocationInv ==
  ASSUME MemInv, NEW a \in Allocs, NEW b \in Bos, BoFromAllocation(a, b)
  PROVE  MemInv'
<1>1. TypeOK'
  BY TypeFacts DEF MemInv, TypeOK, BoFromAllocation, pages, hw
<1>2. Residency'
  BY TypeFacts DEF MemInv, Residency, Live, BoFromAllocation, pages, hw
<1>3. PagingFits'
  BY TypeFacts DEF MemInv, PagingFits, Live, Free, Held, NoOp, Nothing,
    BoFromAllocation, pages, hw
<1>4. Stash'
  BY TypeFacts DEF MemInv, Stash, BoFromAllocation, pages, hw
<1>5. ApertureHeld'
  BY TypeFacts DEF MemInv, ApertureHeld, None, BoFromAllocation, pages, hw
<1>6. ContextHeld'
  BY TypeFacts DEF MemInv, ContextHeld, Held, BoFromAllocation, pages, hw
<1>7. UmdKeeps'
  BY TypeFacts DEF MemInv, UmdKeeps, Kept, Told, Residency, Stash,
    BoFromAllocation, pages, hw
<1>8. TlbFollowsTables'
  BY TypeFacts DEF MemInv, TlbFollowsTables, Nothing, BoFromAllocation, pages,
    hw
<1>9. QED
  BY <1>1, <1>2, <1>3, <1>4, <1>5, <1>6, <1>7, <1>8 DEF MemInv

LEMMA BoDestroyInv ==
  ASSUME MemInv, NEW b \in Bos, BoDestroy(b)
  PROVE  MemInv'
<1>1. TypeOK'
  BY TypeFacts DEF MemInv, TypeOK, BoDestroy, pages, hw, Nothing
<1>2. Residency'
  BY TypeFacts DEF MemInv, Residency, Live, BoDestroy, pages, hw, Nothing
<1>3. PagingFits'
  BY TypeFacts DEF MemInv, PagingFits, Live, Free, Held, NoOp, Nothing,
    BoDestroy, pages, hw
<1>4. Stash'
  BY TypeFacts DEF MemInv, Stash, BoDestroy, pages, hw, Nothing
<1>5. ApertureHeld'
  BY TypeFacts DEF MemInv, ApertureHeld, None, BoDestroy, pages, hw, Nothing
<1>6. ContextHeld'
  BY TypeFacts DEF MemInv, ContextHeld, Held, BoDestroy, pages, hw, Nothing
<1>7. UmdKeeps'
  BY TypeFacts DEF MemInv, UmdKeeps, Kept, Told, BoDestroy, pages, hw, Nothing
<1>8. TlbFollowsTables'
  BY TypeFacts DEF MemInv, TlbFollowsTables, Nothing, BoDestroy, pages, hw
<1>9. QED
  BY <1>1, <1>2, <1>3, <1>4, <1>5, <1>6, <1>7, <1>8 DEF MemInv

LEMMA ProcessDiesInv ==
  ASSUME MemInv, ProcessDies
  PROVE  MemInv'
<1>0. /\ vid' \in [Allocs -> [grant: 0..MaxGrants, off: 0..2, locked: BOOLEAN]]
      /\ \A a \in Allocs : vid'[a].grant = vid[a].grant /\ vid'[a].off = vid[a].off
                           /\ ~vid'[a].locked
      /\ UNCHANGED <<ka, paging, given, taken, bound, dirty, pt, tlb, torn, stuck, bo, leaf>>
      /\ umd' \in [at: {"alive", "dead", "gone"}, map: [Addrs -> 0..MaxGrants]]
      /\ umd'.at = "dead"
  BY DEF MemInv, TypeOK, ProcessDies, pages, hw
<1>1. TypeOK'
  BY <1>0 DEF MemInv, TypeOK
<1>2. Residency'
  BY <1>0 DEF MemInv, Residency, Live
<1>3. PagingFits'
  BY <1>0 DEF MemInv, PagingFits, Live, Free, Held, NoOp, Nothing
<1>4. Stash'
  BY <1>0 DEF MemInv, Stash
<1>5. ApertureHeld'
  BY <1>0 DEF MemInv, ApertureHeld, None
<1>6. ContextHeld'
  BY <1>0 DEF MemInv, ContextHeld, Held
<1>7. UmdKeeps'
  BY <1>0 DEF MemInv, UmdKeeps, Kept, Told
<1>8. TlbFollowsTables'
  BY <1>0 DEF MemInv, TlbFollowsTables, Nothing
<1>9. QED
  BY <1>1, <1>2, <1>3, <1>4, <1>5, <1>6, <1>7, <1>8 DEF MemInv

LEMMA DeviceRundownInv ==
  ASSUME MemInv, DeviceRundown
  PROVE  MemInv'
<1>1. TypeOK'
  <2>1. umd' \in [at: {"alive", "dead", "gone"}, map: [Addrs -> 0..MaxGrants]]
    BY TypeFacts DEF DeviceRundown, None, Nothing
  <2>2. /\ pt' \in [Spaces -> [Addrs -> 0..MaxGrants]]
        /\ tlb' \in [Spaces -> [Addrs -> 0..MaxGrants]]
    BY TypeFacts DEF DeviceRundown, Written, AsFlushMem, None, Nothing
  <2>3. torn' \in [addrs: SUBSET Addrs, grants: SUBSET Grants]
    BY DEF MemInv, TypeOK, DeviceRundown
  <2>4. /\ bo' \in [Bos -> 0..MaxGrants] /\ leaf' \subseteq Addrs
    BY TypeFacts DEF DeviceRundown, Nothing
  <2>5. QED
    BY <2>1, <2>2, <2>3, <2>4 DEF MemInv, TypeOK, DeviceRundown, pages
<1>2. Residency'
  BY TypeFacts DEF MemInv, Residency, Live, DeviceRundown, pages, AsFlushMem,
    Written, None, Nothing
<1>3. PagingFits'
  BY TypeFacts DEF MemInv, PagingFits, Live, Free, Held, NoOp, Nothing,
    DeviceRundown, pages, AsFlushMem, Written, None
<1>4. Stash'
  BY TypeFacts DEF MemInv, Stash, DeviceRundown, pages, AsFlushMem, Written,
    None, Nothing
<1>5. ApertureHeld'
  BY TypeFacts DEF MemInv, ApertureHeld, None, DeviceRundown, pages,
    AsFlushMem, Written, Nothing
<1>6. ContextHeld'
  BY TypeFacts DEF MemInv, ContextHeld, Held, DeviceRundown, pages,
    AsFlushMem, Written, None, Nothing
<1>7. UmdKeeps'
  BY TypeFacts DEF MemInv, UmdKeeps, Kept, Told, DeviceRundown, pages,
    AsFlushMem, Written, None, Nothing
<1>8. TlbFollowsTables'
  BY TypeFacts DEF MemInv, TlbFollowsTables, Nothing, DeviceRundown, pages,
    AsFlushMem, Written, None
<1>9. QED
  BY <1>1, <1>2, <1>3, <1>4, <1>5, <1>6, <1>7, <1>8 DEF MemInv

-----------------------------------------------------------------------------
(* The paging operations. *)

(* FLUSH_MEM empties the AS it is given, or nothing.                         *)
LEMMA FlushFacts ==
  ASSUME MemInv, NEW s \in Spaces
  PROVE  /\ AsFlushMem(s) \in [Spaces -> [Addrs -> 0..MaxGrants]]
         /\ \A r \in Spaces \ {s} : AsFlushMem(s)[r] = tlb[r]
         /\ \A x \in Addrs : AsFlushMem(s)[s][x] \in {0, tlb[s][x]}
         /\ s \notin stuck => \A x \in Addrs : AsFlushMem(s)[s][x] = 0
  BY TypeFacts DEF AsFlushMem, None, Nothing

(* SetPtes_ writes one entry of the aperture, and flushes it.                *)
LEMMA SetPtesFacts ==
  ASSUME MemInv, NEW off \in Addrs, NEW g \in 0..MaxGrants, SetPtes(off, g)
  PROVE  /\ pt' \in [Spaces -> [Addrs -> 0..MaxGrants]]
         /\ tlb' \in [Spaces -> [Addrs -> 0..MaxGrants]]
         /\ pt'["vm"] = pt["vm"] /\ pt'["context"] = pt["context"]
         /\ tlb'["vm"] = tlb["vm"] /\ tlb'["context"] = tlb["context"]
         /\ \A x \in Addrs : pt'["aperture"][x] = IF bound /\ x = off THEN g ELSE pt["aperture"][x]
         /\ ~bound => pt'["aperture"] = pt["aperture"]
         /\ \A x \in Addrs : "aperture" \in stuck \/ tlb'["aperture"][x] \in {0, pt'["aperture"][x]}
<1>1. /\ pt \in [Spaces -> [Addrs -> 0..MaxGrants]] /\ tlb \in [Spaces -> [Addrs -> 0..MaxGrants]]
      /\ "aperture" \in Spaces /\ "vm" \in Spaces /\ "context" \in Spaces
      /\ \A x \in Addrs : "aperture" \in stuck \/ tlb["aperture"][x] \in {0, pt["aperture"][x]}
  BY TypeFacts DEF MemInv, TlbFollowsTables, Nothing
<1>2. CASE bound
  <2>1. pt' = [pt EXCEPT !["aperture"][off] = g] /\ tlb' = AsFlushMem("aperture")
    BY <1>2 DEF SetPtes
  <2>2. /\ pt' \in [Spaces -> [Addrs -> 0..MaxGrants]]
        /\ pt'["vm"] = pt["vm"] /\ pt'["context"] = pt["context"]
        /\ \A x \in Addrs : pt'["aperture"][x] = IF x = off THEN g ELSE pt["aperture"][x]
    BY <1>1, <2>1
  <2>3. /\ tlb' \in [Spaces -> [Addrs -> 0..MaxGrants]]
        /\ tlb'["vm"] = tlb["vm"] /\ tlb'["context"] = tlb["context"]
        /\ \A x \in Addrs : "aperture" \in stuck \/ tlb'["aperture"][x] = 0
    BY <1>1, <2>1, FlushFacts
  <2>4. QED
    BY <1>2, <2>2, <2>3
<1>3. CASE ~bound
  BY <1>1, <1>3 DEF SetPtes
<1>4. QED
  BY <1>2, <1>3, TypeFacts

(* What a paging operation leaves alone is the UMD's.                        *)
LEMMA UmdUndisturbed ==
  ASSUME MemInv, UNCHANGED <<umd, bo, stuck>>, torn'.grants = torn.grants,
         \A a \in Allocs : vid[a].locked => vid'[a] = vid[a],
         \A x \in Addrs : pt'["vm"][x] = pt["vm"][x] /\ tlb'["vm"][x] \in {0, tlb["vm"][x]}
  PROVE  UmdKeeps'
<1>1. /\ \A b \in Bos : Kept(bo[b]) => Kept(bo[b])'
      /\ \A x \in Addrs : Kept(umd.map[x]) => Kept(umd.map[x])'
  BY DEF Kept
<1>2. QED
  BY <1>1 DEF MemInv, UmdKeeps, Told

LEMMA BuildFacts ==
  ASSUME MemInv, BuildPagingBuffer
  PROVE  /\ UNCHANGED <<given, bound, leaf, stuck, bo, umd>>
         /\ torn'.grants = torn.grants
         /\ torn' \in [addrs: SUBSET Addrs, grants: SUBSET Grants]
         /\ paging.op # "flush" => torn' = torn
  BY DEF MemInv, TypeOK, BuildPagingBuffer

LEMMA MapApertureSegmentInv ==
  ASSUME MemInv, BuildPagingBuffer, MapApertureSegment
  PROVE  MemInv'
<1>1. PICK a \in Allocs, g \in 1..given, o \in Addrs :
        a = paging.ka /\ g = paging.grant /\ o = paging.at
  BY DEF MemInv, PagingFits, MapApertureSegment
<1>2. /\ paging.op = "map" /\ Live(a) /\ ~Held(g) /\ Free(o) /\ g \notin taken
      /\ vid[a].grant = 0 /\ vid[a].off = 0 /\ ~vid[a].locked
      /\ g \in 0..MaxGrants /\ g # 0 /\ given \in 0..MaxGrants
  BY <1>1, TypeFacts DEF MemInv, TypeOK, PagingFits, Residency, MapApertureSegment
<1>3. /\ pt' \in [Spaces -> [Addrs -> 0..MaxGrants]]
      /\ tlb' \in [Spaces -> [Addrs -> 0..MaxGrants]]
      /\ pt'["vm"] = pt["vm"] /\ pt'["context"] = pt["context"]
      /\ tlb'["vm"] = tlb["vm"] /\ tlb'["context"] = tlb["context"]
      /\ \A x \in Addrs : pt'["aperture"][x] = IF bound /\ x = o THEN g ELSE pt["aperture"][x]
      /\ ~bound => pt'["aperture"] = pt["aperture"]
      /\ \A x \in Addrs : "aperture" \in stuck \/ tlb'["aperture"][x] \in {0, pt'["aperture"][x]}
  BY <1>1, <1>2, SetPtesFacts DEF MapApertureSegment
<1>4. /\ ka' \in [Allocs -> [live: {"no", "live", "freed"}, mdl: 0..MaxGrants, va: 0..2]]
      /\ \A d \in Allocs \ {a} : ka'[d] = ka[d]
      /\ ka'[a].live = ka[a].live
      /\ ka'[a].mdl = IF bound THEN g ELSE 0
      /\ bound => ka'[a].va = o
  <2>1. /\ ka \in [Allocs -> [live: {"no", "live", "freed"}, mdl: 0..MaxGrants, va: 0..2]]
        /\ ~bound => ka[a].mdl = 0
        /\ ka' = IF bound THEN [ka EXCEPT ![a].mdl = g, ![a].va = o] ELSE ka
    BY <1>1 DEF MemInv, TypeOK, Stash, MapApertureSegment
  <2>2. CASE bound
    <3>1. /\ ka[a] \in [live: {"no", "live", "freed"}, mdl: 0..MaxGrants, va: 0..2]
          /\ o \in 0..2
      BY <2>1, TypeFacts
    <3>2. [ka[a] EXCEPT !.mdl = g, !.va = o]
            \in [live: {"no", "live", "freed"}, mdl: 0..MaxGrants, va: 0..2]
      BY <1>2, <3>1
    <3>3. ka' = [ka EXCEPT ![a] = [ka[a] EXCEPT !.mdl = g, !.va = o]]
      BY <2>1, <2>2
    <3>4. QED
      BY <2>1, <2>2, <3>2, <3>3
  <2>3. CASE ~bound
    BY <2>1, <2>3
  <2>4. QED
    BY <2>2, <2>3, TypeFacts
<1>5. /\ UNCHANGED <<given, bound, leaf, stuck, bo, umd, torn>>
  BY <1>2, BuildFacts
<1>6. CASE Sanitized
  <2>1. /\ vid' \in [Allocs -> [grant: 0..MaxGrants, off: 0..2, locked: BOOLEAN]]
        /\ \A d \in Allocs \ {a} : vid'[d] = vid[d]
        /\ vid'[a].grant = g /\ vid'[a].off = o /\ ~vid'[a].locked
    BY <1>1, <1>2, <1>6, TypeFacts DEF MemInv, TypeOK, Sanitized
  <2>2. /\ taken' = taken /\ dirty' = dirty /\ paging' = NoOp
    BY <1>2, <1>6, TypeFacts DEF Sanitized
  <2>3. \A e \in 1..MaxGrants : Held(e) => Held(e)'
    BY <1>1, <1>2, <2>1, TypeFacts DEF Held
  <2>4. TypeOK'
    BY <1>3, <1>4, <1>5, <2>1, <2>2, TypeFacts DEF MemInv, TypeOK, NoOp, Nothing
  <2>5. Residency'
    <3>1. /\ g <= given /\ g # 0 /\ o # 0 /\ paging'.ka = 0 /\ 0 \notin Allocs
          /\ \A d \in Allocs : vid[d].grant # g /\ vid[d].off # o
          /\ \A d \in Allocs : Live(d) => Live(d)'
      BY <1>1, <1>2, <1>4, <2>2, TypeFacts DEF Held, Free, Live, NoOp, Nothing
    <3>2. \A d \in Allocs :
            /\ vid'[d].grant <= given /\ vid'[d].grant \notin taken
            /\ vid'[d].grant = 0 <=> vid'[d].off = 0
            /\ vid'[d].grant # 0 => Live(d)'
            /\ vid'[d].locked => vid'[d].grant # 0 /\ paging'.ka # d
      BY <1>2, <2>1, <3>1 DEF MemInv, Residency
    <3>3. \A d, e \in Allocs : d # e /\ vid'[d].grant # 0 =>
            vid'[d].grant # vid'[e].grant /\ vid'[d].off # vid'[e].off
      BY <1>2, <2>1, <3>1 DEF MemInv, Residency
    <3>4. QED
      BY <1>5, <2>2, <3>2, <3>3 DEF Residency
  <2>6. PagingFits'
    BY <2>2 DEF PagingFits, NoOp, Nothing
  <2>7. Stash'
    <3>1. paging'.ka = 0 /\ 0 \notin Allocs /\ \A d \in Allocs : vid[d].off # o
      BY <1>2, <2>2, TypeFacts DEF Free, NoOp, Nothing
    <3>2. \A d \in Allocs \ {a} :
            /\ ~bound => ka'[d].mdl = 0
            /\ ka'[d].mdl = IF bound THEN vid'[d].grant ELSE 0
            /\ ka'[d].mdl # 0 =>
                 ka'[d].va = vid'[d].off /\ pt'["aperture"][vid'[d].off] = ka'[d].mdl
      <4>1. SUFFICES ASSUME NEW d \in Allocs \ {a}
                     PROVE  /\ ~bound => ka'[d].mdl = 0
                            /\ ka'[d].mdl = IF bound THEN vid'[d].grant ELSE 0
                            /\ ka'[d].mdl # 0 =>
                                 /\ ka'[d].va = vid'[d].off
                                 /\ pt'["aperture"][vid'[d].off] = ka'[d].mdl
        OBVIOUS
      <4>2. /\ ka'[d] = ka[d] /\ vid'[d] = vid[d] /\ paging.ka # d
            /\ vid[d].off \in 0..2 /\ (vid[d].grant # 0 => vid[d].off # 0)
        BY <1>1, <1>4, <2>1 DEF MemInv, TypeOK, Residency
      <4>3. vid[d].grant # 0 => vid[d].off \in Addrs
        BY <4>2, TypeFacts
      <4>4. QED
        BY <1>3, <3>1, <4>2, <4>3 DEF MemInv, Stash
    <3>3. QED
      BY <1>3, <1>4, <1>5, <2>1, <3>1, <3>2 DEF Stash
  <2>8. ApertureHeld'
    <3>1. \A x \in Addrs : pt'["aperture"][x] # 0 =>
            \E d \in Allocs : vid'[d].off = x /\ vid'[d].grant = pt'["aperture"][x]
      <4>1. SUFFICES ASSUME NEW x \in Addrs, pt'["aperture"][x] # 0
                     PROVE  \E d \in Allocs : vid'[d].off = x /\ vid'[d].grant = pt'["aperture"][x]
        OBVIOUS
      <4>2. CASE bound /\ x = o
        BY <1>3, <2>1, <4>2
      <4>3. CASE ~(bound /\ x = o)
        <5>1. pt'["aperture"][x] = pt["aperture"][x] /\ x # 0 /\ (bound => x # o)
          BY <1>3, <4>3, TypeFacts
        <5>2. bound
          BY <4>1, <5>1 DEF MemInv, ApertureHeld, None, Nothing
        <5>3. PICK d \in Allocs : vid[d].off = x /\ vid[d].grant = pt["aperture"][x]
          BY <1>1, <4>1, <5>1, <5>2 DEF MemInv, ApertureHeld
        <5>4. d # a
          BY <1>2, <5>1, <5>3
        <5>5. QED
          BY <2>1, <5>1, <5>3, <5>4
      <4>4. QED
        BY <4>2, <4>3
    <3>2. QED
      BY <1>3, <1>5, <3>1 DEF MemInv, ApertureHeld, None
  <2>9. ContextHeld'
    BY <1>3, <1>5, <2>3, TypeFacts DEF MemInv, ContextHeld
  <2>10. UmdKeeps'
    BY <1>2, <1>3, <1>5, <2>1, UmdUndisturbed
  <2>11. TlbFollowsTables'
    BY <1>2, <1>3, <1>5, <2>2, TypeFacts DEF MemInv, TlbFollowsTables, NoOp, Nothing
  <2>12. QED
    BY <2>4, <2>5, <2>6, <2>7, <2>8, <2>9, <2>10, <2>11 DEF MemInv
<1>7. CASE UNCHANGED <<vid, taken, dirty, paging>>
  <2>1. TypeOK'
    BY <1>3, <1>4, <1>5, <1>7 DEF MemInv, TypeOK
  <2>2. Residency' /\ PagingFits'
    BY <1>1, <1>2, <1>3, <1>4, <1>5, <1>7
    DEF MemInv, Residency, PagingFits, Held, Live, Free, NoOp, Nothing
  <2>3. Stash'
    <3>1. \A d \in Allocs \ {a} :
            /\ ka'[d] = ka[d] /\ paging.ka # d
            /\ (vid[d].grant # 0 => vid[d].off \in Addrs \ {o})
      BY <1>1, <1>2, <1>4, TypeFacts DEF MemInv, TypeOK, Residency, Free
    <3>2. QED
      BY <1>1, <1>3, <1>4, <1>5, <1>7, <3>1, TypeFacts DEF MemInv, Stash
  <2>4. ApertureHeld' /\ ContextHeld'
    BY <1>1, <1>2, <1>3, <1>5, <1>7 DEF MemInv, ApertureHeld, ContextHeld, Held
  <2>5. UmdKeeps'
    BY <1>3, <1>5, <1>7, UmdUndisturbed
  <2>6. TlbFollowsTables'
    BY <1>2, <1>3, <1>5, <1>7, TypeFacts DEF MemInv, TlbFollowsTables, Nothing
  <2>7. QED
    BY <2>1, <2>2, <2>3, <2>4, <2>5, <2>6 DEF MemInv
<1>8. QED
  BY <1>6, <1>7 DEF BuildPagingBuffer

LEMMA UnmapApertureSegmentInv ==
  ASSUME MemInv, BuildPagingBuffer, UnmapApertureSegment
  PROVE  MemInv'
<1>1. PICK a \in Allocs, g \in 0..MaxGrants, o \in Addrs :
        a = paging.ka /\ g = paging.grant /\ o = paging.at
  BY DEF MemInv, TypeOK, PagingFits, UnmapApertureSegment
<1>2. /\ paging.op = "unmap" /\ Live(a) /\ g # 0 /\ ~dirty
      /\ vid[a].grant = g /\ vid[a].off = o /\ ~vid[a].locked
      /\ \A x \in Addrs : pt["context"][x] # g
  BY <1>1 DEF MemInv, PagingFits, Residency, UnmapApertureSegment
<1>3. /\ pt' \in [Spaces -> [Addrs -> 0..MaxGrants]]
      /\ tlb' \in [Spaces -> [Addrs -> 0..MaxGrants]]
      /\ pt'["vm"] = pt["vm"] /\ pt'["context"] = pt["context"]
      /\ tlb'["vm"] = tlb["vm"] /\ tlb'["context"] = tlb["context"]
      /\ \A x \in Addrs : pt'["aperture"][x] = IF bound /\ x = o THEN 0 ELSE pt["aperture"][x]
      /\ ~bound => pt'["aperture"] = pt["aperture"]
      /\ \A x \in Addrs : "aperture" \in stuck \/ tlb'["aperture"][x] \in {0, pt'["aperture"][x]}
  BY <1>1, <1>2, SetPtesFacts, TypeFacts DEF UnmapApertureSegment, Nothing
<1>4. /\ ka' \in [Allocs -> [live: {"no", "live", "freed"}, mdl: 0..MaxGrants, va: 0..2]]
      /\ \A d \in Allocs \ {a} : ka'[d] = ka[d]
      /\ ka'[a].live = ka[a].live /\ ka'[a].mdl = 0
  <2>1. /\ ka[a] \in [live: {"no", "live", "freed"}, mdl: 0..MaxGrants, va: 0..2]
        /\ ka \in [Allocs -> [live: {"no", "live", "freed"}, mdl: 0..MaxGrants, va: 0..2]]
    BY DEF MemInv, TypeOK
  <2>2. [ka[a] EXCEPT !.mdl = 0, !.va = 0]
          \in [live: {"no", "live", "freed"}, mdl: 0..MaxGrants, va: 0..2]
    <3>1. 0 \in 0..MaxGrants /\ 0 \in 0..2
      BY TypeFacts
    <3>2. QED
      BY <2>1, <3>1
  <2>3. ka' = [ka EXCEPT ![a] = [ka[a] EXCEPT !.mdl = 0, !.va = 0]]
    BY <1>1, <2>1 DEF UnmapApertureSegment
  <2>4. QED
    BY <2>1, <2>2, <2>3
<1>5. /\ UNCHANGED <<given, bound, leaf, stuck, bo, umd, torn>>
  BY <1>2, BuildFacts
<1>6. CASE Sanitized
  <2>1. /\ vid' \in [Allocs -> [grant: 0..MaxGrants, off: 0..2, locked: BOOLEAN]]
        /\ \A d \in Allocs \ {a} : vid'[d] = vid[d]
        /\ vid'[a].grant = 0 /\ vid'[a].off = 0 /\ ~vid'[a].locked
    <3>1. /\ vid \in [Allocs -> [grant: 0..MaxGrants, off: 0..2, locked: BOOLEAN]]
          /\ vid[a] \in [grant: 0..MaxGrants, off: 0..2, locked: BOOLEAN]
      BY DEF MemInv, TypeOK
    <3>2. vid' = [vid EXCEPT ![a] = [vid[a] EXCEPT !.grant = 0, !.off = 0]]
      BY <1>1, <1>2, <1>6, <3>1 DEF Sanitized
    <3>3. 0 \in 0..MaxGrants /\ 0 \in 0..2
      BY TypeFacts
    <3>4. [vid[a] EXCEPT !.grant = 0, !.off = 0]
            \in [grant: 0..MaxGrants, off: 0..2, locked: BOOLEAN]
      BY <3>1, <3>3
    <3>5. QED
      BY <1>2, <3>1, <3>2, <3>4
  <2>2. /\ taken' = taken \cup {g} /\ dirty' = dirty /\ paging' = NoOp
        /\ paging'.ka = 0 /\ paging'.op = "none"
    BY <1>1, <1>2, <1>6, TypeFacts DEF Sanitized, NoOp, Nothing
  <2>3. \A d \in Allocs \ {a} : vid[d].grant # g /\ vid[d].off # o
    BY <1>2 DEF MemInv, Residency
  <2>4. \A e \in 1..MaxGrants : Held(e) /\ e # g => Held(e)'
    BY <1>2, <2>1 DEF Held
  <2>5. g \in 1..given
    BY <1>1, <1>2, TypeFacts DEF MemInv, TypeOK, Residency
  <2>6. TypeOK'
    BY <1>3, <1>4, <1>5, <2>1, <2>2, <2>5, TypeFacts DEF MemInv, TypeOK, NoOp, Nothing
  <2>7. Residency'
    <3>1. 0 \notin taken' /\ 0 \notin Allocs
      BY <1>2, <2>2, TypeFacts DEF MemInv, TypeOK
    <3>2. given \in Nat
      BY TypeFacts DEF MemInv, TypeOK
    <3>3. \A d \in Allocs :
            /\ vid'[d].grant <= given /\ vid'[d].grant \notin taken'
            /\ vid'[d].grant = 0 <=> vid'[d].off = 0
            /\ vid'[d].grant # 0 => Live(d)'
            /\ vid'[d].locked => vid'[d].grant # 0 /\ paging'.ka # d
      BY <1>4, <2>1, <2>2, <2>3, <3>1, <3>2 DEF MemInv, Residency, Live
    <3>4. \A d, e \in Allocs : d # e /\ vid'[d].grant # 0 =>
            vid'[d].grant # vid'[e].grant /\ vid'[d].off # vid'[e].off
      BY <2>1 DEF MemInv, Residency
    <3>5. QED
      BY <1>5, <3>3, <3>4 DEF Residency
  <2>8. PagingFits'
    BY <2>2 DEF PagingFits, NoOp, Nothing
  <2>9. Stash'
    <3>1. \A d \in Allocs \ {a} :
            /\ ka'[d] = ka[d] /\ vid'[d] = vid[d] /\ paging.ka # d
            /\ (vid[d].grant # 0 => vid[d].off \in Addrs \ {o})
      BY <1>1, <1>4, <2>1, <2>3, TypeFacts DEF MemInv, TypeOK, Residency
    <3>2. \A d \in Allocs :
            /\ ~bound => ka'[d].mdl = 0
            /\ ka'[d].mdl = IF bound THEN vid'[d].grant ELSE 0
            /\ ka'[d].mdl # 0 =>
                 ka'[d].va = vid'[d].off /\ pt'["aperture"][vid'[d].off] = ka'[d].mdl
      BY <1>3, <1>4, <2>1, <3>1 DEF MemInv, Stash
    <3>3. QED
      BY <1>5, <2>2, <3>2, TypeFacts DEF Stash
  <2>10. ApertureHeld'
    <3>1. \A x \in Addrs : pt'["aperture"][x] # 0 =>
            \E d \in Allocs : vid'[d].off = x /\ vid'[d].grant = pt'["aperture"][x]
      <4>1. SUFFICES ASSUME NEW x \in Addrs, pt'["aperture"][x] # 0
                     PROVE  \E d \in Allocs : vid'[d].off = x /\ vid'[d].grant = pt'["aperture"][x]
        OBVIOUS
      <4>2. bound /\ x # o /\ pt'["aperture"][x] = pt["aperture"][x]
        BY <1>3, <4>1 DEF MemInv, ApertureHeld, None, Nothing
      <4>3. PICK d \in Allocs : vid[d].off = x /\ vid[d].grant = pt["aperture"][x]
        BY <1>2, <4>1, <4>2 DEF MemInv, ApertureHeld
      <4>4. QED
        BY <1>2, <2>1, <4>2, <4>3
    <3>2. QED
      BY <1>3, <1>5, <3>1 DEF MemInv, ApertureHeld, None
  <2>11. ContextHeld'
    <3>1. \A x \in Addrs : "context" \in stuck \/ tlb["context"][x] \in {0, pt["context"][x]}
      BY <1>2, TypeFacts DEF MemInv, TlbFollowsTables, Nothing
    <3>2. QED
      BY <1>2, <1>3, <1>5, <2>4, <3>1, TypeFacts DEF MemInv, ContextHeld
  <2>12. UmdKeeps'
    BY <1>2, <1>3, <1>5, <2>1, UmdUndisturbed
  <2>13. TlbFollowsTables'
    <3>1. \A x \in Addrs : "context" \in stuck \/ tlb["context"][x] \in {0, pt["context"][x]}
      BY <1>2, TypeFacts DEF MemInv, TlbFollowsTables, Nothing
    <3>2. \A x \in Addrs : \/ "vm" \in stuck \/ tlb["vm"][x] \in {0, pt["vm"][x]}
                           \/ x \in torn.addrs
      BY TypeFacts DEF MemInv, TlbFollowsTables, Nothing
    <3>3. QED
      BY <1>3, <1>5, <3>1, <3>2, TypeFacts DEF TlbFollowsTables, Nothing
  <2>14. QED
    BY <2>6, <2>7, <2>8, <2>9, <2>10, <2>11, <2>12, <2>13 DEF MemInv
<1>7. CASE UNCHANGED <<vid, taken, dirty, paging>>
  <2>1. TypeOK'
    BY <1>3, <1>4, <1>5, <1>7 DEF MemInv, TypeOK
  <2>2. Residency' /\ PagingFits'
    BY <1>1, <1>2, <1>3, <1>4, <1>5, <1>7
    DEF MemInv, Residency, PagingFits, Held, Live, Nothing
  <2>3. Stash'
    <3>1. \A d \in Allocs \ {a} :
            /\ ka'[d] = ka[d] /\ paging.ka # d
            /\ (vid[d].grant # 0 => vid[d].off \in Addrs \ {o})
      BY <1>1, <1>2, <1>4, TypeFacts DEF MemInv, TypeOK, Residency
    <3>2. QED
      BY <1>1, <1>3, <1>4, <1>5, <1>7, <3>1, TypeFacts DEF MemInv, Stash
  <2>4. ApertureHeld'
    BY <1>2, <1>3, <1>5, <1>7 DEF MemInv, ApertureHeld, None
  <2>5. ContextHeld'
    BY <1>3, <1>5, <1>7 DEF MemInv, ContextHeld, Held
  <2>6. UmdKeeps'
    BY <1>3, <1>5, <1>7, UmdUndisturbed
  <2>7. TlbFollowsTables'
    BY <1>2, <1>3, <1>5, <1>7, TypeFacts DEF MemInv, TlbFollowsTables, Nothing
  <2>8. QED
    BY <2>1, <2>2, <2>3, <2>4, <2>5, <2>6, <2>7 DEF MemInv
<1>8. QED
  BY <1>6, <1>7 DEF BuildPagingBuffer

LEMMA UpdatePageTableInv ==
  ASSUME MemInv, BuildPagingBuffer, UpdatePageTable
  PROVE  MemInv'
<1>1. PICK g \in 0..MaxGrants, o \in Addrs : g = paging.grant /\ o = paging.at
  BY DEF MemInv, TypeOK, PagingFits, UpdatePageTable
<1>2. paging.op = "update" /\ paging.ka = 0 /\ (g = 0 \/ Held(g))
  BY <1>1 DEF MemInv, PagingFits, UpdatePageTable, Nothing
<1>3. /\ pt' \in [Spaces -> [Addrs -> 0..MaxGrants]]
      /\ pt'["vm"] = pt["vm"] /\ pt'["aperture"] = pt["aperture"]
      /\ \A x \in Addrs : pt'["context"][x] = IF x = o THEN g ELSE pt["context"][x]
  BY <1>1, TypeFacts DEF UpdatePageTable
<1>4. UNCHANGED <<ka, tlb, given, bound, leaf, stuck, bo, umd, torn>>
  BY <1>2, BuildFacts DEF UpdatePageTable
<1>5. /\ UNCHANGED <<vid, taken>>
      /\ \/ paging' = NoOp /\ dirty' = TRUE
         \/ UNCHANGED <<dirty, paging>>
  BY <1>2 DEF BuildPagingBuffer, Sanitized
<1>6. TypeOK'
  <2>1. /\ paging' \in [op: {"none", "map", "unmap", "update", "flush"},
                        ka: Allocs \cup {Nothing}, grant: 0..MaxGrants, at: 0..2]
        /\ dirty' \in BOOLEAN
    <3>1. NoOp \in [op: {"none", "map", "unmap", "update", "flush"},
                   ka: Allocs \cup {Nothing}, grant: 0..MaxGrants, at: 0..2]
      BY TypeFacts DEF NoOp
    <3>2. QED
      BY <1>5, <3>1, TypeFacts DEF MemInv, TypeOK
  <2>2. QED
    BY <1>3, <1>4, <1>5, <2>1 DEF MemInv, TypeOK
<1>7. /\ paging'.ka = 0 /\ 0 \notin Allocs
      /\ (paging'.op = "update" \/ dirty')
      /\ paging'.op \notin {"map", "unmap"}
  BY <1>2, <1>5, TypeFacts DEF NoOp, Nothing
<1>8. Residency'
  BY <1>4, <1>5, <1>7 DEF MemInv, Residency, Live
<1>9. PagingFits'
  BY <1>4, <1>5, <1>7 DEF MemInv, PagingFits, Held, NoOp, Nothing
<1>10. Stash'
  BY <1>2, <1>3, <1>4, <1>5, <1>7 DEF MemInv, Stash
<1>11. ApertureHeld'
  BY <1>2, <1>3, <1>4, <1>5, <1>7 DEF MemInv, ApertureHeld, None
<1>12. ContextHeld'
  BY <1>2, <1>3, <1>4, <1>5 DEF MemInv, ContextHeld, Held
<1>13. UmdKeeps'
  BY <1>3, <1>4, <1>5, UmdUndisturbed
<1>14. TlbFollowsTables'
  BY <1>3, <1>4, <1>7, TypeFacts DEF MemInv, TlbFollowsTables, Nothing
<1>15. QED
  BY <1>6, <1>8, <1>9, <1>10, <1>11, <1>12, <1>13, <1>14 DEF MemInv

LEMMA FlushTlbInv ==
  ASSUME MemInv, BuildPagingBuffer, FlushTlb
  PROVE  MemInv'
<1>1. paging.op = "flush" /\ paging.ka = 0
  BY DEF MemInv, PagingFits, FlushTlb, Nothing
<1>2. /\ tlb' \in [Spaces -> [Addrs -> 0..MaxGrants]]
      /\ tlb'["aperture"] = tlb["aperture"]
      /\ \A s \in {"vm", "context"}, x \in Addrs :
            /\ tlb'[s][x] \in {0, tlb[s][x]}
            /\ s \notin stuck => tlb'[s][x] = 0
  BY TypeFacts, FlushFacts DEF FlushTlb, FlushUserAsSlots
<1>3. UNCHANGED <<ka, pt, given, bound, leaf, stuck, bo, umd>>
  BY BuildFacts DEF FlushTlb
<1>4. /\ UNCHANGED <<vid, taken>>
      /\ \/ paging' = NoOp /\ dirty' = FALSE
         \/ UNCHANGED <<dirty, paging>>
  BY <1>1 DEF BuildPagingBuffer, Sanitized
<1>5. /\ torn'.grants = torn.grants
      /\ torn' \in [addrs: SUBSET Addrs, grants: SUBSET Grants]
      /\ "vm" \in stuck => torn' = torn
  BY <1>1, BuildFacts DEF BuildPagingBuffer
<1>6. /\ paging'.ka = 0 /\ 0 \notin Allocs /\ paging'.op \in {"none", "flush"}
  BY <1>1, <1>4, TypeFacts DEF NoOp, Nothing
<1>7. TypeOK'
  <2>1. /\ paging' \in [op: {"none", "map", "unmap", "update", "flush"},
                        ka: Allocs \cup {Nothing}, grant: 0..MaxGrants, at: 0..2]
        /\ dirty' \in BOOLEAN
    <3>1. NoOp \in [op: {"none", "map", "unmap", "update", "flush"},
                   ka: Allocs \cup {Nothing}, grant: 0..MaxGrants, at: 0..2]
      BY TypeFacts DEF NoOp
    <3>2. QED
      BY <1>4, <3>1, TypeFacts DEF MemInv, TypeOK
  <2>2. QED
    BY <1>2, <1>3, <1>4, <1>5, <2>1 DEF MemInv, TypeOK
<1>8. Residency'
  BY <1>3, <1>4, <1>6 DEF MemInv, Residency, Live
<1>9. PagingFits'
  BY <1>1, <1>4, <1>6 DEF MemInv, PagingFits, NoOp, Nothing
<1>10. Stash'
  BY <1>1, <1>3, <1>4, <1>6 DEF MemInv, Stash
<1>11. ApertureHeld'
  BY <1>1, <1>3, <1>4 DEF MemInv, ApertureHeld, None
<1>12. ContextHeld'
  BY <1>2, <1>3, <1>4 DEF MemInv, ContextHeld, Held
<1>13. UmdKeeps'
  BY <1>2, <1>3, <1>4, <1>5, UmdUndisturbed
<1>14. TlbFollowsTables'
  <2>1. \A x \in Addrs : "aperture" \in stuck \/ tlb["aperture"][x] \in {0, pt["aperture"][x]}
    BY TypeFacts DEF MemInv, TlbFollowsTables, Nothing
  <2>2. \A s \in {"vm", "context"}, x \in Addrs : s \in stuck \/ tlb'[s][x] = 0
    BY <1>2
  <2>3. QED
    BY <1>2, <1>3, <2>1, <2>2, TypeFacts DEF TlbFollowsTables, Nothing
<1>15. QED
  BY <1>7, <1>8, <1>9, <1>10, <1>11, <1>12, <1>13, <1>14 DEF MemInv

-----------------------------------------------------------------------------
(* Mapping and unmapping in the VM. *)

\* The VM's entries after a write of the first n pages.
LEMMA WrittenFacts ==
  ASSUME MemInv, NEW n \in 0..2, NEW g \in 0..MaxGrants
  PROVE  /\ Written(n, g) \in [Spaces -> [Addrs -> 0..MaxGrants]]
         /\ Written(n, g)["aperture"] = pt["aperture"]
         /\ Written(n, g)["context"] = pt["context"]
         /\ \A x \in Addrs : Written(n, g)["vm"][x] = IF x <= n THEN g ELSE pt["vm"][x]
  BY TypeFacts DEF Written

\* What VmMap and VmUnmap leave alone is VidMm's.
LEMMA VidMmUndisturbed ==
  ASSUME MemInv, UNCHANGED <<ka, vid, paging, pages, stuck>>,
         pt'["aperture"] = pt["aperture"], pt'["context"] = pt["context"],
         tlb'["context"] = tlb["context"]
  PROVE  /\ Residency' /\ PagingFits' /\ Stash' /\ ApertureHeld' /\ ContextHeld'
<1>1. Residency' /\ PagingFits'
  BY DEF MemInv, Residency, PagingFits, Live, Free, Held, NoOp, Nothing, pages
<1>2. Stash' /\ ApertureHeld' /\ ContextHeld'
  BY DEF MemInv, Stash, ApertureHeld, ContextHeld, Held, None, pages
<1>3. QED
  BY <1>1, <1>2

\* The aperture and the context are followed as before.
LEMMA OtherTlbs ==
  ASSUME MemInv, UNCHANGED <<paging, dirty, stuck>>,
         pt'["aperture"] = pt["aperture"], pt'["context"] = pt["context"],
         tlb'["aperture"] = tlb["aperture"], tlb'["context"] = tlb["context"],
         \A x \in Addrs : \/ tlb'["vm"][x] \in {0, pt'["vm"][x]}
                          \/ "vm" \in stuck \/ x \in torn'.addrs
  PROVE  TlbFollowsTables'
<1>1. \A x \in Addrs : "aperture" \in stuck \/ tlb["aperture"][x] \in {0, pt["aperture"][x]}
  BY TypeFacts DEF MemInv, TlbFollowsTables, Nothing
<1>2. \A x \in Addrs : \/ "context" \in stuck \/ tlb["context"][x] \in {0, pt["context"][x]}
                       \/ dirty \/ paging.op = "update"
  BY TypeFacts DEF MemInv, TlbFollowsTables, Nothing
<1>3. QED
  BY <1>1, <1>2, TypeFacts DEF TlbFollowsTables, Nothing

(* What was mapped is kept, also when VmMap fails part of the way.          *)
LEMMA VmMapInv ==
  ASSUME MemInv, NEW b \in Bos, NEW n \in 1..2, VmMap(b, n)
  PROVE  MemInv'
<1>1. PICK k \in 0..n :
        /\ pt' = Written(k, bo[b]) /\ leaf' = leaf \cup 1..k
        /\ \/ /\ k = n /\ tlb' = AsFlushMem("vm")
              /\ umd' = [umd EXCEPT !.map = [x \in Addrs |-> IF x <= n THEN bo[b] ELSE @[x]]]
              /\ torn' = [addrs |-> IF "vm" \in stuck THEN torn.addrs ELSE {},
                          grants |-> torn.grants]
           \/ /\ torn' = [addrs |-> torn.addrs \cup 1..k,
                          grants |-> IF k > 0 THEN torn.grants \cup {bo[b]} ELSE torn.grants]
              /\ UNCHANGED <<tlb, umd>>
  BY DEF VmMap
<1>0. k \in 0..2 /\ 1..k \subseteq Addrs
  BY DEF Addrs
<1>2. /\ umd.at = "alive" /\ bo[b] # 0 /\ bo[b] \in 0..MaxGrants /\ Kept(bo[b])
      /\ UNCHANGED <<ka, vid, paging, pages, stuck, bo>>
  BY DEF MemInv, TypeOK, UmdKeeps, VmMap, Nothing
<1>3. /\ pt' \in [Spaces -> [Addrs -> 0..MaxGrants]]
      /\ pt'["aperture"] = pt["aperture"] /\ pt'["context"] = pt["context"]
      /\ \A x \in Addrs : pt'["vm"][x] = IF x <= k THEN bo[b] ELSE pt["vm"][x]
  BY <1>0, <1>1, <1>2, WrittenFacts
<1>4. /\ tlb' \in [Spaces -> [Addrs -> 0..MaxGrants]]
      /\ tlb'["aperture"] = tlb["aperture"] /\ tlb'["context"] = tlb["context"]
  BY <1>1, FlushFacts, TypeFacts
<1>5. TypeOK'
  <2>1. leaf' \subseteq Addrs
    BY <1>0, <1>1 DEF MemInv, TypeOK
  <2>2. umd' \in [at: {"alive", "dead", "gone"}, map: [Addrs -> 0..MaxGrants]]
    BY <1>1, <1>2 DEF MemInv, TypeOK
  <2>3. torn' \in [addrs: SUBSET Addrs, grants: SUBSET Grants]
    <3>1. torn \in [addrs: SUBSET Addrs, grants: SUBSET Grants]
      BY DEF MemInv, TypeOK
    <3>2. bo[b] \in Grants
      BY <1>2, TypeFacts DEF Grants
    <3>3. QED
      BY <1>0, <1>1, <3>1, <3>2
  <2>4. QED
    BY <1>2, <1>3, <1>4, <2>1, <2>2, <2>3 DEF MemInv, TypeOK, pages
<1>6. UmdKeeps'
  <2>1. \A g : Kept(g) => Kept(g)'
    BY <1>2 DEF Kept
  <2>2. CASE /\ k = n /\ tlb' = AsFlushMem("vm")
             /\ umd' = [umd EXCEPT !.map = [x \in Addrs |-> IF x <= n THEN bo[b] ELSE @[x]]]
             /\ torn' = [addrs |-> IF "vm" \in stuck THEN torn.addrs ELSE {},
                         grants |-> torn.grants]
    <3>1. /\ umd'.at = "alive" /\ torn'.grants = torn.grants
          /\ \A x \in Addrs : umd'.map[x] = IF x <= n THEN bo[b] ELSE umd.map[x]
      BY <1>2, <2>2 DEF MemInv, TypeOK
    <3>2. \A x \in Addrs : "vm" \in stuck \/ tlb'["vm"][x] = 0
      BY <2>2, FlushFacts, TypeFacts
    <3>3. \A x \in Addrs : umd.map[x] = 0 \/ Kept(umd.map[x])
      BY <1>2 DEF MemInv, UmdKeeps
    <3>4. \A x \in Addrs : umd'.map[x] = 0 \/ Kept(umd.map[x])'
      BY <1>2, <2>1, <3>1, <3>3 DEF Kept
    <3>5. \A x \in Addrs : pt'["vm"][x] \in {0, umd'.map[x]} \cup torn'.grants
      BY <1>2, <1>3, <2>2, <3>1 DEF MemInv, UmdKeeps, Told
    <3>6. \A d \in Bos : bo'[d] = 0 \/ Kept(bo[d])'
      BY <1>2, <2>1 DEF MemInv, UmdKeeps
    <3>7. QED
      BY <1>2, <3>1, <3>2, <3>4, <3>5, <3>6 DEF UmdKeeps, Told, Kept
  <2>3. CASE /\ torn' = [addrs |-> torn.addrs \cup 1..k,
                         grants |-> IF k > 0 THEN torn.grants \cup {bo[b]} ELSE torn.grants]
             /\ UNCHANGED <<tlb, umd>>
    <3>1. /\ torn.grants \subseteq torn'.grants /\ k > 0 => bo[b] \in torn'.grants
          /\ \A x \in Addrs : x <= k => k > 0
      BY <2>3, TypeFacts
    <3>2. QED
      BY <1>2, <1>3, <2>1, <2>3, <3>1 DEF MemInv, UmdKeeps, Told, Kept
  <2>4. QED
    BY <1>1, <2>2, <2>3
<1>7. TlbFollowsTables'
  <2>1. \A x \in Addrs : \/ tlb'["vm"][x] \in {0, pt'["vm"][x]}
                         \/ "vm" \in stuck \/ x \in torn'.addrs
    <3>1. \A x \in Addrs : \/ tlb["vm"][x] \in {0, pt["vm"][x]}
                           \/ "vm" \in stuck \/ x \in torn.addrs
      BY TypeFacts DEF MemInv, TlbFollowsTables, Nothing
    <3>2. CASE tlb' = AsFlushMem("vm")
      BY <3>2, FlushFacts, TypeFacts
    <3>3. CASE tlb' = tlb /\ torn'.addrs = torn.addrs \cup 1..k
      <4>1. \A x \in Addrs : x <= k => x \in 1..k
        BY TypeFacts
      <4>2. QED
        BY <1>3, <3>1, <3>3, <4>1
    <3>4. QED
      BY <1>1, <3>2, <3>3
  <2>2. QED
    BY <1>2, <1>3, <1>4, <2>1, OtherTlbs DEF pages
<1>8. QED
  BY <1>2, <1>3, <1>4, <1>5, <1>6, <1>7, VidMmUndisturbed DEF MemInv

LEMMA VmUnmapInv ==
  ASSUME MemInv, NEW n \in 1..2, VmUnmap(n)
  PROVE  MemInv'
<1>1. /\ umd.at = "alive" /\ tlb' = AsFlushMem("vm") /\ pt' = Written(n, 0)
      /\ umd' = [umd EXCEPT !.map = [x \in Addrs |-> IF x <= n THEN 0 ELSE @[x]]]
      /\ torn' = [torn EXCEPT !.addrs = IF "vm" \in stuck THEN @ ELSE {}]
      /\ UNCHANGED <<ka, vid, paging, pages, stuck, bo>>
  BY DEF VmUnmap, Nothing
<1>2. /\ pt' \in [Spaces -> [Addrs -> 0..MaxGrants]]
      /\ pt'["aperture"] = pt["aperture"] /\ pt'["context"] = pt["context"]
      /\ \A x \in Addrs : pt'["vm"][x] = IF x <= n THEN 0 ELSE pt["vm"][x]
  <2>1. n \in 0..2 /\ 0 \in 0..MaxGrants
    BY TypeFacts
  <2>2. QED
    BY <1>1, <2>1, WrittenFacts
<1>3. /\ tlb' \in [Spaces -> [Addrs -> 0..MaxGrants]]
      /\ tlb'["aperture"] = tlb["aperture"] /\ tlb'["context"] = tlb["context"]
      /\ \A x \in Addrs : "vm" \in stuck \/ tlb'["vm"][x] = 0
  BY <1>1, FlushFacts, TypeFacts
<1>4. /\ umd' \in [at: {"alive", "dead", "gone"}, map: [Addrs -> 0..MaxGrants]]
      /\ umd'.at = "alive"
      /\ \A x \in Addrs : umd'.map[x] = IF x <= n THEN 0 ELSE umd.map[x]
  <2>1. umd \in [at: {"alive", "dead", "gone"}, map: [Addrs -> 0..MaxGrants]]
    BY DEF MemInv, TypeOK
  <2>2. [x \in Addrs |-> IF x <= n THEN 0 ELSE umd.map[x]] \in [Addrs -> 0..MaxGrants]
    BY <2>1, TypeFacts
  <2>3. QED
    BY <1>1, <2>1, <2>2
<1>5. /\ torn' \in [addrs: SUBSET Addrs, grants: SUBSET Grants]
      /\ torn'.grants = torn.grants
  BY <1>1 DEF MemInv, TypeOK
<1>6. TypeOK'
  <2>1. leaf' \subseteq Addrs
    BY TypeFacts DEF MemInv, TypeOK, VmUnmap
  <2>2. QED
    BY <1>1, <1>2, <1>3, <1>4, <1>5, <2>1 DEF MemInv, TypeOK, pages
<1>7. UmdKeeps'
  <2>1. \A g : Kept(g) => Kept(g)'
    BY <1>1 DEF Kept
  <2>2. \A x \in Addrs : umd'.map[x] = 0 \/ Kept(umd.map[x])'
    BY <1>1, <1>4, <2>1 DEF MemInv, UmdKeeps, Kept
  <2>3. \A x \in Addrs : pt'["vm"][x] \in {0, umd'.map[x]} \cup torn'.grants
    BY <1>1, <1>2, <1>4, <1>5 DEF MemInv, UmdKeeps, Told
  <2>4. \A d \in Bos : bo'[d] = 0 \/ Kept(bo[d])'
    BY <1>1, <2>1 DEF MemInv, UmdKeeps
  <2>5. QED
    BY <1>1, <1>3, <1>4, <2>2, <2>3, <2>4 DEF UmdKeeps, Told, Kept
<1>8. TlbFollowsTables'
  BY <1>1, <1>2, <1>3, OtherTlbs DEF pages
<1>9. QED
  BY <1>1, <1>2, <1>3, <1>6, <1>7, <1>8, VidMmUndisturbed DEF MemInv

-----------------------------------------------------------------------------
(* The theorems. *)

LEMMA InitInv == Init => MemInv
<1> SUFFICES ASSUME Init
             PROVE  MemInv
  OBVIOUS
<1>1. MaxGrants \in Nat /\ 0 \notin Allocs /\ Addrs = {1, 2}
  BY MemAssumption DEF Addrs
<1>2. TypeOK
  <2>1. None \in [Addrs -> 0..MaxGrants]
    BY <1>1 DEF None, Nothing
  <2>2. /\ pt \in [Spaces -> [Addrs -> 0..MaxGrants]]
        /\ tlb \in [Spaces -> [Addrs -> 0..MaxGrants]]
    BY <2>1 DEF Init
  <2>3. umd \in [at: {"alive", "dead", "gone"}, map: [Addrs -> 0..MaxGrants]]
    BY <2>1 DEF Init
  <2>4. paging \in [op: {"none", "map", "unmap", "update", "flush"},
                   ka: Allocs \cup {Nothing}, grant: 0..MaxGrants, at: 0..2]
    BY <1>1 DEF Init, NoOp
  <2>5. /\ vid \in [Allocs -> [grant: 0..MaxGrants, off: 0..2, locked: BOOLEAN]]
        /\ ka \in [Allocs -> [live: {"no", "live", "freed"}, mdl: 0..MaxGrants, va: 0..2]]
        /\ bo \in [Bos -> 0..MaxGrants]
    BY <1>1 DEF Init, Nothing
  <2>6. /\ torn \in [addrs: SUBSET Addrs, grants: SUBSET Grants]
        /\ given \in 0..MaxGrants /\ taken \subseteq 1..given
        /\ bound \in BOOLEAN /\ dirty \in BOOLEAN
    <3>1. torn \in [addrs: SUBSET Addrs, grants: SUBSET Grants]
      BY DEF Init
    <3>2. given \in 0..MaxGrants /\ taken \subseteq 1..given
      BY <1>1 DEF Init
    <3>3. bound \in BOOLEAN /\ dirty \in BOOLEAN
      BY DEF Init
    <3>4. QED
      BY <3>1, <3>2, <3>3
  <2>7. QED
    BY <1>1, <2>2, <2>3, <2>4, <2>5, <2>6 DEF Init, TypeOK
<1>3. Residency /\ PagingFits /\ Stash
  BY <1>1 DEF Init, Residency, PagingFits, Stash, NoOp, Nothing
<1>4. ApertureHeld /\ ContextHeld /\ UmdKeeps /\ TlbFollowsTables
  BY <1>1 DEF Init, ApertureHeld, ContextHeld, UmdKeeps, Told, TlbFollowsTables,
    Spaces, None, Nothing
<1>5. QED
  BY <1>2, <1>3, <1>4 DEF MemInv

LEMMA StepInv == MemInv /\ [Next]_vars => MemInv'
<1> SUFFICES ASSUME MemInv, [Next]_vars
             PROVE  MemInv'
  OBVIOUS
<1>1. CASE Gpu
  BY <1>1, TranslateInv, StickInv DEF Gpu
<1>2. CASE BuildPagingBuffer
  BY <1>2, MapApertureSegmentInv, UnmapApertureSegmentInv, UpdatePageTableInv, FlushTlbInv
  DEF BuildPagingBuffer
<1>3. CASE VidMm /\ ~BuildPagingBuffer
  BY <1>3, CreateAllocationInv, FlushInv, DestroyAllocationInv, MakeResidentInv, EvictInv,
    UpdatePteInv DEF VidMm
<1>4. CASE Umd
  BY <1>4, LockInv, UnlockInv, BoFromAllocationInv, BoDestroyInv, VmMapInv, VmUnmapInv,
    ProcessDiesInv, DeviceRundownInv DEF Umd
<1>5. CASE UNCHANGED vars
  <2>1. TypeOK' /\ Residency' /\ PagingFits' /\ Stash'
    BY <1>5 DEF MemInv, TypeOK, Residency, PagingFits, Stash, Live, Free, Held, vars
  <2>2. ApertureHeld' /\ ContextHeld' /\ UmdKeeps' /\ TlbFollowsTables'
    BY <1>5 DEF MemInv, ApertureHeld, ContextHeld, UmdKeeps, TlbFollowsTables, Held, Kept,
      Told, vars
  <2>3. QED
    BY <2>1, <2>2 DEF MemInv
<1>6. QED
  BY <1>1, <1>2, <1>3, <1>4, <1>5 DEF Next, VidMm

THEOREM MemInvHolds == Spec => []MemInv
  BY InitInv, StepInv, PTL DEF Spec

(* Map/UnmapApertureSegment and the sanitizer: between paging operations an *)
(* allocation remembers the pages VidMm has it in, the aperture translates  *)
(* to them, and never does it remember pages that were taken back.          *)
THEOREM MemorySoundHolds == Spec => []MemorySound
<1>1. MemInv => MemorySound
  <2> SUFFICES ASSUME MemInv, NEW a \in Allocs
               PROVE  /\ ka[a].mdl \notin taken
                      /\ paging.ka # a => ka[a].mdl = IF bound THEN vid[a].grant ELSE 0
                      /\ paging.ka # a /\ ka[a].mdl # 0 => pt["aperture"][ka[a].va] = ka[a].mdl
    BY DEF MemInv, MemorySound, StashFollowsVidMm
  <2>1. 0 \notin taken /\ vid[a].grant \notin taken
    BY DEF MemInv, TypeOK, Residency
  <2>2. paging.ka = a => paging.grant \notin taken
    BY <2>1, TypeFacts DEF MemInv, PagingFits, Nothing
  <2>3. QED
    BY <2>1, <2>2 DEF MemInv, Stash
<1>2. QED
  BY <1>1, MemInvHolds, PTL

(* VmMap, VmUnmap, SetPtes_ and FLUSH_TLB: what the GPU has cached is what  *)
(* is in the tables, but for a hung AS, a failed VmMap and an update that   *)
(* VidMm has yet to flush.                                                  *)
THEOREM TlbFollowsTablesHolds == Spec => []TlbFollowsTables
<1>1. MemInv => TlbFollowsTables
  BY DEF MemInv
<1>2. QED
  BY <1>1, MemInvHolds, PTL

(* Pages VidMm took back are out of the GPU's reach, and of every BO's, but *)
(* for a hung AS, what a failed VmMap left, and the VM of a dead process.   *)
THEOREM TakenOutOfReachHolds == Spec => []TakenOutOfReach
<1>1. MemInv => TakenOutOfReach
  <2> SUFFICES ASSUME MemInv
               PROVE  TakenOutOfReach
    OBVIOUS
  <2>1. 0 \notin taken /\ \A g : Held(g) \/ Kept(g) => g \notin taken
    BY DEF MemInv, TypeOK, Residency, Held, Kept
  <2>2. \A x \in Addrs : /\ pt["aperture"][x] \notin taken
                         /\ "aperture" \in stuck \/ tlb["aperture"][x] \notin taken
    <3>1. \A x \in Addrs : pt["aperture"][x] \notin taken
      BY <2>1 DEF MemInv, ApertureHeld, Held, PagingFits
    <3>2. QED
      BY <2>1, <3>1, TypeFacts DEF MemInv, TlbFollowsTables, Nothing
  <2>3. \A x \in Addrs : /\ pt["context"][x] \notin taken
                         /\ "context" \in stuck \/ tlb["context"][x] \notin taken
    BY <2>1 DEF MemInv, ContextHeld
  <2>4. \A x \in Addrs : \A g \in {pt["vm"][x], tlb["vm"][x]} \cap taken :
          "vm" \in stuck \/ umd.at = "dead" \/ g \in torn.grants
    <3>1. CASE umd.at = "alive"
      BY <2>1, <3>1 DEF MemInv, UmdKeeps, Told
    <3>2. CASE umd.at = "gone"
      BY <2>1, <3>2 DEF MemInv, UmdKeeps
    <3>3. QED
      BY <3>1, <3>2 DEF MemInv, TypeOK
  <2>5. \A b \in Bos : bo[b] \in taken => umd.at = "dead"
    BY <2>1 DEF MemInv, TypeOK, UmdKeeps
  <2>6. QED
    BY <2>2, <2>3, <2>4, <2>5, TypeFacts DEF TakenOutOfReach
<1>2. QED
  BY <1>1, MemInvHolds, PTL

----------------------------------------------------------------------------
(* Present, whose surfaces are allocations of this memory: for every number *)
(* of back buffers, sizes, corners, alignments and frames.  P has constants *)
(* and variables of its own.                                                *)

CONSTANTS Buffers, Bpp, PitchAlign, PageSize, Sizes, Corners, MaxFrames, NoBuffer
VARIABLES geo, drawn, ready, frame, resident, dma, submitted, target

P == INSTANCE Present WITH None <- NoBuffer

Laid == P!PresentConstants /\ geo \in P!Geometries

(* Rows and pitches.                                                        *)

LEMMA Divide ==
  ASSUME NEW p \in Nat \ {0}, NEW k \in Nat, NEW c \in 0..(p - 1)
  PROVE  (k * p + c) \div p = k /\ (k * p + c) % p = c
  OBVIOUS

LEMMA Product ==
  ASSUME NEW a \in Nat, NEW b \in Nat, NEW c \in Nat, a <= b
  PROVE  a * c \in Nat /\ b * c \in Nat /\ a * c <= b * c
  OBVIOUS

LEMMA Quotient ==
  ASSUME NEW v \in Nat, NEW a \in Nat \ {0}
  PROVE  v \div a \in Nat /\ (v \div a) * a <= v
  OBVIOUS

LEMMA Aligned ==
  ASSUME NEW v \in Nat, NEW a \in Nat \ {0}
  PROVE  P!AlignUp(v, a) \in Nat /\ v <= P!AlignUp(v, a)
  BY DEF P!AlignUp

(* CreateAllocation gives every row of a surface room for its pixels.       *)
LEMMA SurfaceFacts ==
  ASSUME P!PresentConstants, NEW s \in P!Surfaces
  PROVE  /\ s.w \in Nat \ {0} /\ s.h \in Nat \ {0} /\ s.pitch \in Nat \ {0} /\ s.size \in Nat
         /\ s.w * Bpp <= s.pitch
<1>1. PICK size \in Sizes : s = P!Surface(size)
  BY DEF P!Surfaces
<1>2. size[1] \in Nat \ {0} /\ size[2] \in Nat \ {0} /\ Bpp \in Nat \ {0}
      /\ PitchAlign \in Nat \ {0} /\ PageSize \in Nat \ {0}
  BY DEF P!PresentConstants
<1> DEFINE v == size[1] * Bpp
           pitch == P!AlignUp(v, PitchAlign)
<1>3. v \in Nat \ {0}
  BY <1>2
<1>4. pitch \in Nat /\ v <= pitch
  BY <1>2, <1>3, Aligned
<1>5. pitch * size[2] \in Nat
  BY <1>2, <1>4
<1>6. P!AlignUp(pitch * size[2], PageSize) \in Nat
  BY <1>2, <1>5, Aligned
<1>7. s = [w |-> size[1], h |-> size[2], pitch |-> pitch,
           size |-> P!AlignUp(pitch * size[2], PageSize)]
  BY <1>1 DEF P!Surface
<1> HIDE DEF pitch
<1>8. QED
  BY <1>2, <1>3, <1>4, <1>6, <1>7

LEMMA GeometryFacts ==
  ASSUME Laid
  PROVE  /\ geo.src \in P!Surfaces /\ geo.dst \in P!Surfaces
         /\ geo.w \in Nat \ {0} /\ geo.h \in Nat \ {0}
         /\ geo.from[1] \in Nat /\ geo.from[2] \in Nat /\ geo.to[1] \in Nat /\ geo.to[2] \in Nat
         /\ geo.to[1] + geo.w <= geo.dst.w
         /\ Bpp \in Nat \ {0}
<1>1. /\ geo.src \in P!Surfaces /\ geo.dst \in P!Surfaces
      /\ geo.w \in {size[1] : size \in Sizes} /\ geo.h \in {size[2] : size \in Sizes}
      /\ geo.from \in Corners /\ geo.to \in Corners
      /\ geo.to[1] + geo.w <= geo.dst.w
  BY DEF Laid, P!Geometries
<1>2. /\ geo.w \in Nat \ {0} /\ geo.h \in Nat \ {0}
  BY <1>1 DEF Laid, P!PresentConstants
<1>3. /\ geo.from[1] \in Nat /\ geo.from[2] \in Nat /\ geo.to[1] \in Nat /\ geo.to[2] \in Nat
  BY <1>1 DEF Laid, P!PresentConstants
<1>4. QED
  BY <1>1, <1>2, <1>3 DEF Laid, P!PresentConstants

(* The bytes of a row that keeps within the pitch of both surfaces are in   *)
(* their place.                                                             *)
LEMMA RowInPlace ==
  ASSUME Laid, NEW w \in Nat, NEW h \in Nat, w <= geo.w, h <= geo.h,
         (geo.from[1] + w) * Bpp <= geo.src.pitch,
         NEW f, NEW t \in P!Drawn(P!Rows(w, h, Bpp), f)
  PROVE  P!InPlace(t)
<1> DEFINE sp == geo.src.pitch
           dp == geo.dst.pitch
           x == geo.from[1] * Bpp
           y == geo.to[1] * Bpp
<1>1. PICK r \in 0..(h - 1), i \in 0..(w * Bpp - 1) :
         t = [at |-> (geo.to[2] + r) * dp + y + i,
              of |-> (geo.from[2] + r) * sp + x + i, frame |-> f]
  BY DEF P!Drawn, P!Rows, P!Row
<1>2. /\ sp \in Nat \ {0} /\ dp \in Nat \ {0} /\ Bpp \in Nat \ {0}
      /\ geo.from[1] \in Nat /\ geo.from[2] \in Nat /\ geo.to[1] \in Nat /\ geo.to[2] \in Nat
      /\ geo.w \in Nat /\ geo.h \in Nat /\ geo.dst.w \in Nat
      /\ geo.to[1] + w <= geo.dst.w /\ geo.dst.w * Bpp <= dp
  BY GeometryFacts, SurfaceFacts DEF Laid
<1> HIDE DEF sp, dp
<1>3. /\ x \in Nat /\ y \in Nat /\ w * Bpp \in Nat /\ geo.w * Bpp \in Nat
      /\ (geo.from[1] + w) * Bpp = x + w * Bpp /\ (geo.to[1] + w) * Bpp = y + w * Bpp
  BY <1>2
<1>4. x + i \in 0..(sp - 1) /\ y + i \in 0..(dp - 1) /\ i \in 0..(geo.w * Bpp - 1)
  <2>1. (geo.to[1] + w) * Bpp <= geo.dst.w * Bpp /\ w * Bpp <= geo.w * Bpp
        /\ geo.dst.w * Bpp \in Nat
    <3>1. geo.to[1] + w \in Nat /\ geo.dst.w * Bpp \in Nat
      BY <1>2
    <3>2. (geo.to[1] + w) * Bpp <= geo.dst.w * Bpp
      BY <1>2, <3>1, Product
    <3>3. w * Bpp <= geo.w * Bpp
      BY <1>2, Product
    <3>4. QED
      BY <3>1, <3>2, <3>3
  <2>2. x + w * Bpp <= sp
    BY <1>3 DEF sp
  <2>3. y + w * Bpp <= dp
    BY <1>2, <1>3, <2>1
  <2> HIDE DEF x, y
  <2>4. QED
    BY <1>1, <1>2, <1>3, <2>1, <2>2, <2>3
<1> DEFINE j == geo.from[2] + r
           k == geo.to[2] + r
<1>5. j \in Nat /\ k \in Nat /\ r \in 0..(geo.h - 1)
  BY <1>1, <1>2
<1> HIDE DEF x, y
<1>6. t.at = k * dp + (y + i) /\ t.of = j * sp + (x + i)
  <2>1. k * dp \in Nat /\ j * sp \in Nat
    BY <1>2, <1>5
  <2>2. t.at = k * dp + y + i /\ t.of = j * sp + x + i
    BY <1>1
  <2> HIDE DEF j, k
  <2>3. QED
    BY <1>1, <1>3, <2>1, <2>2
<1>7. t.at \div dp = k /\ t.at % dp = y + i /\ t.of \div sp = j /\ t.of % sp = x + i
  <2> DEFINE a == x + i
             b == y + i
  <2>1. a \in 0..(sp - 1) /\ b \in 0..(dp - 1)
    BY <1>4
  <2> HIDE DEF a, b, j, k
  <2>2. (k * dp + b) \div dp = k /\ (k * dp + b) % dp = b
    BY <1>2, <1>5, <2>1, Divide
  <2>3. (j * sp + a) \div sp = j /\ (j * sp + a) % sp = a
    BY <1>2, <1>5, <2>1, Divide
  <2>4. QED
    BY <1>6, <2>2, <2>3 DEF a, b
<1>8. /\ (t.at \div dp) - geo.to[2] = r /\ (t.at % dp) - y = i
      /\ t.of \div sp = geo.from[2] + r /\ t.of % sp = x + i
  BY <1>1, <1>2, <1>3, <1>7
<1>9. QED
  BY <1>4, <1>5, <1>8 DEF P!InPlace, x, y, sp, dp

(* What is copied lies within both surfaces.                                *)
LEMMA RowsFit ==
  ASSUME Laid, NEW w \in Nat, NEW h \in Int, NEW bpp \in Nat, NEW f,
         NEW t \in P!Drawn(P!Rows(w, h, bpp), f)
  PROVE  t.of < geo.src.size /\ t.at < geo.dst.size
<1>0. PICK row \in P!Rows(w, h, bpp) :
         t \in {[at |-> row.dst + i, of |-> row.src + i, frame |-> f] : i \in 0..(row.len - 1)}
  BY DEF P!Drawn
<1>1. PICK i \in 0..(row.len - 1) :
         t = [at |-> row.dst + i, of |-> row.src + i, frame |-> f]
  BY <1>0
<1>2. PICK r \in 0..(h - 1) : row = P!Row(r, w, bpp) /\ P!Fits(row)
  BY <1>1 DEF P!Rows
<1>3. row.src \in Nat /\ row.dst \in Nat /\ row.len \in Nat
  <2>1. /\ geo.src.pitch \in Nat /\ geo.dst.pitch \in Nat
        /\ geo.from[1] \in Nat /\ geo.from[2] + r \in Nat
        /\ geo.to[1] \in Nat /\ geo.to[2] + r \in Nat
    BY <1>2, GeometryFacts, SurfaceFacts DEF Laid
  <2>2. /\ (geo.from[2] + r) * geo.src.pitch \in Nat /\ (geo.to[2] + r) * geo.dst.pitch \in Nat
        /\ geo.from[1] * bpp \in Nat /\ geo.to[1] * bpp \in Nat /\ w * bpp \in Nat
    BY <2>1
  <2>3. QED
    BY <1>2, <2>2 DEF P!Row
<1>4. geo.src.size \in Nat /\ geo.dst.size \in Nat
  BY GeometryFacts, SurfaceFacts DEF Laid
<1>5. row.src + row.len <= geo.src.size /\ row.dst + row.len <= geo.dst.size
  BY <1>2 DEF P!Fits
<1>6. i \in Int /\ i < row.len
  BY <1>1, <1>3
<1>7. QED
  BY <1>1, <1>3, <1>4, <1>5, <1>6

LEMMA ClampFacts ==
  ASSUME NEW n \in Int, NEW room \in Int
  PROVE  P!Clamp(n, room) \in Int /\ P!Clamp(n, room) <= n /\ P!Clamp(n, room) <= room
<1>1. \E x \in {n, room} : \A y \in {n, room} : x <= y
  OBVIOUS
<1>2. P!Clamp(n, room) \in {n, room} /\ \A y \in {n, room} : P!Clamp(n, room) <= y
  BY <1>1 DEF P!Clamp, P!Min
<1>3. QED
  BY <1>2

(* ExecuteBlt_ copies each pixel to its place, whatever the surfaces are.   *)
LEMMA ExecuteInPlace ==
  ASSUME Laid, NEW f, NEW t \in P!Drawn(P!ExecuteBlt, f)
  PROVE  P!InPlace(t) /\ t.of < geo.src.size /\ t.at < geo.dst.size
<1> DEFINE sp == geo.src.pitch
           room == sp \div Bpp
           a == room - geo.from[1]
           b == geo.src.size \div sp - geo.from[2]
           w == P!Clamp(geo.w, a)
           h == P!Clamp(geo.h, b)
<1>1. /\ sp \in Nat \ {0} /\ geo.src.size \in Nat /\ Bpp \in Nat \ {0}
      /\ geo.w \in Nat /\ geo.h \in Nat /\ geo.from[1] \in Nat /\ geo.from[2] \in Nat
  BY GeometryFacts, SurfaceFacts DEF Laid
<1>2. room \in Nat /\ room * Bpp <= sp /\ geo.src.size \div sp \in Nat
  BY <1>1, Quotient
<1>3. w \in Int /\ w <= geo.w /\ w <= room - geo.from[1] /\ h \in Int /\ h <= geo.h
  <2>1. a \in Int /\ b \in Int /\ geo.w \in Int /\ geo.h \in Int
    BY <1>1, <1>2
  <2> HIDE DEF a, b
  <2>2. w \in Int /\ w <= geo.w /\ w <= a
    BY <2>1, ClampFacts
  <2>3. h \in Int /\ h <= geo.h
    BY <2>1, ClampFacts
  <2>4. QED
    BY <2>2, <2>3 DEF a
<1>4. P!ExecuteBlt = IF w <= 0 \/ h <= 0 THEN {} ELSE P!Rows(w, h, Bpp)
  BY DEF P!ExecuteBlt
<1> HIDE DEF w, h, room, sp
<1>5. w > 0 /\ h > 0 /\ t \in P!Drawn(P!Rows(w, h, Bpp), f)
  <2>1. P!Drawn({}, f) = {}
    BY DEF P!Drawn
  <2>2. QED
    BY <1>3, <1>4, <2>1
<1>6. (geo.from[1] + w) * Bpp <= geo.src.pitch
  <2>1. (geo.from[1] + w) * Bpp <= room * Bpp /\ (geo.from[1] + w) * Bpp \in Nat /\ room * Bpp \in Nat
    BY <1>1, <1>2, <1>3, <1>5, Product
  <2>2. QED
    BY <1>1, <1>2, <2>1 DEF sp
<1>7. w \in Nat /\ h \in Nat
  BY <1>3, <1>5
<1>8. QED
  BY <1>1, <1>3, <1>5, <1>6, <1>7, RowInPlace, RowsFit

(* Present's own copy does so where its guess of the bytes per pixel holds. *)
LEMMA PresentInPlace ==
  ASSUME Laid, NEW f, NEW t \in P!Drawn(P!PresentBlt, f)
  PROVE  (P!Exact => P!InPlace(t)) /\ t.of < geo.src.size /\ t.at < geo.dst.size
<1> DEFINE bpp == geo.dst.pitch \div geo.dst.w
<1>1. /\ geo.w \in Nat /\ geo.h \in Nat /\ geo.dst.pitch \in Nat /\ geo.dst.w \in Nat \ {0}
      /\ P!PresentBlt = P!Rows(geo.w, geo.h, bpp)
  BY GeometryFacts, SurfaceFacts DEF Laid, P!PresentBlt
<1>2. bpp \in Nat
  BY <1>1, Quotient
<1> HIDE DEF bpp
<1>3. t.of < geo.src.size /\ t.at < geo.dst.size
  <2>1. t \in P!Drawn(P!Rows(geo.w, geo.h, bpp), f) /\ geo.h \in Int
    BY <1>1
  <2>2. QED
    BY <1>1, <1>2, <2>1, RowsFit
<1>4. ASSUME P!Exact PROVE P!InPlace(t)
  <2>1. bpp = Bpp /\ (geo.from[1] + geo.w) * Bpp <= geo.src.pitch
    BY <1>4 DEF P!Exact, bpp
  <2>2. QED
    BY <1>1, <2>1, RowInPlace
<1>5. QED
  BY <1>3, <1>4

LEMMA CopyFacts ==
  ASSUME NEW rows, NEW f, P!Copy(rows, f), NEW u \in target'
  PROVE  \/ u \in target /\ u.at \notin P!Bytes(rows)
         \/ u \in P!Drawn(rows, f) /\ u.at \in P!Bytes(rows) /\ u.frame = f
<1>1. \A t \in P!Drawn(rows, f) : t.at \in P!Bytes(rows) /\ t.frame = f
  BY DEF P!Drawn, P!Bytes
<1>2. QED
  BY <1>1 DEF P!Copy

----------------------------------------------------------------------------
(* Frames and DMA buffers: a buffer has its magic until it is submitted,    *)
(* and holds a frame its back buffer has not gone behind.                   *)

DmaBuffer == [src : Buffers, magic : BOOLEAN, frame : Nat, done : {"no", "copied", "dropped"}]
Newer(b) == b \in Buffers /\ drawn[b] = frame
PresentTypeOK ==
    /\ Laid
    /\ frame \in Nat /\ drawn \in [Buffers -> Nat]
    /\ dma \in Seq(DmaBuffer) /\ submitted \in 0..Len(dma)
    /\ \A t \in target : t.frame \in Nat
FramesFit ==
    /\ ready # NoBuffer => Newer(ready)
    /\ \A b \in Buffers : drawn[b] <= frame
    /\ \A i \in 1..Len(dma) : dma[i].frame <= drawn[dma[i].src]
    /\ \A t \in target : t.frame <= frame
    /\ \A t, u \in target : t.at = u.at => t.frame = u.frame
MagicFits == \A i \in 1..Len(dma) : dma[i].magic = (i > submitted)

PresentInv ==
    PresentTypeOK /\ FramesFit /\ MagicFits /\ P!PixelsInPlace /\ P!LastPresentWins

LEMMA InitPresentInv ==
  ASSUME P!PresentConstants, P!Init
  PROVE  PresentInv
<1>1. PresentTypeOK /\ FramesFit /\ MagicFits
  BY DEF P!Init, Laid, PresentTypeOK, FramesFit, MagicFits
<1>2. P!PixelsInPlace
  BY <1>1, ExecuteInPlace DEF P!Init, PresentTypeOK, P!PixelsInPlace
<1>3. P!LastPresentWins
  BY DEF P!Init, P!LastPresentWins
<1>4. QED
  BY <1>1, <1>2, <1>3 DEF PresentInv

(* What a step does to the screen: nothing, or a copy of a frame.           *)
Screened(rows, f) == target' = target \/ P!Copy(rows, f)

LEMMA CopyInv ==
  ASSUME PresentInv, geo' = geo, frame' = frame, NEW rows, NEW f \in Nat, f <= frame,
         rows = P!ExecuteBlt \/ rows = P!PresentBlt, Screened(rows, f)
  PROVE  /\ \A t \in target' : t.frame \in Nat /\ t.frame <= frame
         /\ \A t, u \in target' : t.at = u.at => t.frame = u.frame
         /\ P!PixelsInPlace'
<1> USE DEF PresentInv
<1>1. \A u \in target' : u \in target \/ (u \in P!Drawn(rows, f) /\ u.frame = f)
  BY CopyFacts DEF Screened
<1>2. \A t, u \in target' : t.at = u.at => t.frame = u.frame
  <2>1. CASE target' = target
    BY <2>1 DEF FramesFit
  <2>2. CASE P!Copy(rows, f)
    BY <2>2, CopyFacts DEF FramesFit
  <2>3. QED
    BY <2>1, <2>2 DEF Screened
<1>3. \A t \in target' : t.frame \in Nat /\ t.frame <= frame
  BY <1>1 DEF FramesFit, PresentTypeOK
<1>4. Laid
  BY DEF PresentTypeOK
<1>5. \A u \in P!Drawn(rows, f) : (P!Exact => P!InPlace(u)) /\ u.of < geo.src.size /\ u.at < geo.dst.size
  BY <1>4, ExecuteInPlace, PresentInPlace
<1>6. \A u \in target' : (P!Exact => P!InPlace(u)) /\ u.of < geo.src.size /\ u.at < geo.dst.size
  BY <1>1, <1>5 DEF P!PixelsInPlace
<1>7. /\ P!Exact' = P!Exact /\ \A t : P!InPlace(t)' = P!InPlace(t)
      /\ P!Drawn(P!ExecuteBlt, 0)' = P!Drawn(P!ExecuteBlt, 0)
  BY DEF P!Exact, P!InPlace, P!Drawn, P!ExecuteBlt, P!Clamp, P!Rows, P!Row, P!Fits
<1>8. P!PixelsInPlace'
  BY <1>6, <1>7 DEF P!PixelsInPlace
<1>9. QED
  BY <1>2, <1>3, <1>8

(* Steps that touch neither the screen nor a DMA buffer.                    *)
LEMMA StillPresentInv ==
  ASSUME PresentInv, geo' = geo, dma' = dma, submitted' = submitted, target' = target,
         frame' \in Nat, frame <= frame', drawn' \in [Buffers -> Nat],
         \A b \in Buffers : drawn[b] <= drawn'[b] /\ drawn'[b] <= frame',
         ready' # NoBuffer => Newer(ready)'
  PROVE  PresentInv'
<1> USE DEF PresentInv
<1>1. PresentTypeOK'
  BY DEF PresentTypeOK, Laid
<1>2. FramesFit'
  <2>1. \A i \in 1..Len(dma) : dma[i].frame <= drawn'[dma[i].src]
    <3> SUFFICES ASSUME NEW i \in 1..Len(dma) PROVE dma[i].frame <= drawn'[dma[i].src]
      OBVIOUS
    <3>1. dma[i] \in DmaBuffer
      BY DEF PresentTypeOK
    <3>2. dma[i].src \in Buffers /\ dma[i].frame \in Nat
      BY <3>1 DEF DmaBuffer
    <3>3. dma[i].frame <= drawn[dma[i].src]
      BY DEF FramesFit
    <3>4. drawn[dma[i].src] \in Nat /\ drawn'[dma[i].src] \in Nat
          /\ drawn[dma[i].src] <= drawn'[dma[i].src]
      BY <3>2 DEF PresentTypeOK
    <3>5. QED
      BY <3>2, <3>3, <3>4
  <2>2. \A t \in target : t.frame <= frame'
    BY DEF FramesFit, PresentTypeOK
  <2>3. QED
    BY <2>1, <2>2 DEF FramesFit
<1>3. MagicFits'
  BY DEF MagicFits
<1>4. P!PixelsInPlace' = P!PixelsInPlace /\ P!LastPresentWins' = P!LastPresentWins
  BY DEF P!PixelsInPlace, P!LastPresentWins, P!Exact, P!InPlace, P!Drawn, P!Bytes,
     P!ExecuteBlt, P!Clamp, P!Rows, P!Row, P!Fits
<1>5. QED
  BY <1>1, <1>2, <1>3, <1>4

LEMMA DrawStep ==
  ASSUME PresentInv, NEW b \in Buffers, P!Draw(b)
  PROVE  PresentInv'
<1>1. /\ geo' = geo /\ dma' = dma /\ submitted' = submitted /\ target' = target
      /\ frame' = frame + 1 /\ ready' = b /\ drawn' = [drawn EXCEPT ![b] = frame + 1]
      /\ frame \in Nat /\ drawn \in [Buffers -> Nat] /\ \A c \in Buffers : drawn[c] <= frame
  BY DEF P!Draw, PresentInv, PresentTypeOK, FramesFit
<1>2. frame' \in Nat /\ frame <= frame' /\ drawn' \in [Buffers -> Nat]
  BY <1>1
<1>3. \A c \in Buffers : drawn[c] <= drawn'[c] /\ drawn'[c] <= frame'
  BY <1>1
<1>4. Newer(ready)'
  BY <1>1 DEF Newer
<1>5. QED
  BY <1>1, <1>2, <1>3, <1>4, StillPresentInv

LEMMA QuietStep ==
  ASSUME PresentInv, \/ P!PresentUnresolved \/ UNCHANGED P!vars
                     \/ \E s \in Buffers \cup {NoBuffer} : P!Residency(s)
  PROVE  PresentInv'
<1>1. /\ geo' = geo /\ dma' = dma /\ submitted' = submitted /\ target' = target
      /\ frame' = frame /\ drawn' = drawn /\ ready' \in {ready, NoBuffer}
      /\ frame \in Nat /\ drawn \in [Buffers -> Nat] /\ \A c \in Buffers : drawn[c] <= frame
      /\ ready # NoBuffer => Newer(ready)
  BY DEF P!PresentUnresolved, P!Residency, P!swapchain, P!vars, PresentInv, PresentTypeOK, FramesFit
<1>2. ready' # NoBuffer => Newer(ready)'
  BY <1>1 DEF Newer
<1>3. \A c \in Buffers : drawn[c] <= drawn'[c]
  BY <1>1
<1>4. QED
  BY <1>1, <1>2, <1>3, StillPresentInv

(* DxgkDdiPresent appends a descriptor for the newest frame.                *)
LEMMA PresentStep ==
  ASSUME PresentInv, P!Present
  PROVE  PresentInv'
<1> DEFINE n == Len(dma)
           d == [src |-> ready, magic |-> TRUE, frame |-> drawn[ready], done |-> "no"]
<1>1. /\ geo' = geo /\ frame' = frame /\ drawn' = drawn /\ submitted' = submitted /\ ready' = NoBuffer
      /\ dma' = Append(dma, d) /\ Newer(ready)
  BY DEF P!Present, PresentInv, FramesFit
<1>2. /\ frame \in Nat /\ drawn \in [Buffers -> Nat] /\ dma \in Seq(DmaBuffer)
      /\ n \in Nat /\ submitted \in 0..n /\ Laid
      /\ \A c \in Buffers : drawn[c] <= frame
  BY DEF PresentInv, PresentTypeOK, FramesFit
<1>3. d \in DmaBuffer /\ ready \in Buffers /\ drawn[ready] = frame
  BY <1>1, <1>2 DEF DmaBuffer, Newer
<1> HIDE DEF d
<1>4. /\ dma' \in Seq(DmaBuffer) /\ Len(dma') = n + 1 /\ dma'[n + 1] = d
      /\ \A i \in 1..n : dma'[i] = dma[i]
      /\ \A i \in 1..(n + 1) : i \in 1..n \/ i = n + 1
  BY <1>1, <1>2, <1>3
<1>5. Screened(P!PresentBlt, drawn[ready])
  BY DEF P!Present, Screened
<1>6. /\ \A t \in target' : t.frame \in Nat /\ t.frame <= frame
      /\ \A t, u \in target' : t.at = u.at => t.frame = u.frame
      /\ P!PixelsInPlace'
  BY <1>1, <1>2, <1>3, <1>5, CopyInv
<1>7. PresentTypeOK'
  <2>1. submitted' \in 0..Len(dma')
    BY <1>1, <1>2, <1>4
  <2>2. QED
    BY <1>1, <1>2, <1>4, <1>6, <2>1 DEF PresentTypeOK, Laid
<1>8. FramesFit'
  <2>1. \A i \in 1..(n + 1) : dma'[i].frame <= drawn'[dma'[i].src]
    <3>1. dma'[n + 1].frame <= drawn'[dma'[n + 1].src]
      BY <1>1, <1>2, <1>3, <1>4 DEF d
    <3>2. \A i \in 1..n : dma'[i].frame <= drawn'[dma'[i].src]
      BY <1>1, <1>4 DEF PresentInv, FramesFit
    <3>3. QED
      BY <1>4, <3>1, <3>2
  <2>2. QED
    BY <1>1, <1>2, <1>4, <1>6, <2>1 DEF FramesFit
<1>9. MagicFits'
  <2>1. d.magic = TRUE /\ n + 1 > submitted
    BY <1>2 DEF d
  <2>2. QED
    BY <1>1, <1>4, <2>1 DEF PresentInv, MagicFits
<1>10. P!LastPresentWins'
  BY <1>1, <1>2, <1>4 DEF P!LastPresentWins
<1>11. QED
  BY <1>6, <1>7, <1>8, <1>9, <1>10 DEF PresentInv

LEMMA MaxFacts ==
  ASSUME NEW a \in Nat, NEW b \in Nat
  PROVE  P!Max({a, b}) = IF a <= b THEN b ELSE a
<1>1. \E x \in {a, b} : \A y \in {a, b} : x >= y
  OBVIOUS
<1>2. P!Max({a, b}) \in {a, b} /\ \A y \in {a, b} : P!Max({a, b}) >= y
  BY <1>1 DEF P!Max
<1>3. QED
  BY <1>2

(* SubmitCommand finds a consumed descriptor, or that of the next buffer,   *)
(* which it consumes.                                                       *)
LEMMA SubmitFacts ==
  ASSUME PresentInv, NEW i \in DOMAIN dma, P!SubmitCommand(i)
  PROVE  LET f == drawn[dma[i].src] IN
         /\ i \in 1..Len(dma) /\ dma[i] \in DmaBuffer /\ f \in Nat
         /\ dma[i].frame <= f /\ f <= frame
         /\ UNCHANGED <<geo, drawn, ready, frame>>
         /\ \/ UNCHANGED <<dma, target, submitted>>
            \/ /\ i = submitted + 1 /\ submitted' = i
               /\ \E e \in DmaBuffer :
                    /\ dma' = [dma EXCEPT ![i] = e]
                    /\ e.src = dma[i].src /\ e.frame = dma[i].frame /\ e.magic = FALSE
                    /\ \/ e.done = "copied" /\ P!Copy(P!ExecuteBlt, f)
                       \/ e.done = "dropped" /\ target' = target
<1> DEFINE d == dma[i]
           f == drawn[d.src]
<1>1. /\ dma \in Seq(DmaBuffer) /\ i \in 1..Len(dma) /\ d \in DmaBuffer /\ submitted \in 0..Len(dma)
      /\ drawn \in [Buffers -> Nat] /\ frame \in Nat /\ Len(dma) \in Nat
  BY DEF PresentInv, PresentTypeOK
<1>2. d.src \in Buffers /\ f \in Nat /\ d.frame <= f /\ f <= frame /\ d.magic = (i > submitted)
  BY <1>1 DEF DmaBuffer, PresentInv, FramesFit, MagicFits
<1>3. UNCHANGED <<geo, drawn, ready, frame>> /\ i <= submitted + 1 /\ P!Blt(i)
  BY DEF P!SubmitCommand, P!swapchain
<1>4. submitted' = IF submitted <= i THEN i ELSE submitted
  BY <1>1, MaxFacts DEF P!SubmitCommand
<1>5. CASE ~d.magic
  <2>1. submitted' = submitted
    <3>1. ~(i > submitted)
      BY <1>2, <1>5
    <3>2. i \in Nat /\ submitted \in Nat
      BY <1>1
    <3>3. QED
      BY <1>4, <3>1, <3>2
  <2>2. UNCHANGED <<dma, target>>
    BY <1>3, <1>5 DEF P!Blt
  <2>3. QED
    BY <1>1, <1>2, <1>3, <2>1, <2>2
<1>6. CASE d.magic
  <2>1. i = submitted + 1 /\ submitted' = i
    <3>1. i > submitted
      BY <1>2, <1>6
    <3>2. i \in Nat /\ submitted \in Nat
      BY <1>1
    <3>3. QED
      BY <1>3, <1>4, <3>1, <3>2
  <2> DEFINE copied == [d EXCEPT !.magic = FALSE, !.done = "copied"]
             dropped == [d EXCEPT !.magic = FALSE, !.done = "dropped"]
  <2>2. /\ copied \in DmaBuffer /\ copied.src = d.src /\ copied.frame = d.frame
        /\ copied.magic = FALSE /\ copied.done = "copied"
    BY <1>1 DEF DmaBuffer
  <2>3. /\ dropped \in DmaBuffer /\ dropped.src = d.src /\ dropped.frame = d.frame
        /\ dropped.magic = FALSE /\ dropped.done = "dropped"
    BY <1>1 DEF DmaBuffer
  <2>4. \/ dma' = [dma EXCEPT ![i].magic = FALSE, ![i].done = "copied"] /\ P!Copy(P!ExecuteBlt, f)
        \/ dma' = [dma EXCEPT ![i].magic = FALSE, ![i].done = "dropped"] /\ target' = target
    BY <1>3, <1>6 DEF P!Blt
  <2>5. /\ [dma EXCEPT ![i].magic = FALSE, ![i].done = "copied"] = [dma EXCEPT ![i] = copied]
        /\ [dma EXCEPT ![i].magic = FALSE, ![i].done = "dropped"] = [dma EXCEPT ![i] = dropped]
    BY <1>1
  <2> HIDE DEF copied, dropped
  <2>6. QED
    BY <1>1, <1>2, <1>3, <2>1, <2>2, <2>3, <2>4, <2>5
<1>7. QED
  BY <1>5, <1>6

LEMMA SubmitStep ==
  ASSUME PresentInv, NEW i \in DOMAIN dma, P!SubmitCommand(i)
  PROVE  PresentInv'
<1> DEFINE f == drawn[dma[i].src]
           n == Len(dma)
<1>1. /\ i \in 1..n /\ dma[i] \in DmaBuffer /\ f \in Nat /\ dma[i].frame <= f /\ f <= frame
      /\ geo' = geo /\ drawn' = drawn /\ ready' = ready /\ frame' = frame
  BY SubmitFacts
<1>2. /\ frame \in Nat /\ drawn \in [Buffers -> Nat] /\ dma \in Seq(DmaBuffer)
      /\ n \in Nat /\ submitted \in 0..n /\ Laid
      /\ \A c \in Buffers : drawn[c] <= frame
      /\ ready # NoBuffer => Newer(ready)
  BY DEF PresentInv, PresentTypeOK, FramesFit
<1>3. CASE UNCHANGED <<dma, target, submitted>>
  <2>1. ready' # NoBuffer => Newer(ready)'
    BY <1>1, <1>2 DEF Newer
  <2>2. QED
    BY <1>1, <1>2, <1>3, <2>1, StillPresentInv
<1>4. ASSUME i = submitted + 1, submitted' = i,
             NEW e \in DmaBuffer, dma' = [dma EXCEPT ![i] = e],
             e.src = dma[i].src, e.frame = dma[i].frame, e.magic = FALSE,
             \/ e.done = "copied" /\ P!Copy(P!ExecuteBlt, f)
             \/ e.done = "dropped" /\ target' = target
      PROVE  PresentInv'
  <2>1. /\ dma' \in Seq(DmaBuffer) /\ Len(dma') = n /\ dma'[i] = e
        /\ \A j \in 1..n : j # i => dma'[j] = dma[j]
    BY <1>1, <1>2, <1>4
  <2>2. Screened(P!ExecuteBlt, f)
    BY <1>4 DEF Screened
  <2>3. /\ \A t \in target' : t.frame \in Nat /\ t.frame <= frame
        /\ \A t, u \in target' : t.at = u.at => t.frame = u.frame
        /\ P!PixelsInPlace'
    BY <1>1, <2>2, CopyInv
  <2>4. PresentTypeOK'
    BY <1>1, <1>2, <1>4, <2>1, <2>3 DEF PresentTypeOK, Laid
  <2>5. FramesFit'
    <3>1. \A j \in 1..n : dma'[j].frame <= drawn'[dma'[j].src]
      BY <1>1, <1>4, <2>1 DEF PresentInv, FramesFit
    <3>2. ready' # NoBuffer => Newer(ready)'
      BY <1>1, <1>2 DEF Newer
    <3>3. QED
      BY <1>1, <1>2, <2>1, <2>3, <3>1, <3>2 DEF FramesFit
  <2>6. MagicFits'
    <3>1. \A j \in 1..n : j # i => (j > submitted) = (j > i)
      BY <1>1, <1>2, <1>4
    <3>2. e.magic = (i > i)
      <4>1. (i > i) = FALSE
        BY <1>1
      <4>2. QED
        BY <1>4, <4>1
    <3>3. QED
      BY <1>4, <2>1, <3>1, <3>2 DEF PresentInv, MagicFits
  <2>7. P!LastPresentWins'
    <3> SUFFICES ASSUME i = n, e.done = "copied", NEW t \in target', t.at \in P!Bytes(P!ExecuteBlt)'
                 PROVE  t.frame >= e.frame
      BY <1>4, <2>1 DEF P!LastPresentWins
    <3>1. P!Copy(P!ExecuteBlt, f)
      BY <1>4
    <3>2. P!Bytes(P!ExecuteBlt)' = P!Bytes(P!ExecuteBlt)
      BY <1>1 DEF P!Bytes, P!ExecuteBlt, P!Clamp, P!Rows, P!Row, P!Fits
    <3>3. t.frame = f
      BY <3>1, <3>2, CopyFacts
    <3>4. QED
      BY <1>1, <1>4, <3>3 DEF DmaBuffer
  <2>8. QED
    BY <2>3, <2>4, <2>5, <2>6, <2>7 DEF PresentInv
<1>5. QED
  BY <1>3, <1>4, SubmitFacts

LEMMA NextPresentInv == PresentInv /\ [P!Next]_(P!vars) => PresentInv'
<1> SUFFICES ASSUME PresentInv, [P!Next]_(P!vars) PROVE PresentInv'
  OBVIOUS
<1>1. QED
  BY PresentStep, QuietStep, SubmitStep, DrawStep DEF P!Next

(* A descriptor is consumed once, a back buffer never goes behind the       *)
(* frame recorded for it, and the bytes on the screen are in place.         *)
THEOREM PresentInvHolds ==
  ASSUME P!PresentConstants
  PROVE  P!Spec => []PresentInv
<1>1. P!Init => PresentInv
  BY InitPresentInv
<1>2. QED
  BY <1>1, NextPresentInv, PTL DEF P!Spec

(* ExecuteBlt_ and Present put every byte they copy in its place within     *)
(* both surfaces, for all sizes, corners and alignments (Ddi.c:622).        *)
THEOREM PixelsInPlaceHolds ==
  ASSUME P!PresentConstants
  PROVE  P!Spec => []P!PixelsInPlace
<1>1. PresentInv => P!PixelsInPlace
  BY DEF PresentInv
<1>2. QED
  BY <1>1, PresentInvHolds, PTL

(* Once all is submitted the last frame presented is what is shown, however *)
(* often buffers are submitted again (Ddi.c:884).                           *)
THEOREM LastPresentWinsHolds ==
  ASSUME P!PresentConstants
  PROVE  P!Spec => []P!LastPresentWins
<1>1. PresentInv => P!LastPresentWins
  BY DEF PresentInv
<1>2. QED
  BY <1>1, PresentInvHolds, PTL

(* The screen goes back to an older frame only while a later present is     *)
(* still to be submitted, or from a frame nobody presented.                 *)
THEOREM OlderOnlyBetweenHolds ==
  ASSUME P!PresentConstants
  PROVE  P!Spec => P!OlderOnlyBetween
<1> DEFINE Older == \A t \in target, u \in target' :
                      (t.at = u.at /\ u.frame < t.frame) =>
                         \/ submitted' < Len(dma)
                         \/ t.frame > dma[Len(dma)].frame
<1>1. ASSUME PresentInv, target' = target PROVE Older
  BY <1>1 DEF PresentInv, FramesFit, PresentTypeOK
<1>2. ASSUME PresentInv, P!Present PROVE Older
  <2>1. \A u \in target' : u \in target \/ u.frame = frame
    BY <1>2, CopyFacts DEF P!Present, PresentInv, FramesFit, Newer
  <2>2. \A t \in target : t.frame \in Nat /\ t.frame <= frame
    BY <1>2 DEF PresentInv, FramesFit, PresentTypeOK
  <2>3. frame \in Nat
    BY <1>2 DEF PresentInv, PresentTypeOK
  <2>4. \A t, u \in target : t.at = u.at => t.frame = u.frame
    BY <1>2 DEF PresentInv, FramesFit
  <2>5. QED
    BY <2>1, <2>2, <2>3, <2>4
<1>3. ASSUME PresentInv, NEW i \in DOMAIN dma, P!SubmitCommand(i) PROVE Older
  <2> DEFINE f == drawn[dma[i].src]
             n == Len(dma)
  <2>1. i \in 1..n /\ dma[i] \in DmaBuffer /\ f \in Nat /\ dma[i].frame <= f /\ n \in Nat
    <3>1. n \in Nat
      BY <1>3 DEF PresentInv, PresentTypeOK
    <3>2. QED
      BY <1>3, <3>1, SubmitFacts
  <2>2. CASE submitted' = i /\ P!Copy(P!ExecuteBlt, f)
    <3>1. \A t \in target : t.frame \in Nat
      BY <1>3 DEF PresentInv, PresentTypeOK
    <3>2. \A u \in target' : u \in target \/ u.frame = f
      BY <2>2, CopyFacts
    <3>3. \A t, u \in target : t.at = u.at => t.frame = u.frame
      BY <1>3 DEF PresentInv, FramesFit
    <3>4. dma[i].frame \in Nat
      BY <2>1 DEF DmaBuffer
    <3> HIDE DEF f, n
    <3>5. CASE i < n
      BY <2>2, <3>5 DEF n
    <3>6. CASE i = n
      BY <2>1, <3>1, <3>2, <3>3, <3>4, <3>6 DEF n
    <3>7. QED
      BY <2>1, <3>5, <3>6
  <2>3. CASE target' = target
    BY <1>1, <1>3, <2>3
  <2>4. QED
    BY <1>3, <2>2, <2>3, SubmitFacts
<1>4. PresentInv /\ [P!Next]_(P!vars) => [Older]_(P!vars)
  <2> SUFFICES ASSUME PresentInv, P!Next PROVE Older
    OBVIOUS
  <2>1. CASE \/ P!PresentUnresolved \/ \E b \in Buffers : P!Draw(b)
             \/ \E s \in Buffers \cup {NoBuffer} : P!Residency(s)
    BY <1>1, <2>1 DEF P!PresentUnresolved, P!Draw, P!Residency
  <2>2. QED
    BY <1>2, <1>3, <2>1 DEF P!Next
<1>5. QED
  BY <1>4, PresentInvHolds, PTL DEF P!Spec, P!OlderOnlyBetween
=============================================================================
