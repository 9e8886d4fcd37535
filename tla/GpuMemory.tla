----------------------------- MODULE GpuMemory -----------------------------
(***************************************************************************)
(* Who can reach a page of memory: the allocations of dxgkrnl              *)
(* (KMD/WinMaliAlloc.c), the paging operations VidMm has the driver do     *)
(* (WinMaliPaging.c), the BOs that wrap a resident allocation              *)
(* (WinMaliEscape.c, WinMaliBo.c), and the translations the GPU follows,   *)
(* in memory and in its TLBs (WinMaliMmu.c).                               *)
(*                                                                         *)
(* Each time VidMm makes an allocation resident it gives it pages that     *)
(* were nobody's, a "grant"; after UNMAP_APERTURE_SEGMENT the grant is     *)
(* taken: the pages may be anybody's.  A space is what an AS translates    *)
(* with: the bring-up AS (one address per aperture range), the VM of the   *)
(* UMD, and the dxgk context whose tables VidMm writes (two pages each,    *)
(* under different leaf tables, so a table page may be missing for one).   *)
(*                                                                         *)
(* The world outside the driver keeps its own rules: VidMm takes pages of  *)
(* no locked allocation and of none it left in a table or unflushed; a UMD *)
(* keeps an allocation locked (LockCb) while it has a BO over it or,       *)
(* by what the calls returned, a mapping of it, until it dies.             *)
(***************************************************************************)
EXTENDS Integers, FiniteSets

CONSTANTS
    Allocs,      \* allocations
    Bos,         \* BOs the UMD holds at one time
    Ranges,      \* bound: ranges of the aperture VidMm uses, of one allocation each
    ContextVas,  \* bound: pages of the context VidMm maps
    MaxGrants    \* bound: times an allocation is made resident

ASSUME MemAssumption ==
    MaxGrants \in Nat /\ Ranges \cup ContextVas \subseteq 1..2 /\ 0 \notin Allocs

VARIABLES
    ka,       \* WINMALI_KMD_ALLOCATION: Magic, ApertureMdl as a grant, GpuVa
    vid,      \* VidMm: the grant of each allocation, where, and its locks
    paging,   \* the operation of BuildPagingBuffer VidMm is at
    bound,    \* GpuMmuAsBound: FALSE when MmuInit failed, which StartDevice allows
    pt,       \* leaf entries in memory, by space and address
    leaf,     \* addresses whose leaf table the VM has allocated
    tlb,      \* what the GPU has cached of them
    stuck,    \* ASes whose AS_ACTIVE never clears
    bo,       \* BOs: the grant whose frames they name
    umd,      \* the UMD: alive, dead or gone, and the mappings it was told of
    given,    \* grants given
    taken,    \* grants taken back
    dirty,    \* VidMm wrote the context's tables and has not flushed since
    torn      \* a failed VmMap: addresses unflushed, grants left in the table

vars == <<ka, vid, paging, bound, pt, leaf, tlb, stuck, bo, umd, given, taken, dirty, torn>>
pages == <<given, taken, bound, dirty>>
hw == <<pt, tlb, leaf, torn>>

Spaces == {"aperture", "vm", "context"}
Addrs  == 1..2
Grants == 1..MaxGrants
Nothing == 0
None   == [a \in Addrs |-> Nothing]
NoOp   == [op |-> "none", ka |-> Nothing, grant |-> 0, at |-> 0]

TypeOK ==
    /\ ka \in [Allocs -> [live: {"no", "live", "freed"}, mdl: 0..MaxGrants, va: 0..2]]
    /\ vid \in [Allocs -> [grant: 0..MaxGrants, off: 0..2, locked: BOOLEAN]]
    /\ paging \in [op: {"none", "map", "unmap", "update", "flush"},
                   ka: Allocs \cup {Nothing}, grant: 0..MaxGrants, at: 0..2]
    /\ {pt, tlb} \subseteq [Spaces -> [Addrs -> 0..MaxGrants]]
    /\ leaf \subseteq Addrs /\ stuck \subseteq Spaces
    /\ bo \in [Bos -> 0..MaxGrants]
    /\ umd \in [at: {"alive", "dead", "gone"}, map: [Addrs -> 0..MaxGrants]]
    /\ {bound, dirty} \subseteq BOOLEAN
    /\ given \in 0..MaxGrants /\ taken \subseteq 1..given
    /\ torn \in [addrs: SUBSET Addrs, grants: SUBSET Grants]

Init ==
    /\ ka = [a \in Allocs |-> [live |-> "no", mdl |-> 0, va |-> 0]]
    /\ vid = [a \in Allocs |-> [grant |-> 0, off |-> 0, locked |-> FALSE]]
    /\ paging = NoOp /\ bound \in BOOLEAN /\ stuck = {} /\ leaf = {}
    /\ pt = [s \in Spaces |-> None] /\ tlb = pt
    /\ bo = [b \in Bos |-> Nothing]
    /\ umd = [at |-> "alive", map |-> None]
    /\ given = 0 /\ taken = {} /\ dirty = FALSE
    /\ torn = [addrs |-> {}, grants |-> {}]

-----------------------------------------------------------------------------
(* The GPU: it caches what it translates, and an AS may hang. *)

Translate(s, a) ==
    /\ tlb[s][a] = Nothing /\ pt[s][a] # Nothing
    /\ tlb' = [tlb EXCEPT ![s][a] = pt[s][a]]
    /\ UNCHANGED <<ka, vid, paging, pages, pt, leaf, torn, stuck, bo, umd>>

Stick(s) ==
    /\ s \notin stuck
    /\ stuck' = stuck \cup {s}
    /\ UNCHANGED <<ka, vid, paging, pages, hw, bo, umd>>

\* FLUSH_MEM, which a hung AS never takes; nobody looks at the status.
AsFlushMem(s) == IF s \in stuck THEN tlb ELSE [tlb EXCEPT ![s] = None]

-----------------------------------------------------------------------------
(* Allocations.  CreateAllocation makes a list of them or, short of pool,  *)
(* frees those it had made.                                                *)

Live(a) == ka[a].live = "live"
NewKa(live) == [live |-> live, mdl |-> 0, va |-> 0]

CreateAllocation ==
    /\ \E S \in SUBSET {a \in Allocs : ka[a].live = "no"} :
         \E live \in {"live", "freed"} :
           ka' = [a \in Allocs |-> IF a \in S THEN NewKa(live) ELSE ka[a]]
    /\ UNCHANGED <<vid, paging, pages, hw, stuck, bo, umd>>

\* dxgkrnl destroys what is neither resident nor in use.
DestroyAllocation(a) ==
    /\ Live(a) /\ vid[a].grant = 0 /\ paging.ka # a
    /\ ka' = [ka EXCEPT ![a].live = "freed"]
    /\ UNCHANGED <<vid, paging, pages, hw, stuck, bo, umd>>

-----------------------------------------------------------------------------
(* VidMm picks an operation; BuildPagingBuffer performs it at once, and    *)
(* then may ask for a bigger DMA buffer: VidMm comes back with the same.   *)

Free(off) == \A a \in Allocs : vid[a].off # off

Page(op, a, g, at) ==
    /\ paging = NoOp
    /\ paging' = [op |-> op, ka |-> a, grant |-> g, at |-> at]
    /\ UNCHANGED <<ka, vid, taken, bound, dirty, hw, stuck, bo, umd>>

MakeResident(a) ==
    /\ Live(a) /\ vid[a].grant = 0 /\ given < MaxGrants
    /\ given' = given + 1
    /\ \E off \in Ranges : Free(off) /\ Page("map", a, given', off)

Evict(a) ==
    /\ vid[a].grant # 0 /\ ~vid[a].locked /\ ~dirty
    /\ \A x \in Addrs : pt["context"][x] # vid[a].grant
    /\ Page("unmap", a, vid[a].grant, vid[a].off)
    /\ UNCHANGED given

UpdatePte(x) ==
    /\ \E g \in {0} \cup {vid[a].grant : a \in Allocs} :
         g # pt["context"][x] /\ Page("update", Nothing, g, x)
    /\ UNCHANGED given

Flush == dirty /\ Page("flush", Nothing, 0, 0) /\ UNCHANGED given

\* SetPtes_: nothing without a bound AS, else the entries and a flush.
SetPtes_NoFlush(off, g) ==
    IF bound THEN pt' = [pt EXCEPT !["aperture"][off] = g] /\ tlb' = tlb
             ELSE UNCHANGED <<pt, tlb>>
SetPtes(off, g) ==
    IF bound THEN /\ pt' = [pt EXCEPT !["aperture"][off] = g]
                  /\ tlb' = AsFlushMem("aperture")
             ELSE UNCHANGED <<pt, tlb>>

\* The allocation remembers its pages only when they could be mapped.
MapApertureSegment ==
    /\ paging.op = "map"
    /\ SetPtes(paging.at, paging.grant)
    /\ ka' = IF bound THEN [ka EXCEPT ![paging.ka].mdl = paging.grant,
                                      ![paging.ka].va = paging.at]
                      ELSE ka

UnmapApertureSegment_IfMapped ==
    /\ paging.op = "unmap"
    /\ ka' = ka
    /\ SetPtes(paging.at, Nothing)
UnmapApertureSegment ==
    /\ paging.op = "unmap"
    /\ ka' = [ka EXCEPT ![paging.ka].mdl = 0, ![paging.ka].va = 0]
    /\ SetPtes(paging.at, Nothing)

\* Tables of a dxgk context: an entry is written through the CPU.
UpdatePageTable ==
    /\ paging.op = "update"
    /\ pt' = [pt EXCEPT !["context"][paging.at] = paging.grant]
    /\ UNCHANGED <<ka, tlb>>

\* Every AS in use but the bring-up's.
FlushUserAsSlots ==
    [s \in Spaces |-> IF s = "aperture" THEN tlb[s] ELSE AsFlushMem(s)[s]]
FlushTlb ==
    /\ paging.op = "flush"
    /\ tlb' = FlushUserAsSlots
    /\ UNCHANGED <<ka, pt>>

\* Whatever the status was, VidMm is told SUCCESS and believes it.
Sanitized ==
    /\ vid' = IF paging.op \notin {"map", "unmap"} THEN vid
              ELSE [vid EXCEPT ![paging.ka].grant = IF paging.op = "map" THEN paging.grant ELSE 0,
                               ![paging.ka].off = IF paging.op = "map" THEN paging.at ELSE 0]
    /\ taken' = IF paging.op = "unmap" THEN taken \cup {paging.grant} ELSE taken
    /\ dirty' = ((paging.op = "update" \/ dirty) /\ paging.op # "flush")
    /\ paging' = NoOp

BuildPagingBuffer ==
    /\ MapApertureSegment \/ UnmapApertureSegment \/ UpdatePageTable \/ FlushTlb
    /\ \/ Sanitized
       \/ UNCHANGED <<vid, taken, dirty, paging>>      \* INSUFFICIENT_DMA_BUFFER
    /\ torn' = IF paging.op = "flush" /\ "vm" \notin stuck THEN [torn EXCEPT !.addrs = {}]
               ELSE torn
    /\ UNCHANGED <<given, bound, leaf, stuck, bo, umd>>

-----------------------------------------------------------------------------
(* The UMD. *)

Lock(a) ==
    /\ umd.at = "alive" /\ vid[a].grant # 0 /\ ~vid[a].locked /\ paging.ka # a
    /\ vid' = [vid EXCEPT ![a].locked = TRUE]
    /\ UNCHANGED <<ka, paging, pages, hw, stuck, bo, umd>>

Unlock(a) ==
    /\ umd.at = "alive" /\ vid[a].locked
    /\ vid[a].grant \notin {bo[b] : b \in Bos} \cup {umd.map[x] : x \in Addrs}
    /\ vid' = [vid EXCEPT ![a].locked = FALSE]
    /\ UNCHANGED <<ka, paging, pages, hw, stuck, bo, umd>>

\* EAGAIN without a stash; the BO takes a copy of the frame numbers.
BoFromAllocation(a, b) ==
    /\ umd.at = "alive" /\ vid[a].locked /\ bo[b] = Nothing
    /\ Live(a) /\ ka[a].mdl # 0
    /\ bo' = [bo EXCEPT ![b] = ka[a].mdl]
    /\ UNCHANGED <<ka, vid, paging, pages, hw, stuck, umd>>

\* The frames are not the BO's: they stay, and so do the entries that map them.
BoDestroy(b) ==
    /\ umd.at = "alive" /\ bo[b] # Nothing
    /\ bo' = [bo EXCEPT ![b] = Nothing]
    /\ UNCHANGED <<ka, vid, paging, pages, hw, stuck, umd>>

Written(n, g) == [pt EXCEPT !["vm"] = [x \in Addrs |-> IF x <= n THEN g ELSE @[x]]]

\* MAP: page by page; without memory for a leaf table it stops where it is,
\* leaves what it wrote and flushes nothing.
VmMap(b, n) ==
    /\ umd.at = "alive" /\ bo[b] # Nothing
    /\ \E k \in 0..n :
         /\ k = n \/ k + 1 \notin leaf
         /\ pt' = Written(k, bo[b])
         /\ leaf' = leaf \cup 1..k
         /\ IF k = n
              THEN /\ tlb' = AsFlushMem("vm")
                   /\ umd' = [umd EXCEPT !.map =
                                [x \in Addrs |-> IF x <= n THEN bo[b] ELSE @[x]]]
                   /\ torn' = [addrs |-> IF "vm" \in stuck THEN torn.addrs ELSE {},
                               grants |-> torn.grants]
              ELSE /\ torn' = [addrs |-> torn.addrs \cup 1..k,
                               grants |-> IF k > 0 THEN torn.grants \cup {bo[b]} ELSE torn.grants]
                   /\ UNCHANGED <<tlb, umd>>
    /\ UNCHANGED <<ka, vid, paging, pages, stuck, bo>>

\* UNMAP: allocates the tables of pages never mapped, or passes them by.
VmUnmap_LastStays(n) ==
    /\ umd.at = "alive"
    /\ pt' = Written(n - 1, Nothing)
    /\ \E more \in SUBSET ((1..n) \ leaf) : leaf' = leaf \cup more
    /\ tlb' = AsFlushMem("vm")
    /\ umd' = [umd EXCEPT !.map = [x \in Addrs |-> IF x <= n THEN Nothing ELSE @[x]]]
    /\ torn' = [torn EXCEPT !.addrs = IF "vm" \in stuck THEN @ ELSE {}]
    /\ UNCHANGED <<ka, vid, paging, pages, stuck, bo>>
VmUnmap(n) ==
    /\ umd.at = "alive"
    /\ pt' = Written(n, Nothing)
    /\ \E more \in SUBSET ((1..n) \ leaf) : leaf' = leaf \cup more
    /\ tlb' = AsFlushMem("vm")
    /\ umd' = [umd EXCEPT !.map = [x \in Addrs |-> IF x <= n THEN Nothing ELSE @[x]]]
    /\ torn' = [torn EXCEPT !.addrs = IF "vm" \in stuck THEN @ ELSE {}]
    /\ UNCHANGED <<ka, vid, paging, pages, stuck, bo>>

\* The process ends: its locks go first, the device and what it made later.
ProcessDies ==
    /\ umd.at = "alive"
    /\ umd' = [umd EXCEPT !.at = "dead"]
    /\ vid' = [a \in Allocs |-> [vid[a] EXCEPT !.locked = FALSE]]
    /\ UNCHANGED <<ka, paging, pages, hw, stuck, bo>>

\* BoRundownOwner and VmRundownOwner: VmTeardown disables the AS, which flushes
\* it first, and frees the tables.
DeviceRundown ==
    /\ umd.at = "dead"
    /\ umd' = [at |-> "gone", map |-> None]
    /\ bo' = [b \in Bos |-> Nothing]
    /\ pt' = Written(2, Nothing) /\ leaf' = {}
    /\ tlb' = AsFlushMem("vm")
    /\ torn' = [torn EXCEPT !.addrs = IF "vm" \in stuck THEN @ ELSE {}]
    /\ UNCHANGED <<ka, vid, paging, pages, stuck>>

-----------------------------------------------------------------------------
Gpu == \E s \in Spaces : Stick(s) \/ \E a \in Addrs : Translate(s, a)

VidMm ==
    \/ CreateAllocation \/ Flush \/ BuildPagingBuffer
    \/ \E a \in Allocs : DestroyAllocation(a) \/ MakeResident(a) \/ Evict(a)
    \/ \E x \in ContextVas : UpdatePte(x)

Umd ==
    \/ \E a \in Allocs : Lock(a) \/ Unlock(a) \/ \E b \in Bos : BoFromAllocation(a, b)
    \/ \E b \in Bos : BoDestroy(b) \/ \E n \in 1..2 : VmMap(b, n)
    \/ \E n \in 1..2 : VmUnmap(n)
    \/ ProcessDies \/ DeviceRundown

Next == Gpu \/ VidMm \/ Umd

Spec == Init /\ [][Next]_vars

-----------------------------------------------------------------------------
(* Map/UnmapApertureSegment and the sanitizer: between paging operations   *)
(* the allocation remembers the pages VidMm has it in and the aperture     *)
(* translates to them, also after an operation was done twice; with no AS  *)
(* to map through it remembers none.  Never does it remember taken pages.  *)
StashFollowsVidMm ==
    \A a \in Allocs :
        /\ ka[a].mdl \notin taken
        /\ paging.ka # a => ka[a].mdl = IF bound THEN vid[a].grant ELSE 0
        /\ paging.ka # a /\ ka[a].mdl # 0 => pt["aperture"][ka[a].va] = ka[a].mdl

(* Types, and what the driver remembers of VidMm's decisions.              *)
MemorySound == TypeOK /\ StashFollowsVidMm

(* VmMap, VmUnmap, SetPtes_, FLUSH_TLB: what the GPU has cached is what is *)
(* in the tables once a call has returned, but for an AS that hangs, pages *)
(* a failed VmMap rewrote, and tables VidMm is updating or has yet to flush.*)
TlbFollowsTables ==
    \A s \in Spaces, x \in Addrs :
        \/ tlb[s][x] \in {Nothing, pt[s][x]}
        \/ s \in stuck
        \/ s = "vm" /\ x \in torn.addrs
        \/ s = "context" /\ (dirty \/ paging.op = "update")

(* Eviction against the GPU: pages VidMm took back are out of the GPU's    *)
(* reach, and of every BO's, except through an AS that hangs, what a       *)
(* failed VmMap left, and the VM of a process that died, which is torn     *)
(* down after its allocations are released.                                *)
TakenOutOfReach ==
    /\ \A s \in Spaces, x \in Addrs : \A g \in {pt[s][x], tlb[s][x]} \cap taken :
        \/ s \in stuck
        \/ s = "vm" /\ (umd.at = "dead" \/ g \in torn.grants)
    /\ \A b \in Bos : bo[b] \in taken => umd.at = "dead"
=============================================================================
