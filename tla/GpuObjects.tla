----------------------------- MODULE GpuObjects -----------------------------
(***************************************************************************)
(* The objects the escapes make (KMD/WinMaliBo.c, WinMaliVm.c,             *)
(* WinMaliGroup.c, the handlers of WinMaliEscape.c) and the devices that   *)
(* own them (WinMaliDdi.c).  A table's spin lock is held for one step; a   *)
(* handler that works on an object between a Get and its Put is several.   *)
(*                                                                         *)
(* Handles grow and are never used again, so an object is its handle.      *)
(* The rundown of sync objects is in SyncObj, AS slots are in AsSlots; a   *)
(* page table here says which BO each address of a VM translates to.       *)
(* Handlers that refuse their arguments change nothing and are left out.   *)
(***************************************************************************)
EXTENDS Integers, FiniteSets, SequencesExt

CONSTANTS
    Threads,        \* threads of escape callers
    Devices,        \* dxgk devices, each in a process of its own
    MaxBo, MaxVm, MaxGroup,   \* bounds: handles given out
    UserVas,        \* addresses the UMD maps its BOs at
    KmdVaTop,       \* bound: pages of the window KmdVaNext grows into
    Builders,       \* bound: devices that make VMs, heaps and groups, not only BOs
    ChunkCounts,    \* InitialChunkCount of a tiler heap
    HeapPagesMax,   \* the cap on it (16 in the code)
    None

ASSUME ObjAssumption ==
    /\ {MaxBo, MaxVm, MaxGroup, KmdVaTop, HeapPagesMax} \subseteq Nat
    /\ ChunkCounts \subseteq Nat /\ Builders \subseteq Devices
    /\ UserVas \cap (0..KmdVaTop) = {}
    /\ None \notin Devices /\ IsFiniteSet(Threads)

VARIABLES
    dev,      \* devices: none, live, dying, gone
    bo,       \* BoTable and the BOs freed
    vm,       \* VmTable and the VMs freed: KmdVaNext, RefCount
    grp,      \* GroupTable: the group's owner, or None
    pt,       \* the page table of each VM: address -> BO
    maps,     \* user mappings: <<BO, process>>
    heaps,    \* tiler heaps given to a UMD, while their BOs and VM exist
    th,       \* what each thread is doing
    crowded   \* VMs on which two heaps were made at once

vars == <<dev, bo, vm, grp, pt, maps, heaps, th, crowded>>
objects == <<dev, grp, crowded>>

Bos     == 1..MaxBo
VmIds   == 1..MaxVm
Groups  == 1..MaxGroup
KmdVas  == 1..KmdVaTop
Unmapped == 0
Where   == {"none", "listed", "freed"}

NoBo == [at |-> "none", owner |-> None, refs |-> 0, lock |-> None,
         va |-> None, by |-> None, next |-> 0, told |-> FALSE]
NoVm == [at |-> "none", owner |-> None, refs |-> 0, kmdVaNext |-> 1]
NoMap == [a \in UserVas \cup KmdVas |-> Unmapped]
Resting == [pc |-> "idle", dev |-> None, h |-> 0, v |-> 0, va |-> Unmapped,
            left |-> 0, vas |-> <<>>, bos |-> <<>>]

TypeOK ==
    /\ dev \in [Devices -> {"none", "live", "dying", "gone"}]
    /\ bo \in [Bos -> [at: Where, owner: Devices \cup {None}, refs: Int,
                       lock: Threads \cup {None}, va: Devices \cup {None},
                       by: Devices \cup {None}, next: 0..KmdVaTop,
                       told: BOOLEAN]]
    /\ vm \in [VmIds -> [at: Where, owner: Devices \cup {None}, refs: Int,
                         kmdVaNext: Nat]]
    /\ grp \in [Groups -> Devices \cup {None}]
    /\ pt \in [VmIds -> [UserVas \cup KmdVas -> 0..MaxBo]]
    /\ maps \subseteq Bos \X Devices
    /\ crowded \subseteq VmIds
    /\ \A h \in Bos : bo[h].at = "none" => \A g \in Bos : g > h => bo[g].at = "none"

Init ==
    /\ dev = [d \in Devices |-> "none"]
    /\ bo = [h \in Bos |-> NoBo]
    /\ vm = [v \in VmIds |-> NoVm]
    /\ grp = [g \in Groups |-> None]
    /\ pt = [v \in VmIds |-> NoMap]
    /\ maps = {} /\ heaps = {} /\ crowded = {}
    /\ th = [t \in Threads |-> Resting]

-----------------------------------------------------------------------------
(* The tables. *)

Unused(table) == {i \in DOMAIN table : table[i].at = "none"}
Listed(table) == {i \in DOMAIN table : table[i].at = "listed"}
Owned(table, d) == {i \in Listed(table) : table[i].owner = d}
\* A BO whose handle an escape returned; those of a heap stay with the driver.
Known == {h \in Listed(bo) : bo[h].told}
NextBo == Min(Unused(bo))

BoNew(d) == [NoBo EXCEPT !.at = "listed", !.owner = d, !.refs = 1]

\* A user mapping goes with its BO only in its own process, else it is leaked.
BoGone(b, d) ==
    [NoBo EXCEPT !.at = "freed", !.va = IF b.va = d THEN None ELSE b.va,
                 !.by = IF b.va \in {None, d} THEN None ELSE d]
VmGone == [NoVm EXCEPT !.at = "freed"]

BoFree(H, d) ==
    /\ bo' = [h \in Bos |-> IF h \in H THEN BoGone(bo[h], d) ELSE bo[h]]
    /\ heaps' = {p \in heaps : Range(p.bos) \cap H = {}}
    /\ maps' = {m \in maps : ~(m[1] \in H /\ bo[m[1]].va = d)}

VmFree(V) ==
    /\ vm' = [v \in VmIds |-> IF v \in V THEN VmGone ELSE vm[v]]
    /\ pt' = [v \in VmIds |-> IF v \in V THEN NoMap ELSE pt[v]]
    /\ heaps' = {p \in heaps : p.vm \notin V}

Get(table, i) == [table EXCEPT ![i].refs = @ + 1]
Put(table, i) == [table EXCEPT ![i].refs = @ - 1]

Call(t, d)  == th[t].pc = "idle" /\ dev[d] = "live"
Enter(t, s) == th' = [th EXCEPT ![t] = s]
Return(t)   == th' = [th EXCEPT ![t] = Resting]
At(t, pc)   == th[t].pc = pc
HoldsBo(t)  == th[t].pc \in {"query", "mapwait", "map", "bindmap", "stamp"}
HoldsVm(t)  == th[t].pc \in {"bind", "bindmap", "alloc", "get", "stamp"}
Busy(d)     == \E t \in Threads : th[t].dev = d

-----------------------------------------------------------------------------
(* Devices. *)

CreateDevice(d) ==
    /\ dev[d] = "none"
    /\ dev' = [dev EXCEPT ![d] = "live"]
    /\ UNCHANGED <<bo, vm, grp, pt, maps, heaps, th, crowded>>

\* dxgkrnl destroys a device when no call on it is left; its process may be
\* gone, but the rundown runs in it.
DestroyDevice(t, d) ==
    /\ Call(t, d) /\ ~Busy(d)
    /\ dev' = [dev EXCEPT ![d] = "dying"]
    /\ grp' = [g \in Groups |-> IF grp[g] = d THEN None ELSE grp[g]]
    /\ Enter(t, [Resting EXCEPT !.pc = "bos", !.dev = d])
    /\ UNCHANGED <<bo, vm, pt, maps, heaps, crowded>>

BoRundownOwner(t) ==
    /\ At(t, "bos")
    /\ BoFree(Owned(bo, th[t].dev), th[t].dev)
    /\ th' = [th EXCEPT ![t].pc = "vms"]
    /\ UNCHANGED <<objects, vm, pt>>

\* The last of the rundown: the VMs of the device, with their tables and slots.
VmRundownOwner(t) ==
    LET d == th[t].dev IN
    /\ At(t, "vms")
    /\ VmFree(Owned(vm, d))
    /\ dev' = [dev EXCEPT ![d] = "gone"]
    /\ Return(t)
    /\ UNCHANGED <<bo, grp, maps, crowded>>

-----------------------------------------------------------------------------
(* Escapes that touch one table. *)

GroupCreate(t, d) ==
    /\ Call(t, d)
    /\ \E g \in Groups :
         /\ grp[g] = None
         /\ grp' = [grp EXCEPT ![g] = d]
    /\ UNCHANGED <<dev, bo, vm, pt, maps, heaps, th, crowded>>

GroupDestroy(t, d, g) ==
    /\ Call(t, d) /\ grp[g] = d
    /\ grp' = [grp EXCEPT ![g] = None]
    /\ UNCHANGED <<dev, bo, vm, pt, maps, heaps, th, crowded>>

VmCreate(t, d) ==
    /\ Call(t, d) /\ Unused(vm) # {}
    /\ vm' = [vm EXCEPT ![Min(Unused(vm))] =
                [NoVm EXCEPT !.at = "listed", !.owner = d, !.refs = 1]]
    /\ UNCHANGED <<objects, heaps, bo, pt, maps, th>>

VmDestroy(t, d, v) ==
    /\ Call(t, d) /\ v \in Listed(vm)
    /\ VmFree({v})
    /\ UNCHANGED <<objects, bo, maps, th>>

BoCreate(t, d) ==
    /\ Call(t, d) /\ Unused(bo) # {}
    /\ bo' = [bo EXCEPT ![NextBo] = [BoNew(d) EXCEPT !.told = TRUE]]
    /\ UNCHANGED <<objects, heaps, vm, pt, maps, th>>

\* Any device of the adapter may name any known BO; RefCount and Lock are ignored.
BoDestroy(t, d, h) ==
    /\ Call(t, d) /\ h \in Known
    /\ BoFree({h}, d)
    /\ UNCHANGED <<objects, vm, pt, th>>

\* BoQueryInfo, BoSetLabel, BoMmapOffset: between a Get and a Put.
BoQueryInfo(t, d, h) ==
    /\ Call(t, d) /\ h \in Known
    /\ bo' = Get(bo, h)
    /\ Enter(t, [Resting EXCEPT !.pc = "query", !.dev = d, !.h = h])
    /\ UNCHANGED <<objects, heaps, vm, pt, maps>>

BoPut(t) ==
    /\ At(t, "query") /\ bo[th[t].h].at = "listed"
    /\ bo' = Put(bo, th[t].h)
    /\ Return(t)
    /\ UNCHANGED <<objects, heaps, vm, pt, maps>>

\* The object a step is about to touch was freed after it was looked up.  What
\* the code then reads is anybody's; it still puts what it holds of the rest.
Stray(t) ==
    LET h == th[t].h  v == th[t].v IN
    /\ \/ HoldsBo(t) /\ bo[h].at = "freed"
       \/ HoldsVm(t) /\ vm[v].at = "freed"
    /\ bo' = IF HoldsBo(t) /\ bo[h].at = "listed" THEN Put(bo, h) ELSE bo
    /\ vm' = IF HoldsVm(t) /\ vm[v].at = "listed" THEN Put(vm, v) ELSE vm
    /\ Return(t)
    /\ UNCHANGED <<objects, heaps, pt, maps>>

-----------------------------------------------------------------------------
(* BoMapCpu: Get, then the BO's Lock, then one user mapping per BO. *)

BoMapCpu(t, d, h) ==
    /\ Call(t, d) /\ h \in Known
    /\ bo' = Get(bo, h)
    /\ Enter(t, [Resting EXCEPT !.pc = "mapwait", !.dev = d, !.h = h])
    /\ UNCHANGED <<objects, heaps, vm, pt, maps>>

MapLock(t) ==
    LET h == th[t].h IN
    /\ At(t, "mapwait") /\ bo[h].at = "listed" /\ bo[h].lock = None
    /\ bo' = [bo EXCEPT ![h].lock = t]
    /\ th' = [th EXCEPT ![t].pc = "map"]
    /\ UNCHANGED <<objects, heaps, vm, pt, maps>>

\* Mapped in this process already, mapped in another (EBUSY), mapped now, or
\* no mapping to be had: every way out unlocks and puts.
Unlocked(h, va) ==
    bo' = [bo EXCEPT ![h].lock = None, ![h].refs = @ - 1, ![h].va = va]
MapDone_Remaps(t) ==
    LET h == th[t].h  d == th[t].dev IN
    /\ At(t, "map") /\ bo[h].at = "listed"
    /\ \/ Unlocked(h, d) /\ maps' = maps \cup {<<h, d>>}
       \/ Unlocked(h, bo[h].va) /\ maps' = maps
    /\ Return(t)
    /\ UNCHANGED <<objects, heaps, vm, pt>>
MapDone_KeepsRef(t) ==
    LET h == th[t].h  d == th[t].dev IN
    /\ At(t, "map") /\ bo[h].at = "listed"
    /\ \/ /\ bo[h].va = None
          /\ Unlocked(h, d) /\ maps' = maps \cup {<<h, d>>}
       \/ bo' = [bo EXCEPT ![h].lock = None] /\ maps' = maps
    /\ Return(t)
    /\ UNCHANGED <<objects, heaps, vm, pt>>
MapDone(t) ==
    LET h == th[t].h  d == th[t].dev IN
    /\ At(t, "map") /\ bo[h].at = "listed"
    /\ \/ /\ bo[h].va = None
          /\ Unlocked(h, d) /\ maps' = maps \cup {<<h, d>>}
       \/ Unlocked(h, bo[h].va) /\ maps' = maps
    /\ Return(t)
    /\ UNCHANGED <<objects, heaps, vm, pt>>

-----------------------------------------------------------------------------
(* VmBind: a VM is held while any number of operations run on it, the      *)
(* first that fails ends it and the ones before it stay.                   *)

VmBind(t, d, v) ==
    /\ Call(t, d) /\ v \in Listed(vm)
    /\ vm' = Get(vm, v)
    /\ Enter(t, [Resting EXCEPT !.pc = "bind", !.dev = d, !.v = v])
    /\ UNCHANGED <<objects, heaps, bo, pt, maps>>

BindMapGet(t, h, a) ==
    /\ At(t, "bind") /\ vm[th[t].v].at = "listed" /\ h \in Known
    /\ bo' = Get(bo, h)
    /\ th' = [th EXCEPT ![t].pc = "bindmap", ![t].h = h, ![t].va = a]
    /\ UNCHANGED <<objects, heaps, vm, pt, maps>>

\* VmMap, or an offset or size it refuses; the BO is put either way.
BindMapPut(t) ==
    LET h == th[t].h  v == th[t].v IN
    /\ At(t, "bindmap") /\ vm[v].at = "listed" /\ bo[h].at = "listed"
    /\ bo' = Put(bo, h)
    /\ \/ /\ pt' = [pt EXCEPT ![v][th[t].va] = h]
          /\ th' = [th EXCEPT ![t].pc = "bind", ![t].h = 0, ![t].va = Unmapped]
          /\ vm' = vm
       \/ /\ pt' = pt
          /\ vm' = Put(vm, v)
          /\ Return(t)
    /\ UNCHANGED <<objects, heaps, maps>>

BindUnmap(t, a) ==
    /\ At(t, "bind") /\ vm[th[t].v].at = "listed"
    /\ pt' = [pt EXCEPT ![th[t].v][a] = Unmapped]
    /\ UNCHANGED <<objects, heaps, bo, vm, maps, th>>

\* The operations are done, or one named a BO that is not there.
BindEnd(t) ==
    /\ At(t, "bind") /\ vm[th[t].v].at = "listed"
    /\ vm' = Put(vm, th[t].v)
    /\ Return(t)
    /\ UNCHANGED <<objects, heaps, bo, pt, maps>>

-----------------------------------------------------------------------------
(* TilerHeapCreate: a context page and a chain of chunks, each a BO of its *)
(* own mapped at KmdVaNext, each chunk linked to the one before it.  No    *)
(* lock covers KmdVaNext.                                                  *)

MakingHeap(v) == {t \in Threads : th[t].v = v /\ th[t].pc \in {"alloc", "get", "stamp"}}

TilerHeapCreate(t, d, v) ==
    /\ Call(t, d) /\ v \in Listed(vm)
    /\ \E n \in ChunkCounts \ {0} :
         Enter(t, [Resting EXCEPT !.pc = "alloc", !.dev = d, !.v = v,
                                  !.left = Min({n, HeapPagesMax}) + 1])
    /\ vm' = Get(vm, v)
    /\ crowded' = IF MakingHeap(v) # {} THEN crowded \cup {v} ELSE crowded
    /\ UNCHANGED <<dev, bo, grp, pt, maps, heaps>>

\* HeapAllocMapped: the BO is made for the address KmdVaNext holds now.
HeapAlloc(t) ==
    LET v == th[t].v IN
    /\ At(t, "alloc") /\ vm[v].at = "listed"
    /\ Unused(bo) # {} /\ vm[v].kmdVaNext <= KmdVaTop
    /\ bo' = [bo EXCEPT ![NextBo] = BoNew(th[t].dev)]
    /\ th' = [th EXCEPT ![t].pc = "get", ![t].h = NextBo, ![t].va = vm[v].kmdVaNext]
    /\ UNCHANGED <<objects, heaps, vm, pt, maps>>

HeapMap(t) ==
    LET h == th[t].h  v == th[t].v IN
    /\ At(t, "get") /\ vm[v].at = "listed" /\ bo[h].at = "listed"
    /\ bo' = Get(bo, h)
    /\ pt' = [pt EXCEPT ![v][th[t].va] = h]
    /\ th' = [th EXCEPT ![t].pc = "stamp"]
    /\ UNCHANGED <<objects, heaps, vm, maps>>

\* No BO, no page table page (with the first pages of the BO mapped or not),
\* or no kernel mapping to stamp it through: the chunks already made stay, the
\* failed one does not, and its address is used again.
HeapFailed(t) ==
    LET h == th[t].h  v == th[t].v IN
    /\ th[t].pc \in {"alloc", "get"} /\ vm[v].at = "listed"
    /\ \/ At(t, "alloc") /\ UNCHANGED <<bo, pt, maps, heaps>>
       \/ /\ At(t, "get")
          /\ BoFree(IF bo[h].at = "listed" THEN {h} ELSE {}, th[t].dev)
          /\ pt' = pt
       \/ /\ At(t, "get") /\ bo[h].at = "listed"
          /\ BoFree({h}, th[t].dev)
          /\ \E left \in {h, Unmapped} : pt' = [pt EXCEPT ![v][th[t].va] = left]
    /\ vm' = Put(vm, v)
    /\ Return(t)
    /\ UNCHANGED objects

\* The header of a chunk links to the chunk before it.
ChunkLink_Never(t) == 0
ChunkLink(t) == IF Len(th[t].vas) <= 1 THEN 0 ELSE Last(th[t].vas)

\* The context adds to KmdVaNext, a chunk sets it past its own address.
Advance(t) == IF th[t].vas = <<>> THEN vm[th[t].v].kmdVaNext + 1 ELSE th[t].va + 1

HeapStamp(t) ==
    LET h == th[t].h  v == th[t].v
        vas == Append(th[t].vas, th[t].va)
        bos == Append(th[t].bos, h) IN
    /\ At(t, "stamp") /\ vm[v].at = "listed" /\ bo[h].at = "listed"
    /\ bo' = [bo EXCEPT ![h].refs = @ - 1, ![h].next = ChunkLink(t)]
    /\ vm' = [vm EXCEPT ![v].kmdVaNext = Advance(t),
                        ![v].refs = IF th[t].left = 1 THEN @ - 1 ELSE @]
    /\ IF th[t].left = 1
         THEN heaps' = heaps \cup {[vm |-> v, vas |-> vas, bos |-> bos]} /\ Return(t)
         ELSE /\ heaps' = heaps
              /\ th' = [th EXCEPT ![t].pc = "alloc", ![t].h = 0, ![t].va = Unmapped,
                                  ![t].left = @ - 1, ![t].vas = vas, ![t].bos = bos]
    /\ UNCHANGED <<dev, grp, pt, maps, crowded>>

-----------------------------------------------------------------------------
OfDevice(t, d) ==
    \/ DestroyDevice(t, d) \/ BoCreate(t, d)
    \/ \E h \in Bos : BoDestroy(t, d, h) \/ BoMapCpu(t, d, h)
    \/ /\ d \in Builders
       /\ \/ GroupCreate(t, d) \/ VmCreate(t, d)
          \/ \E g \in Groups : GroupDestroy(t, d, g)
          \/ \E v \in VmIds : VmDestroy(t, d, v) \/ VmBind(t, d, v) \/ TilerHeapCreate(t, d, v)
          \/ \E h \in Bos : BoQueryInfo(t, d, h)

InCall(t) ==
    \/ BoRundownOwner(t) \/ VmRundownOwner(t)
    \/ BoPut(t) \/ Stray(t) \/ MapLock(t) \/ MapDone(t)
    \/ \E h \in Bos, a \in UserVas : BindMapGet(t, h, a)
    \/ BindMapPut(t) \/ BindEnd(t)
    \/ \E a \in UserVas : BindUnmap(t, a)
    \/ HeapAlloc(t) \/ HeapMap(t) \/ HeapFailed(t) \/ HeapStamp(t)

Next ==
    \/ \E d \in Devices : CreateDevice(d)
    \/ \E t \in Threads : InCall(t) \/ \E d \in Devices : OfDevice(t, d)

Spec == Init /\ [][Next]_vars

-----------------------------------------------------------------------------
(* Every handler puts what it got, on every way out: an object in a table  *)
(* has one reference of its own and one of each call that holds it.        *)
BoHolders(h) == {t \in Threads : HoldsBo(t) /\ th[t].h = h}
VmHolders(v) == {t \in Threads : HoldsVm(t) /\ th[t].v = v}
RefsBalanced ==
    /\ \A h \in Listed(bo) : bo[h].refs = 1 + Cardinality(BoHolders(h))
    /\ \A v \in Listed(vm) : vm[v].refs = 1 + Cardinality(VmHolders(v))

(* What DestroyDevice leaves behind: nothing the device made is in a table,*)
(* whatever other devices were doing to it meanwhile.                      *)
NothingOutlivesDevice ==
    \A d \in Devices : dev[d] = "gone" =>
        /\ Owned(bo, d) = {} /\ Owned(vm, d) = {}
        /\ \A g \in Groups : grp[g] # d

(* What handlers on several threads do by handle keeps the tables sound.   *)
TablesSound == TypeOK /\ RefsBalanced /\ NothingOutlivesDevice

(* BoMapCpu and BoFree: a BO is mapped in one process, the one it records; *)
(* a mapping outlives its BO only if another process freed the BO.         *)
MappingFollowsBo ==
    \A m \in maps : LET b == bo[m[1]] IN
        /\ b.va = m[2]
        /\ b.at = "listed" \/ b.by # m[2]

(* TilerHeapCreate: the tiler walks from the last chunk through every      *)
(* chunk of the heap once and each address is backed by the BO made for it,*)
(* as long as the BOs and the VM live, whichever creations failed before.  *)
Intact(p) ==
    /\ IsInjective(p.vas)
    /\ \A i \in DOMAIN p.vas :
         /\ pt[p.vm][p.vas[i]] = p.bos[i]
         /\ bo[p.bos[i]].next = IF i <= 2 THEN 0 ELSE p.vas[i - 1]
HeapWalkable == \A p \in heaps : p.vm \notin crowded => Intact(p)
=============================================================================
