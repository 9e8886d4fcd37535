--------------------------- MODULE GpuObjectsProofs ---------------------------
(***************************************************************************)
(* Proofs about GpuObjects: references balance and nothing outlives its    *)
(* device, a user mapping is where its BO says, and the chunks of a tiler  *)
(* heap stay linked and mapped; for every finite set of threads, every set *)
(* of devices and every number of handles, addresses and chunks.           *)
(***************************************************************************)
EXTENDS GpuObjects, FiniteSetTheorems, WellFoundedInduction, TLAPS

PCs   == {"idle", "bos", "vms", "query", "mapwait", "map", "bind", "bindmap",
          "alloc", "get", "stamp"}
BoRec == [at: Where, owner: Devices \cup {None}, refs: Int, lock: Threads \cup {None},
          va: Devices \cup {None}, by: Devices \cup {None}, next: 0..KmdVaTop, told: BOOLEAN]
VmRec == [at: Where, owner: Devices \cup {None}, refs: Int, kmdVaNext: Nat \ {0}]
Frame == [pc: PCs, dev: Devices \cup {None}, h: 0..MaxBo, v: 0..MaxVm,
          va: UserVas \cup KmdVas \cup {Unmapped}, left: Int,
          vas: Seq(KmdVas), bos: Seq(Bos)]
Heap  == [vm: VmIds, vas: Seq(KmdVas), bos: Seq(Bos)]

\* An object that was not made yet has nothing of its own.
Types ==
    /\ TypeOK
    /\ vm \in [VmIds -> VmRec]
    /\ th \in [Threads -> Frame]
    /\ heaps \subseteq Heap
    /\ \A h \in Bos : bo[h].at = "none" => bo[h] = NoBo
    /\ \A v \in VmIds : vm[v].at = "none" => vm[v] = NoVm

\* What a thread holds was made, and its device is alive, or is torn down by
\* that thread alone.
Rundown(t) == th[t].pc \in {"bos", "vms"}
Making(t)  == th[t].pc \in {"alloc", "get", "stamp"}
Fits(t) ==
    /\ th[t].pc = "idle" => th[t] = Resting
    /\ th[t].pc # "idle" =>
          th[t].dev \in Devices /\ dev[th[t].dev] = IF Rundown(t) THEN "dying" ELSE "live"
    /\ HoldsBo(t) \/ th[t].pc = "get" => th[t].h \in Bos /\ bo[th[t].h].at # "none"
    /\ HoldsVm(t) => th[t].v \in VmIds /\ vm[th[t].v].at # "none"
    /\ th[t].pc = "bindmap" => th[t].va \in UserVas
    /\ th[t].pc \in {"get", "stamp"} => th[t].va \in KmdVas

\* What a rundown has done so far.
Rundowns ==
    /\ \A t, u \in Threads : Rundown(t) /\ Rundown(u) /\ th[t].dev = th[u].dev => t = u
    /\ \A t \in Threads : Rundown(t) => \A g \in Groups : grp[g] # th[t].dev
    /\ \A t \in Threads : th[t].pc = "vms" => Owned(bo, th[t].dev) = {}

\* The BOs of a heap in the making are the thread's own, out of reach of every
\* escape; those of a heap that was given out are in no thread's hands.
Own(t) == IF th[t].pc \in {"get", "stamp"} THEN {th[t].h} ELSE {}
Mine(t) == Range(th[t].bos) \cup Own(t)
Reserved(h) == bo[h].at = "listed" /\ ~bo[h].told
Hands ==
    /\ \A t \in Threads : Making(t) =>
          /\ Own(t) \cap Range(th[t].bos) = {}
          /\ \A h \in Mine(t) : Reserved(h) /\ bo[h].owner = th[t].dev
          /\ \A u \in Threads : Making(u) /\ u # t => Mine(t) \cap Mine(u) = {}
    /\ \A p \in heaps :
          /\ vm[p.vm].at = "listed"
          /\ \A h \in Range(p.bos) : Reserved(h)
          /\ \A t \in Threads : Making(t) => Range(p.bos) \cap Mine(t) = {}

\* A chain of chunks below the address the next one gets.
Chain(v, vas, bos) ==
    /\ Len(vas) = Len(bos) /\ IsInjective(vas)
    /\ \A i \in 1..Len(vas) :
          /\ vas[i] < vm[v].kmdVaNext
          /\ pt[v][vas[i]] = bos[i]
          /\ bo[bos[i]].next = IF i <= 2 THEN 0 ELSE vas[i - 1]

\* On a VM where heaps are made one at a time the chains are sound, and the
\* maker has the address it works at to itself.
Chains ==
    /\ \A p \in heaps : p.vm \notin crowded => Chain(p.vm, p.vas, p.bos)
    /\ \A t \in Threads : Making(t) => Len(th[t].vas) = Len(th[t].bos)
    /\ \A t \in Threads : Making(t) /\ th[t].v \notin crowded /\ vm[th[t].v].at = "listed" =>
          /\ Chain(th[t].v, th[t].vas, th[t].bos)
          /\ th[t].pc \in {"get", "stamp"} => th[t].va = vm[th[t].v].kmdVaNext
          /\ th[t].pc = "stamp" => pt[th[t].v][th[t].va] = th[t].h
          /\ \A u \in Threads : Making(u) /\ th[u].v = th[t].v => u = t

ObjInv ==
    /\ Types /\ RefsBalanced /\ NothingOutlivesDevice /\ MappingFollowsBo
    /\ (\A t \in Threads : Fits(t)) /\ Rundowns /\ Hands /\ Chains

-----------------------------------------------------------------------------
(* The tables.                                                              *)

LEMMA TypeFacts ==
  ASSUME Types
  PROVE  /\ dev \in [Devices -> {"none", "live", "dying", "gone"}]
         /\ bo \in [Bos -> BoRec] /\ vm \in [VmIds -> VmRec]
         /\ grp \in [Groups -> Devices \cup {None}]
         /\ pt \in [VmIds -> [UserVas \cup KmdVas -> 0..MaxBo]]
         /\ maps \subseteq Bos \X Devices /\ crowded \subseteq VmIds
         /\ th \in [Threads -> Frame]
         /\ Listed(bo) \subseteq Bos /\ Listed(vm) \subseteq VmIds
  BY DEF Types, TypeOK, BoRec, VmRec, Listed

LEMMA Bounds ==
  /\ MaxBo \in Nat /\ MaxVm \in Nat /\ MaxGroup \in Nat /\ KmdVaTop \in Nat /\ HeapPagesMax \in Nat
  /\ Bos \subseteq Nat /\ VmIds \subseteq Nat /\ KmdVas \subseteq Nat
  /\ Bos \subseteq 0..MaxBo /\ VmIds \subseteq 0..MaxVm /\ KmdVas \subseteq 0..KmdVaTop
  /\ KmdVas \cap UserVas = {} /\ Unmapped \notin KmdVas /\ Unmapped \notin UserVas
  /\ Unmapped \in 0..MaxBo
  /\ None \notin Devices /\ IsFiniteSet(Threads)
  BY ObjAssumption DEF Bos, VmIds, KmdVas, Unmapped

LEMMA MinFacts ==
  ASSUME NEW S, S \subseteq Nat, S # {}
  PROVE  Min(S) \in S /\ \A x \in S : Min(S) <= x
<1> DEFINE R == OpToRel(<, Nat)
<1>1. IsWellFoundedOn(R, Nat)
  BY NatLessThanWellFounded
<1>2. \A x, y \in Nat : x < y => <<x, y>> \in R
  BY DEF OpToRel
<1> HIDE DEF R
<1>3. PICK x \in S : \A y \in S : ~(<<y, x>> \in R)
  BY <1>1, WFMin, Zenon
<1>4. \A y \in S : x <= y
  <2> TAKE y \in S
  <2>1. x \in Nat /\ y \in Nat
    OBVIOUS
  <2>2. ~(y < x)
    BY <2>1, <1>2, <1>3, Zenon
  <2>3. QED
    BY <2>1, <2>2
<1>5. QED
  BY <1>4, Zenon DEF Min

(* The handle BoCreate gives out was never used, and all below it were.     *)
LEMMA NextBoFacts ==
  ASSUME Types, Unused(bo) # {}
  PROVE  /\ NextBo \in Bos /\ bo[NextBo] = NoBo /\ bo[NextBo].at = "none"
         /\ \A h \in Bos : h < NextBo => bo[h].at # "none"
<1>1. DOMAIN bo = Bos
  BY TypeFacts
<1>2. Unused(bo) = {h \in Bos : bo[h].at = "none"}
  BY <1>1, Zenon DEF Unused
<1>3. NextBo \in Unused(bo) /\ \A x \in Unused(bo) : NextBo <= x
  BY <1>2, MinFacts, Bounds, Zenon DEF NextBo
<1>4. NextBo \in Bos /\ bo[NextBo].at = "none"
  BY <1>2, <1>3, Zenon
<1>5. bo[NextBo] = NoBo
  BY <1>4 DEF Types
<1>6. \A h \in Bos : h < NextBo => bo[h].at # "none"
  <2> SUFFICES ASSUME NEW h \in Bos, h < NextBo, bo[h].at = "none" PROVE FALSE
    OBVIOUS
  <2>1. NextBo <= h
    BY <1>2, <1>3, Zenon
  <2>2. QED
    BY <2>1, <1>4, Bounds
<1>7. QED
  BY <1>4, <1>5, <1>6

LEMMA NextVmFacts ==
  ASSUME Types, Unused(vm) # {}
  PROVE  Min(Unused(vm)) \in VmIds /\ vm[Min(Unused(vm))].at = "none"
<1>1. Unused(vm) = {v \in VmIds : vm[v].at = "none"}
  BY TypeFacts, Zenon DEF Unused
<1>2. QED
  BY <1>1, MinFacts, Bounds, Zenon

LEMMA NewRecords ==
  /\ NoBo \in BoRec /\ NoBo.refs = 0 /\ NoBo.va = None /\ ~NoBo.told /\ NoBo.at = "none"
  /\ NoVm \in VmRec /\ NoVm.at = "none" /\ NoVm.kmdVaNext = 1
  /\ Resting \in Frame /\ Resting.pc = "idle" /\ Resting.dev = None
  /\ Resting.vas = <<>> /\ Resting.bos = <<>>
<1>1. <<>> \in Seq(KmdVas) /\ <<>> \in Seq(Bos)
  OBVIOUS
<1>2. 0 \in 0..MaxBo /\ 0 \in 0..MaxVm /\ 0 \in 0..KmdVaTop
  BY Bounds
<1>3. NoBo \in BoRec /\ NoVm \in VmRec
  BY <1>2 DEF NoBo, NoVm, BoRec, VmRec, Where
<1>4. Resting \in Frame
  BY <1>1, <1>2 DEF Resting, Frame, PCs
<1>5. QED
  BY <1>3, <1>4 DEF NoBo, NoVm, Resting

LEMMA BoNewFacts ==
  ASSUME NEW d \in Devices
  PROVE  /\ BoNew(d) \in BoRec /\ BoNew(d).at = "listed" /\ BoNew(d).owner = d
         /\ BoNew(d).refs = 1 /\ ~BoNew(d).told /\ BoNew(d).va = None
<1>1. BoNew(d) = [NoBo EXCEPT !.at = "listed", !.owner = d, !.refs = 1]
  BY DEF BoNew
<1>2. BoNew(d).told = NoBo.told /\ BoNew(d).va = NoBo.va
  BY <1>1, NewRecords DEF BoRec
<1>3. BoNew(d).at = "listed" /\ BoNew(d).owner = d /\ BoNew(d).refs = 1
  BY <1>1, NewRecords DEF BoRec
<1>4. BoNew(d) \in BoRec
  <2>1. NoBo \in BoRec
    BY NewRecords
  <2>2. QED
    <3> DEFINE b == [NoBo EXCEPT !.at = "listed"]
               c == [b EXCEPT !.owner = d]
    <3>1. b \in BoRec
      BY <2>1 DEF BoRec, Where
    <3> HIDE DEF b
    <3>2. c \in BoRec
      BY <3>1 DEF BoRec
    <3> HIDE DEF c
    <3>3. [c EXCEPT !.refs = 1] \in BoRec
      BY <3>2 DEF BoRec
    <3>4. QED
      BY <1>1, <3>3 DEF b, c
<1>5. QED
  BY <1>2, <1>3, <1>4, NewRecords

LEMMA GoneFacts ==
  /\ VmGone \in VmRec /\ VmGone.at = "freed"
  /\ \A b \in BoRec, d \in Devices :
       /\ BoGone(b, d) \in BoRec /\ BoGone(b, d).at = "freed"
       /\ BoGone(b, d).va = IF b.va = d THEN None ELSE b.va
       /\ BoGone(b, d).by = IF b.va \in {None, d} THEN None ELSE d
<1>1. VmGone \in VmRec /\ VmGone.at = "freed"
  BY NewRecords DEF VmGone, VmRec, Where
<1>2. ASSUME NEW b \in BoRec, NEW d \in Devices
      PROVE  /\ BoGone(b, d) \in BoRec /\ BoGone(b, d).at = "freed"
             /\ BoGone(b, d).va = IF b.va = d THEN None ELSE b.va
             /\ BoGone(b, d).by = IF b.va \in {None, d} THEN None ELSE d
  BY NewRecords DEF BoGone, BoRec, Where
<1>3. QED
  BY <1>1, <1>2

(* BoFree and VmFree take the named objects out of their table.             *)
LEMMA BoFreeFacts ==
  ASSUME Types, NEW d \in Devices, NEW H, H \subseteq Listed(bo), BoFree(H, d)
  PROVE  /\ bo' \in [Bos -> BoRec]
         /\ \A h \in H : /\ bo'[h].at = "freed"
                         /\ bo'[h].va = IF bo[h].va = d THEN None ELSE bo[h].va
                         /\ bo'[h].by = IF bo[h].va \in {None, d} THEN None ELSE d
         /\ \A h \in Bos \ H : bo'[h] = bo[h]
<1>1. H \subseteq Bos
  BY TypeFacts
<1>2. bo' = [h \in Bos |-> IF h \in H THEN BoGone(bo[h], d) ELSE bo[h]]
  BY DEF BoFree
<1>3. QED
  BY <1>1, <1>2, TypeFacts, GoneFacts

LEMMA VmFreeFacts ==
  ASSUME Types, NEW V, VmFree(V)
  PROVE  /\ vm' \in [VmIds -> VmRec]
         /\ pt' \in [VmIds -> [UserVas \cup KmdVas -> 0..MaxBo]]
         /\ \A v \in VmIds : v \in V => vm'[v].at = "freed"
         /\ \A v \in VmIds \ V : vm'[v] = vm[v] /\ pt'[v] = pt[v]
<1>1. NoMap \in [UserVas \cup KmdVas -> 0..MaxBo]
  BY Bounds DEF NoMap, Unmapped
<1>2. vm' = [v \in VmIds |-> IF v \in V THEN VmGone ELSE vm[v]]
  BY DEF VmFree
<1>3. pt' = [v \in VmIds |-> IF v \in V THEN NoMap ELSE pt[v]]
  BY DEF VmFree
<1>4. QED
  BY <1>1, <1>2, <1>3, TypeFacts, GoneFacts

-----------------------------------------------------------------------------
(* What a step of one thread leaves to the others.                          *)
Others(t) == \A u \in Threads \ {t} : th'[u] = th[u]
One(b) == IF b THEN 1 ELSE 0
OnBo(t, h) == HoldsBo(t) /\ th[t].h = h
OnVm(t, v) == HoldsVm(t) /\ th[t].v = v

(* A set of threads that changes by one thread.                             *)
LEMMA CountChange ==
  ASSUME NEW S, NEW T, S \subseteq Threads, T \subseteq Threads,
         NEW t \in Threads, S \ {t} = T \ {t}
  PROVE  /\ Cardinality(S) \in Nat /\ Cardinality(T) \in Nat
         /\ Cardinality(T) = Cardinality(S) + One(t \in T) - One(t \in S)
<1> DEFINE R == S \ {t}
<1>1. IsFiniteSet(S) /\ IsFiniteSet(T) /\ IsFiniteSet(R)
  BY Bounds, FS_Subset
<1>2. Cardinality(R) \in Nat /\ Cardinality(S) \in Nat /\ Cardinality(T) \in Nat
  BY <1>1, FS_CardinalityType
<1>3. Cardinality(S) = Cardinality(R) + One(t \in S)
  <2>1. CASE t \in S
    <3>1. Cardinality(R) = Cardinality(S) - 1
      BY <1>1, <2>1, FS_RemoveElement
    <3>2. QED
      BY <1>2, <2>1, <3>1 DEF One
  <2>2. CASE t \notin S
    <3>1. R = S
      BY <2>2
    <3>2. QED
      BY <1>2, <2>2, <3>1 DEF One
  <2>3. QED
    BY <2>1, <2>2
<1>4. Cardinality(T) = Cardinality(R) + One(t \in T)
  <2>1. R = T \ {t}
    OBVIOUS
  <2>2. CASE t \in T
    <3>1. Cardinality(R) = Cardinality(T) - 1
      BY <1>1, <2>1, <2>2, FS_RemoveElement
    <3>2. QED
      BY <1>2, <2>2, <3>1 DEF One
  <2>3. CASE t \notin T
    <3>1. Cardinality(R) = Cardinality(T)
      <4>1. R = T
        BY <2>1, <2>3
      <4>2. QED
        BY <4>1, Zenon
    <3>2. QED
      BY <1>2, <2>3, <3>1 DEF One
  <2>4. QED
    BY <2>2, <2>3
<1>5. One(t \in S) \in Int /\ One(t \in T) \in Int
  BY DEF One
<1>6. QED
  BY <1>2, <1>3, <1>4, <1>5

LEMMA HoldersChange ==
  ASSUME NEW t \in Threads, Others(t), NEW i
  PROVE  /\ Cardinality(BoHolders(i)) \in Nat /\ Cardinality(VmHolders(i)) \in Nat
         /\ Cardinality(BoHolders(i)') =
              Cardinality(BoHolders(i)) + One(OnBo(t, i)') - One(OnBo(t, i))
         /\ Cardinality(VmHolders(i)') =
              Cardinality(VmHolders(i)) + One(OnVm(t, i)') - One(OnVm(t, i))
<1>1. /\ BoHolders(i) \subseteq Threads /\ BoHolders(i)' \subseteq Threads
      /\ VmHolders(i) \subseteq Threads /\ VmHolders(i)' \subseteq Threads
  BY DEF BoHolders, VmHolders
<1>2. /\ BoHolders(i) \ {t} = BoHolders(i)' \ {t}
      /\ VmHolders(i) \ {t} = VmHolders(i)' \ {t}
  BY DEF BoHolders, VmHolders, HoldsBo, HoldsVm, Others
<1>3. /\ (t \in BoHolders(i)) = OnBo(t, i) /\ (t \in BoHolders(i)') = OnBo(t, i)'
      /\ (t \in VmHolders(i)) = OnVm(t, i) /\ (t \in VmHolders(i)') = OnVm(t, i)'
  BY DEF BoHolders, VmHolders, OnBo, OnVm, HoldsBo, HoldsVm
<1>4. QED
  BY <1>1, <1>2, <1>3, CountChange

(* An object nobody has made yet is held by nobody.                         *)
LEMMA NewUnheld ==
  ASSUME ObjInv
  PROVE  /\ \A h \in Bos : bo[h].at = "none" => BoHolders(h) = {}
         /\ \A v \in VmIds : vm[v].at = "none" => VmHolders(v) = {}
  BY DEF ObjInv, Fits, BoHolders, VmHolders

(* References stay balanced when a thread's step counts what it takes and   *)
(* what it leaves.                                                          *)
BoCounted(t) ==
  \A h \in Bos : bo'[h].at = "listed" =>
     \/ bo[h].at = "listed" /\ bo'[h].refs = bo[h].refs + One(OnBo(t, h)') - One(OnBo(t, h))
     \/ bo[h].at = "none" /\ bo'[h].refs = 1 /\ ~OnBo(t, h)'
VmCounted(t) ==
  \A v \in VmIds : vm'[v].at = "listed" =>
     \/ vm[v].at = "listed" /\ vm'[v].refs = vm[v].refs + One(OnVm(t, v)') - One(OnVm(t, v))
     \/ vm[v].at = "none" /\ vm'[v].refs = 1 /\ ~OnVm(t, v)'

LEMMA RefsKept ==
  ASSUME ObjInv, NEW t \in Threads, Others(t), BoCounted(t), VmCounted(t),
         DOMAIN bo' = Bos, DOMAIN vm' = VmIds
  PROVE  RefsBalanced'
<1>1. ASSUME NEW h \in Bos, bo'[h].at = "listed"
      PROVE  bo'[h].refs = 1 + Cardinality(BoHolders(h)')
  <2>1. /\ Cardinality(BoHolders(h)) \in Nat
        /\ Cardinality(BoHolders(h)') =
             Cardinality(BoHolders(h)) + One(OnBo(t, h)') - One(OnBo(t, h))
    BY HoldersChange
  <2>2. One(OnBo(t, h)) \in Int /\ One(OnBo(t, h)') \in Int
    BY DEF One
  <2>3. CASE bo[h].at = "listed" /\ bo'[h].refs = bo[h].refs + One(OnBo(t, h)') - One(OnBo(t, h))
    <3>1. h \in Listed(bo)
      BY <2>3, TypeFacts DEF Listed, ObjInv
    <3>2. bo[h].refs = 1 + Cardinality(BoHolders(h))
      BY <3>1 DEF ObjInv, RefsBalanced
    <3>3. QED
      BY <2>1, <2>2, <2>3, <3>2
  <2>4. CASE bo[h].at = "none" /\ bo'[h].refs = 1 /\ ~OnBo(t, h)'
    <3>1. BoHolders(h) = {}
      BY <2>4, NewUnheld
    <3>2. ~OnBo(t, h)
      BY <3>1 DEF OnBo, BoHolders
    <3>3. QED
      BY <2>1, <2>4, <3>1, <3>2, FS_EmptySet DEF One
  <2>5. QED
    BY <1>1, <2>3, <2>4 DEF BoCounted
<1>2. ASSUME NEW v \in VmIds, vm'[v].at = "listed"
      PROVE  vm'[v].refs = 1 + Cardinality(VmHolders(v)')
  <2>1. /\ Cardinality(VmHolders(v)) \in Nat
        /\ Cardinality(VmHolders(v)') =
             Cardinality(VmHolders(v)) + One(OnVm(t, v)') - One(OnVm(t, v))
    BY HoldersChange
  <2>2. One(OnVm(t, v)) \in Int /\ One(OnVm(t, v)') \in Int
    BY DEF One
  <2>3. CASE vm[v].at = "listed" /\ vm'[v].refs = vm[v].refs + One(OnVm(t, v)') - One(OnVm(t, v))
    <3>1. v \in Listed(vm)
      BY <2>3, TypeFacts DEF Listed, ObjInv
    <3>2. vm[v].refs = 1 + Cardinality(VmHolders(v))
      BY <3>1 DEF ObjInv, RefsBalanced
    <3>3. QED
      BY <2>1, <2>2, <2>3, <3>2
  <2>4. CASE vm[v].at = "none" /\ vm'[v].refs = 1 /\ ~OnVm(t, v)'
    <3>1. VmHolders(v) = {}
      BY <2>4, NewUnheld
    <3>2. ~OnVm(t, v)
      BY <3>1 DEF OnVm, VmHolders
    <3>3. QED
      BY <2>1, <2>4, <3>1, <3>2, FS_EmptySet DEF One
  <2>5. QED
    BY <1>2, <2>3, <2>4 DEF VmCounted
<1>3. Listed(bo)' = {h \in Bos : bo'[h].at = "listed"} /\ Listed(vm)' = {v \in VmIds : vm'[v].at = "listed"}
  BY DEF Listed
<1>4. QED
  BY <1>1, <1>2, <1>3 DEF RefsBalanced

(* A thread that is not in a rundown makes objects for a live device only.  *)
OwnersFit ==
  /\ \A h \in Bos : bo'[h].at = "listed" =>
       (bo[h].at = "listed" /\ bo'[h].owner = bo[h].owner) \/ dev[bo'[h].owner] = "live"
  /\ \A v \in VmIds : vm'[v].at = "listed" =>
       (vm[v].at = "listed" /\ vm'[v].owner = vm[v].owner) \/ dev[vm'[v].owner] = "live"
  /\ \A g \in Groups : grp'[g] \in {None, grp[g]} \/ dev[grp'[g]] = "live"
StillMade ==
  /\ \A h \in Bos : bo[h].at # "none" => bo'[h].at # "none"
  /\ \A v \in VmIds : vm[v].at # "none" => vm'[v].at # "none"

LEMMA DevsKept ==
  ASSUME ObjInv, NEW t \in Threads, Others(t), ~Rundown(t), ~Rundown(t)', Fits(t)',
         UNCHANGED dev, OwnersFit, StillMade, DOMAIN bo' = Bos, DOMAIN vm' = VmIds
  PROVE  /\ NothingOutlivesDevice' /\ Rundowns'
         /\ \A u \in Threads : Fits(u)'
<1>1. \A u \in Threads \ {t} : Fits(u)'
  <2> SUFFICES ASSUME NEW u \in Threads \ {t} PROVE Fits(u)'
    OBVIOUS
  <2>1. th'[u] = th[u] /\ Fits(u)
    BY DEF Others, ObjInv
  <2>2. QED
    BY <2>1 DEF Fits, StillMade, Rundown, HoldsBo, HoldsVm
<1>2. NothingOutlivesDevice'
  BY Bounds, TypeFacts DEF ObjInv, NothingOutlivesDevice, OwnersFit, Owned, Listed
<1>3. Rundowns'
  <2>1. \A u \in Threads : Rundown(u)' => u # t /\ Rundown(u) /\ th'[u] = th[u] /\ dev[th[u].dev] = "dying"
                                          /\ th[u].dev \in Devices
    BY DEF Others, Rundown, ObjInv, Fits
  <2>2. \A u \in Threads : Rundown(u)' => \A g \in Groups : grp'[g] # th'[u].dev
    BY <2>1, Bounds DEF ObjInv, Rundowns, OwnersFit
  <2>3. \A u \in Threads : th'[u].pc = "vms" => Owned(bo, th[u].dev)' = {}
    <3> SUFFICES ASSUME NEW u \in Threads, th'[u].pc = "vms", NEW h \in Bos,
                        bo'[h].at = "listed", bo'[h].owner = th'[u].dev
                 PROVE  FALSE
      BY DEF Owned, Listed
    <3>1. Rundown(u)'
      BY DEF Rundown
    <3>2. Owned(bo, th[u].dev) = {}
      BY <2>1, <3>1 DEF ObjInv, Rundowns
    <3>3. ~(bo[h].at = "listed" /\ bo[h].owner = th[u].dev)
      BY <3>2, TypeFacts DEF Owned, Listed, ObjInv
    <3>4. QED
      BY <2>1, <3>1, <3>3 DEF OwnersFit
  <2>4. QED
    BY <2>1, <2>2, <2>3 DEF ObjInv, Rundowns
<1>4. QED
  BY <1>1, <1>2, <1>3

(* User mappings, when no BO is freed and none is mapped.                   *)
LEMMA MapsKept ==
  ASSUME ObjInv, maps' \subseteq maps,
         \A h \in Bos : bo[h].at # "none" =>
            bo'[h].at = bo[h].at /\ bo'[h].va = bo[h].va /\ bo'[h].by = bo[h].by
  PROVE  MappingFollowsBo'
<1>1. \A m \in maps : m[1] \in Bos /\ m[2] \in Devices /\ bo[m[1]].va = m[2]
                      /\ (bo[m[1]].at = "listed" \/ bo[m[1]].by # m[2])
  BY TypeFacts DEF ObjInv, MappingFollowsBo
<1>2. \A h \in Bos : bo[h].at = "none" => bo[h].va = None
  BY NewRecords DEF ObjInv, Types
<1>3. QED
  BY <1>1, <1>2, Bounds DEF MappingFollowsBo

LEMMA MapsFreed ==
  ASSUME ObjInv, NEW d \in Devices, NEW H, H \subseteq Listed(bo), BoFree(H, d)
  PROVE  MappingFollowsBo'
<1>1. \A m \in maps : m[1] \in Bos /\ m[2] \in Devices /\ bo[m[1]].va = m[2]
                      /\ (bo[m[1]].at = "listed" \/ bo[m[1]].by # m[2])
  BY TypeFacts DEF ObjInv, MappingFollowsBo
<1>2. /\ \A h \in H : /\ bo'[h].va = IF bo[h].va = d THEN None ELSE bo[h].va
                      /\ bo'[h].by = IF bo[h].va \in {None, d} THEN None ELSE d
      /\ \A h \in Bos \ H : bo'[h] = bo[h]
  BY BoFreeFacts DEF ObjInv
<1>3. maps' = {m \in maps : ~(m[1] \in H /\ bo[m[1]].va = d)}
  BY DEF BoFree
<1>4. QED
  BY <1>1, <1>2, <1>3, Bounds DEF MappingFollowsBo

-----------------------------------------------------------------------------
(* Heaps, made and in the making, when no thread works on one of its own.   *)
SameBo(h) == /\ bo'[h].at = bo[h].at /\ bo'[h].told = bo[h].told
             /\ bo'[h].owner = bo[h].owner /\ bo'[h].next = bo[h].next
SameVm(v) == vm'[v].at = vm[v].at /\ vm'[v].kmdVaNext = vm[v].kmdVaNext
Idles     == \A u \in Threads : Making(u)' => Making(u) /\ th'[u] = th[u]
KeepsMine == \A u \in Threads : Making(u)' =>
               /\ \A h \in Mine(u) : SameBo(h)
               /\ vm'[th[u].v].at = "listed" => SameVm(th[u].v)
KeepsHeaps == /\ heaps' \subseteq heaps
              /\ \A p \in heaps' : SameVm(p.vm) /\ \A h \in Range(p.bos) : SameBo(h)
\* Pages of the kernel's window stay mapped where a chain may be; the address
\* that comes next is nobody's but its maker's.
KeepsTables ==
  \A v \in VmIds, a \in KmdVas : vm[v].at = "listed" /\ vm'[v].at = "listed" =>
     \/ pt'[v][a] = pt[v][a]
     \/ v \in crowded
     \/ a = vm[v].kmdVaNext /\ \A u \in Threads : Making(u)' => th[u].v # v

LEMMA SeqFacts ==
  ASSUME NEW S, NEW s \in Seq(S)
  PROVE  /\ Len(s) \in Nat /\ DOMAIN s = 1..Len(s)
         /\ \A i \in 1..Len(s) : s[i] \in S /\ s[i] \in Range(s)
         /\ Range(s) \subseteq S
         /\ \A x \in Range(s) : \E i \in 1..Len(s) : s[i] = x
  BY DEF Range

(* The parts a chain is made of.                                            *)
LEMMA HeapFacts ==
  ASSUME ObjInv
  PROVE  /\ \A p \in heaps : /\ p.vm \in VmIds /\ p.vas \in Seq(KmdVas) /\ p.bos \in Seq(Bos)
                             /\ Range(p.bos) \subseteq Bos
         /\ \A u \in Threads : /\ th[u].vas \in Seq(KmdVas) /\ th[u].bos \in Seq(Bos)
                               /\ Range(th[u].bos) \subseteq Bos
                               /\ Making(u) => Mine(u) \subseteq Bos /\ th[u].v \in VmIds
                               /\ th[u].pc \in {"get", "stamp"} => th[u].h \in Bos
<1>1. \A p \in heaps : p.vm \in VmIds /\ p.vas \in Seq(KmdVas) /\ p.bos \in Seq(Bos)
  BY DEF ObjInv, Types, Heap
<1>2. \A u \in Threads : th[u].vas \in Seq(KmdVas) /\ th[u].bos \in Seq(Bos)
  BY DEF ObjInv, Types, Frame
<1>3. \A u \in Threads : /\ th[u].pc \in {"get", "stamp"} => th[u].h \in Bos
                         /\ th[u].pc \in {"alloc", "get", "stamp"} => th[u].v \in VmIds
  BY DEF ObjInv, Fits, HoldsBo, HoldsVm
<1>4. (\A p \in heaps : Range(p.bos) \subseteq Bos) /\ \A u \in Threads : Range(th[u].bos) \subseteq Bos
  BY <1>1, <1>2, SeqFacts
<1>5. QED
  BY <1>1, <1>2, <1>3, <1>4 DEF Making, Mine, Own

(* A chain is what its BOs, its pages and its VM say.                       *)
LEMMA ChainKept ==
  ASSUME NEW v \in VmIds, NEW vas \in Seq(KmdVas), NEW bos \in Seq(Bos), Chain(v, vas, bos),
         SameVm(v), \A h \in Range(bos) : bo'[h].next = bo[h].next,
         \A a \in Range(vas) : pt'[v][a] = pt[v][a]
  PROVE  Chain(v, vas, bos)'
<1>1. Len(vas) \in Nat /\ Len(bos) = Len(vas)
  BY SeqFacts DEF Chain
<1>2. \A i \in 1..Len(vas) : vas[i] \in Range(vas) /\ bos[i] \in Range(bos)
  BY <1>1, SeqFacts
<1>3. QED
  BY <1>1, <1>2 DEF Chain, SameVm

LEMMA HandsKept ==
  ASSUME ObjInv, UNCHANGED crowded, Idles, KeepsMine, KeepsHeaps
  PROVE  Hands'
<1>1. \A u \in Threads : Making(u)' =>
         Making(u) /\ th'[u] = th[u] /\ Own(u)' = Own(u) /\ Mine(u)' = Mine(u)
  BY DEF Idles, Own, Mine
<1>2. ASSUME NEW t \in Threads, Making(t)'
      PROVE  /\ Own(t)' \cap Range(th'[t].bos) = {}
             /\ \A h \in Mine(t)' : Reserved(h)' /\ bo'[h].owner = th'[t].dev
             /\ \A u \in Threads : Making(u)' /\ u # t => Mine(t)' \cap Mine(u)' = {}
  <2>1. /\ Own(t) \cap Range(th[t].bos) = {}
        /\ \A h \in Mine(t) : Reserved(h) /\ bo[h].owner = th[t].dev
        /\ \A u \in Threads : Making(u) /\ u # t => Mine(t) \cap Mine(u) = {}
    BY <1>1, <1>2 DEF ObjInv, Hands
  <2>2. \A h \in Mine(t) : SameBo(h)
    BY <1>2 DEF KeepsMine
  <2>3. \A h \in Mine(t) : Reserved(h)' /\ bo'[h].owner = th[t].dev
    BY <2>1, <2>2 DEF SameBo, Reserved
  <2>4. QED
    BY <1>1, <1>2, <2>1, <2>3
<1>3. ASSUME NEW p \in heaps'
      PROVE  /\ vm'[p.vm].at = "listed"
             /\ \A h \in Range(p.bos) : Reserved(h)'
             /\ \A t \in Threads : Making(t)' => Range(p.bos) \cap Mine(t)' = {}
  <2>1. p \in heaps /\ SameVm(p.vm) /\ \A h \in Range(p.bos) : SameBo(h)
    BY DEF KeepsHeaps
  <2>2. /\ vm[p.vm].at = "listed"
        /\ \A h \in Range(p.bos) : Reserved(h)
        /\ \A t \in Threads : Making(t) => Range(p.bos) \cap Mine(t) = {}
    BY <2>1 DEF ObjInv, Hands
  <2>3. QED
    BY <1>1, <2>1, <2>2 DEF SameVm, SameBo, Reserved
<1>4. QED
  BY <1>2, <1>3, Zenon DEF Hands

LEMMA ChainsKept ==
  ASSUME ObjInv, UNCHANGED crowded, Idles, KeepsMine, KeepsHeaps, KeepsTables
  PROVE  Chains'
<1>1. ASSUME NEW p \in heaps', p.vm \notin crowded
      PROVE  Chain(p.vm, p.vas, p.bos)'
  <2>1. p \in heaps /\ SameVm(p.vm) /\ \A h \in Range(p.bos) : SameBo(h)
    BY DEF KeepsHeaps
  <2>2. /\ p.vm \in VmIds /\ p.vas \in Seq(KmdVas) /\ p.bos \in Seq(Bos)
        /\ vm[p.vm].at = "listed" /\ vm'[p.vm].at = "listed"
        /\ Chain(p.vm, p.vas, p.bos)
    BY <1>1, <2>1, HeapFacts DEF ObjInv, Hands, Chains, SameVm
  <2>3. ASSUME NEW a \in Range(p.vas)
        PROVE  pt'[p.vm][a] = pt[p.vm][a]
    <3>1. PICK i \in 1..Len(p.vas) : p.vas[i] = a
      BY <2>2, SeqFacts
    <3>2. a < vm[p.vm].kmdVaNext /\ a \in KmdVas
      BY <2>2, <3>1, SeqFacts DEF Chain
    <3>3. a # vm[p.vm].kmdVaNext
      BY <2>2, <3>2, TypeFacts, Bounds DEF VmRec, ObjInv
    <3>4. QED
      BY <1>1, <2>2, <3>2, <3>3 DEF KeepsTables
  <2>4. QED
    BY <2>1, <2>2, <2>3, ChainKept DEF SameBo
<1>2. ASSUME NEW t \in Threads, Making(t)'
      PROVE  Len(th'[t].vas) = Len(th'[t].bos)
  BY <1>2 DEF Idles, ObjInv, Chains
<1>3. ASSUME NEW t \in Threads, Making(t)', th'[t].v \notin crowded, vm'[th'[t].v].at = "listed"
      PROVE  /\ Chain(th[t].v, th[t].vas, th[t].bos)'
             /\ th'[t].pc \in {"get", "stamp"} => th'[t].va = vm'[th'[t].v].kmdVaNext
             /\ th'[t].pc = "stamp" => pt'[th'[t].v][th'[t].va] = th'[t].h
             /\ \A u \in Threads : Making(u)' /\ th'[u].v = th'[t].v => u = t
  <2> DEFINE v == th[t].v
  <2>1. Making(t) /\ th'[t] = th[t] /\ v \in VmIds /\ v \notin crowded
    BY <1>3, HeapFacts DEF Idles
  <2>2. SameVm(v) /\ vm[v].at = "listed" /\ vm'[v].at = "listed" /\ \A h \in Mine(t) : SameBo(h)
    BY <1>3, <2>1 DEF KeepsMine, SameVm
  <2>3. /\ Chain(v, th[t].vas, th[t].bos)
        /\ th[t].pc \in {"get", "stamp"} => th[t].va = vm[v].kmdVaNext
        /\ th[t].pc = "stamp" => pt[v][th[t].va] = th[t].h
        /\ \A u \in Threads : Making(u) /\ th[u].v = v => u = t
    BY <2>1, <2>2 DEF ObjInv, Chains
  <2>4. \A a \in KmdVas : pt'[v][a] = pt[v][a]
    BY <1>3, <2>1, <2>2 DEF KeepsTables
  <2>5. /\ th[t].vas \in Seq(KmdVas) /\ th[t].bos \in Seq(Bos)
        /\ Range(th[t].bos) \subseteq Mine(t)
    BY HeapFacts DEF Mine
  <2>6. Chain(v, th[t].vas, th[t].bos)'
    <3>1. \A a \in Range(th[t].vas) : pt'[v][a] = pt[v][a]
      BY <2>4, <2>5, SeqFacts
    <3>2. \A h \in Range(th[t].bos) : bo'[h].next = bo[h].next
      BY <2>2, <2>5 DEF SameBo
    <3>3. QED
      BY <2>1, <2>2, <2>3, <2>5, <3>1, <3>2, ChainKept
  <2>7. th[t].pc \in {"get", "stamp"} => th[t].va \in KmdVas
    BY DEF ObjInv, Fits
  <2>8. QED
    BY <2>1, <2>2, <2>3, <2>4, <2>6, <2>7 DEF SameVm, Idles, Making
<1>4. QED
  BY <1>1, <1>2, <1>3 DEF Chains

-----------------------------------------------------------------------------
(* Get and Put move the count of one object and nothing else.               *)
BoButRefs(b, c) ==
  /\ b.at = c.at /\ b.owner = c.owner /\ b.lock = c.lock /\ b.va = c.va
  /\ b.by = c.by /\ b.next = c.next /\ b.told = c.told
VmButRefs(b, c) == b.at = c.at /\ b.owner = c.owner /\ b.kmdVaNext = c.kmdVaNext

LEMMA BoRefFacts ==
  ASSUME Types, NEW h \in Bos
  PROVE  /\ Get(bo, h) \in [Bos -> BoRec] /\ Put(bo, h) \in [Bos -> BoRec]
         /\ Get(bo, h)[h].refs = bo[h].refs + 1 /\ Put(bo, h)[h].refs = bo[h].refs - 1
         /\ BoButRefs(Get(bo, h)[h], bo[h]) /\ BoButRefs(Put(bo, h)[h], bo[h])
         /\ \A i \in Bos \ {h} : Get(bo, h)[i] = bo[i] /\ Put(bo, h)[i] = bo[i]
         /\ bo[h].refs \in Int
<1>1. bo \in [Bos -> BoRec]
  BY TypeFacts
<1>2. bo[h].refs + 1 \in Int /\ bo[h].refs - 1 \in Int /\ bo[h].refs \in Int
  BY <1>1 DEF BoRec
<1>3. Get(bo, h) \in [Bos -> BoRec] /\ Put(bo, h) \in [Bos -> BoRec]
  BY <1>1, <1>2 DEF Get, Put, BoRec
<1>4. QED
  BY <1>1, <1>2, <1>3 DEF Get, Put, BoRec, BoButRefs

LEMMA VmRefFacts ==
  ASSUME Types, NEW v \in VmIds
  PROVE  /\ Get(vm, v) \in [VmIds -> VmRec] /\ Put(vm, v) \in [VmIds -> VmRec]
         /\ Get(vm, v)[v].refs = vm[v].refs + 1 /\ Put(vm, v)[v].refs = vm[v].refs - 1
         /\ VmButRefs(Get(vm, v)[v], vm[v]) /\ VmButRefs(Put(vm, v)[v], vm[v])
         /\ \A i \in VmIds \ {v} : Get(vm, v)[i] = vm[i] /\ Put(vm, v)[i] = vm[i]
         /\ vm[v].refs \in Int
<1>1. vm \in [VmIds -> VmRec]
  BY TypeFacts
<1>2. vm[v].refs + 1 \in Int /\ vm[v].refs - 1 \in Int /\ vm[v].refs \in Int
  BY <1>1 DEF VmRec
<1>3. Get(vm, v) \in [VmIds -> VmRec] /\ Put(vm, v) \in [VmIds -> VmRec]
  BY <1>1, <1>2 DEF Get, Put, VmRec
<1>4. QED
  BY <1>1, <1>2, <1>3 DEF Get, Put, VmRec, VmButRefs

(* What makes the types hold after a step.                                  *)
TypesNext ==
  /\ bo' \in [Bos -> BoRec] /\ vm' \in [VmIds -> VmRec] /\ th' \in [Threads -> Frame]
  /\ dev' \in [Devices -> {"none", "live", "dying", "gone"}]
  /\ grp' \in [Groups -> Devices \cup {None}]
  /\ pt' \in [VmIds -> [UserVas \cup KmdVas -> 0..MaxBo]]
  /\ maps' \subseteq Bos \X Devices /\ crowded' \subseteq VmIds /\ heaps' \subseteq Heap
\* Handles are given out in order.
InOrder ==
  /\ \A h \in Bos : bo'[h].at = "none" => bo'[h] = bo[h]
  /\ \A v \in VmIds : vm'[v].at = "none" => vm'[v] = vm[v]
  /\ \A h \in Bos : bo[h].at = "none" /\ bo'[h].at # "none" =>
       \A g \in Bos : g < h => bo[g].at # "none"

LEMMA TypesKept ==
  ASSUME ObjInv, TypesNext, InOrder, StillMade
  PROVE  Types'
<1>1. \A h \in Bos : bo[h].at = "none" => bo[h] = NoBo /\ \A g \in Bos : g > h => bo[g].at = "none"
  BY DEF ObjInv, Types, TypeOK
<1>2. \A h, g \in Bos : g > h <=> h < g
  BY Bounds
<1>3. \A h \in Bos : bo'[h].at = "none" => \A g \in Bos : g > h => bo'[g].at = "none"
  BY <1>1, <1>2, Zenon DEF InOrder, StillMade
<1>4. TypeOK'
  BY <1>3 DEF TypesNext, TypeOK, BoRec, VmRec
<1>5. \A h \in Bos : bo'[h].at = "none" => bo'[h] = NoBo
  BY <1>1, Zenon DEF InOrder
<1>6. \A v \in VmIds : vm'[v].at = "none" => vm'[v] = NoVm
  BY Zenon DEF InOrder, ObjInv, Types
<1>7. QED
  BY <1>4, <1>5, <1>6 DEF Types, TypesNext

LEMMA InvParts ==
  ASSUME Types', RefsBalanced', NothingOutlivesDevice', MappingFollowsBo',
         \A u \in Threads : Fits(u)', Rundowns', Hands', Chains'
  PROVE  ObjInv'
  BY DEF ObjInv

(* A call that changes counts, locks and mappings of objects, but makes and *)
(* frees none and leaves the kernel's window of the page tables alone.      *)
TouchesBo == \A h \in Bos : bo'[h].by = bo[h].by /\ SameBo(h) /\ (bo[h].at = "none" => bo'[h] = bo[h])
TouchesVm == \A v \in VmIds : /\ SameVm(v) /\ vm'[v].owner = vm[v].owner
                              /\ vm[v].at = "none" => vm'[v] = vm[v]
TouchesGroups == \A g \in Groups : grp'[g] \in {None, grp[g]} \/ dev[grp'[g]] = "live"

LEMMA TouchStep ==
  ASSUME ObjInv, NEW t \in Threads, Others(t), ~Rundown(t), ~Rundown(t)', ~Making(t)', Fits(t)',
         UNCHANGED <<dev, heaps, crowded>>, TypesNext, TouchesBo, TouchesVm, TouchesGroups,
         BoCounted(t), VmCounted(t), MappingFollowsBo',
         \A v \in VmIds, a \in KmdVas : pt'[v][a] = pt[v][a]
  PROVE  ObjInv'
<1>1. StillMade /\ InOrder /\ DOMAIN bo' = Bos /\ DOMAIN vm' = VmIds
  BY DEF TouchesBo, TouchesVm, SameBo, SameVm, StillMade, InOrder, TypesNext
<1>2. Types'
  BY <1>1, TypesKept
<1>3. RefsBalanced'
  BY <1>1, RefsKept
<1>4. OwnersFit
  BY DEF OwnersFit, TouchesBo, TouchesVm, TouchesGroups, SameBo, SameVm
<1>5. NothingOutlivesDevice' /\ Rundowns' /\ \A u \in Threads : Fits(u)'
  BY <1>1, <1>4, DevsKept
<1>6. Idles
  BY DEF Idles, Others, Making
<1>7. KeepsMine /\ KeepsHeaps /\ KeepsTables
  BY <1>6, HeapFacts DEF KeepsMine, KeepsHeaps, KeepsTables, TouchesBo, TouchesVm, Idles
<1>8. Hands' /\ Chains'
  BY <1>6, <1>7, HandsKept, ChainsKept
<1>9. QED
  BY <1>2, <1>3, <1>5, <1>8, InvParts

-----------------------------------------------------------------------------
(* The thread that steps.                                                   *)
LEMMA EnterFacts ==
  ASSUME ObjInv, NEW t \in Threads, NEW s \in Frame, Enter(t, s)
  PROVE  Others(t) /\ th'[t] = s /\ th' \in [Threads -> Frame]
  BY TypeFacts DEF ObjInv, Enter, Others

LEMMA ReturnFacts ==
  ASSUME ObjInv, NEW t \in Threads, Return(t)
  PROVE  /\ Others(t) /\ th'[t] = Resting /\ th' \in [Threads -> Frame]
         /\ ~Rundown(t)' /\ ~Making(t)' /\ Fits(t)'
         /\ \A i : ~OnBo(t, i)' /\ ~OnVm(t, i)'
<1>1. Others(t) /\ th'[t] = Resting /\ th' \in [Threads -> Frame]
  BY NewRecords, TypeFacts DEF ObjInv, Return, Others
<1>2. th'[t].pc = "idle"
  BY <1>1, NewRecords
<1>3. QED
  BY <1>1, <1>2 DEF Rundown, Making, Fits, OnBo, OnVm, HoldsBo, HoldsVm

LEMMA CallFacts ==
  ASSUME ObjInv, NEW t \in Threads, NEW d \in Devices, Call(t, d)
  PROVE  /\ dev[d] = "live" /\ th[t].pc = "idle" /\ th[t] = Resting
         /\ ~Rundown(t) /\ ~Making(t) /\ \A i : ~OnBo(t, i) /\ ~OnVm(t, i)
         /\ UNCHANGED th => Others(t) /\ th' \in [Threads -> Frame]
  BY TypeFacts DEF ObjInv, Fits, Call, Rundown, Making, OnBo, OnVm, HoldsBo, HoldsVm, Others

LEMMA Stutter ==
  ASSUME ObjInv
  PROVE  /\ UNCHANGED bo => bo' \in [Bos -> BoRec] /\ TouchesBo
         /\ UNCHANGED vm => vm' \in [VmIds -> VmRec] /\ TouchesVm
         /\ UNCHANGED grp => grp' \in [Groups -> Devices \cup {None}] /\ TouchesGroups
         /\ UNCHANGED <<dev, crowded, heaps>> =>
              /\ dev' \in [Devices -> {"none", "live", "dying", "gone"}]
              /\ crowded' \subseteq VmIds /\ heaps' \subseteq Heap
         /\ UNCHANGED pt => /\ pt' \in [VmIds -> [UserVas \cup KmdVas -> 0..MaxBo]]
                            /\ \A v \in VmIds, a \in KmdVas : pt'[v][a] = pt[v][a]
         /\ UNCHANGED maps => maps' \subseteq Bos \X Devices
  BY TypeFacts DEF ObjInv, Types, TouchesBo, TouchesVm, TouchesGroups, SameBo, SameVm

LEMMA TouchesFacts ==
  ASSUME ObjInv
  PROVE  /\ \A h \in Bos : /\ bo' = Get(bo, h) /\ bo[h].at # "none" => TouchesBo
                           /\ bo' = Put(bo, h) /\ bo[h].at # "none" => TouchesBo
         /\ \A v \in VmIds : /\ vm' = Get(vm, v) /\ vm[v].at # "none" => TouchesVm
                             /\ vm' = Put(vm, v) /\ vm[v].at # "none" => TouchesVm
         /\ TouchesBo /\ (\A h \in Bos : bo'[h].va = bo[h].va) /\ maps' \subseteq maps => MappingFollowsBo'
<1>1. ASSUME NEW h \in Bos, bo' = Get(bo, h) \/ bo' = Put(bo, h), bo[h].at # "none"
      PROVE  TouchesBo
  BY <1>1, BoRefFacts DEF ObjInv, TouchesBo, SameBo, BoButRefs
<1>2. ASSUME NEW v \in VmIds, vm' = Get(vm, v) \/ vm' = Put(vm, v), vm[v].at # "none"
      PROVE  TouchesVm
  BY <1>2, VmRefFacts DEF ObjInv, TouchesVm, SameVm, VmButRefs
<1>3. TouchesBo /\ (\A h \in Bos : bo'[h].va = bo[h].va) /\ maps' \subseteq maps => MappingFollowsBo'
  BY MapsKept DEF TouchesBo, SameBo
<1>4. QED
  BY <1>1, <1>2, <1>3

(* What the step takes and leaves of the counts.                            *)
LEMMA BoCounting ==
  ASSUME ObjInv, NEW t \in Threads
  PROVE  /\ \A h \in Bos : /\ bo[h].at = "listed" /\ bo' = Get(bo, h)
                           /\ (\A i \in Bos : ~OnBo(t, i) /\ (OnBo(t, i)' <=> i = h))
                           => BoCounted(t)
         /\ \A h \in Bos : /\ bo' = Put(bo, h)
                           /\ (\A i \in Bos : (OnBo(t, i) <=> i = h) /\ ~OnBo(t, i)')
                           => BoCounted(t)
         /\ UNCHANGED bo /\ (\A i \in Bos : bo[i].at = "listed" => (OnBo(t, i)' <=> OnBo(t, i)))
              => BoCounted(t)
<1>1. \A i \in Bos : bo[i].refs \in Int
  BY BoRefFacts DEF ObjInv
<1>2. ASSUME NEW h \in Bos, bo[h].at = "listed", bo' = Get(bo, h),
             \A i \in Bos : ~OnBo(t, i) /\ (OnBo(t, i)' <=> i = h)
      PROVE  BoCounted(t)
  BY <1>1, <1>2, BoRefFacts DEF ObjInv, BoCounted, One, BoButRefs
<1>3. ASSUME NEW h \in Bos, bo' = Put(bo, h),
             \A i \in Bos : (OnBo(t, i) <=> i = h) /\ ~OnBo(t, i)'
      PROVE  BoCounted(t)
  <2> SUFFICES ASSUME NEW i \in Bos, bo'[i].at = "listed"
               PROVE  bo[i].at = "listed" /\ bo'[i].refs = bo[i].refs + One(OnBo(t, i)') - One(OnBo(t, i))
    BY DEF BoCounted
  <2>1. CASE i = h
    <3>1. bo'[i].refs = bo[i].refs - 1 /\ BoButRefs(bo'[i], bo[i])
      BY <1>3, <2>1, BoRefFacts DEF ObjInv
    <3>2. One(OnBo(t, i)') = 0 /\ One(OnBo(t, i)) = 1
      BY <1>3, <2>1 DEF One
    <3>3. QED
      BY <1>1, <3>1, <3>2 DEF BoButRefs
  <2>2. CASE i # h
    <3>1. bo'[i] = bo[i]
      BY <1>3, <2>2, BoRefFacts DEF ObjInv
    <3>2. One(OnBo(t, i)') = 0 /\ One(OnBo(t, i)) = 0
      BY <1>3, <2>2 DEF One
    <3>3. QED
      BY <1>1, <3>1, <3>2
  <2>3. QED
    BY <2>1, <2>2
<1>4. ASSUME UNCHANGED bo, \A i \in Bos : bo[i].at = "listed" => (OnBo(t, i)' <=> OnBo(t, i))
      PROVE  BoCounted(t)
  BY <1>1, <1>4 DEF BoCounted, One
<1>5. QED
  BY <1>2, <1>3, <1>4

LEMMA VmCounting ==
  ASSUME ObjInv, NEW t \in Threads
  PROVE  /\ \A v \in VmIds : /\ vm[v].at = "listed" /\ vm' = Get(vm, v)
                             /\ (\A i \in VmIds : ~OnVm(t, i) /\ (OnVm(t, i)' <=> i = v))
                             => VmCounted(t)
         /\ \A v \in VmIds : /\ vm' = Put(vm, v)
                             /\ (\A i \in VmIds : (OnVm(t, i) <=> i = v) /\ ~OnVm(t, i)')
                             => VmCounted(t)
         /\ UNCHANGED vm /\ (\A i \in VmIds : vm[i].at = "listed" => (OnVm(t, i)' <=> OnVm(t, i)))
              => VmCounted(t)
<1>1. \A i \in VmIds : vm[i].refs \in Int
  BY VmRefFacts DEF ObjInv
<1>2. ASSUME NEW v \in VmIds, vm[v].at = "listed", vm' = Get(vm, v),
             \A i \in VmIds : ~OnVm(t, i) /\ (OnVm(t, i)' <=> i = v)
      PROVE  VmCounted(t)
  BY <1>1, <1>2, VmRefFacts DEF ObjInv, VmCounted, One, VmButRefs
<1>3. ASSUME NEW v \in VmIds, vm' = Put(vm, v),
             \A i \in VmIds : (OnVm(t, i) <=> i = v) /\ ~OnVm(t, i)'
      PROVE  VmCounted(t)
  <2> SUFFICES ASSUME NEW i \in VmIds, vm'[i].at = "listed"
               PROVE  vm[i].at = "listed" /\ vm'[i].refs = vm[i].refs + One(OnVm(t, i)') - One(OnVm(t, i))
    BY DEF VmCounted
  <2>1. CASE i = v
    <3>1. vm'[i].refs = vm[i].refs - 1 /\ VmButRefs(vm'[i], vm[i])
      BY <1>3, <2>1, VmRefFacts DEF ObjInv
    <3>2. One(OnVm(t, i)') = 0 /\ One(OnVm(t, i)) = 1
      BY <1>3, <2>1 DEF One
    <3>3. QED
      BY <1>1, <3>1, <3>2 DEF VmButRefs
  <2>2. CASE i # v
    <3>1. vm'[i] = vm[i]
      BY <1>3, <2>2, VmRefFacts DEF ObjInv
    <3>2. One(OnVm(t, i)') = 0 /\ One(OnVm(t, i)) = 0
      BY <1>3, <2>2 DEF One
    <3>3. QED
      BY <1>1, <3>1, <3>2
  <2>3. QED
    BY <2>1, <2>2
<1>4. ASSUME UNCHANGED vm, \A i \in VmIds : vm[i].at = "listed" => (OnVm(t, i)' <=> OnVm(t, i))
      PROVE  VmCounted(t)
  BY <1>1, <1>4 DEF VmCounted, One
<1>5. QED
  BY <1>2, <1>3, <1>4

-----------------------------------------------------------------------------
(* Escapes between a Get and a Put.                                         *)

LEMMA GetBoInv ==
  ASSUME ObjInv, NEW t \in Threads, NEW d \in Devices, NEW h \in Bos,
         BoQueryInfo(t, d, h) \/ BoMapCpu(t, d, h)
  PROVE  ObjInv'
<1>1. /\ Call(t, d) /\ h \in Known /\ bo' = Get(bo, h)
      /\ UNCHANGED <<dev, grp, crowded, heaps, vm, pt, maps>>
      /\ \E p \in {"query", "mapwait"} : Enter(t, [Resting EXCEPT !.pc = p, !.dev = d, !.h = h])
  BY DEF BoQueryInfo, BoMapCpu, objects
<1>2. bo[h].at = "listed"
  BY <1>1 DEF Known, Listed
<1>3. /\ dev[d] = "live" /\ ~Rundown(t) /\ ~Making(t)
      /\ \A i : ~OnBo(t, i) /\ ~OnVm(t, i)
  BY <1>1, CallFacts
<1>4. PICK p \in {"query", "mapwait"} : Enter(t, [Resting EXCEPT !.pc = p, !.dev = d, !.h = h])
  BY <1>1
<1>5. /\ Others(t) /\ th' \in [Threads -> Frame]
      /\ th'[t].pc = p /\ th'[t].dev = d /\ th'[t].h = h
  <2> DEFINE s == [Resting EXCEPT !.pc = p, !.dev = d, !.h = h]
  <2>1. p \in PCs
    BY DEF PCs
  <2>2. s \in Frame /\ s.pc = p /\ s.dev = d /\ s.h = h
    BY <2>1, NewRecords, Bounds DEF Frame
  <2>3. Enter(t, s)
    BY <1>4
  <2> HIDE DEF s
  <2>4. Others(t) /\ th'[t] = s /\ th' \in [Threads -> Frame]
    BY <2>2, <2>3, EnterFacts
  <2>5. QED
    BY <2>2, <2>4
<1>6. TypesNext /\ TouchesBo /\ TouchesVm /\ TouchesGroups /\ UNCHANGED <<dev, heaps, crowded>>
  BY <1>1, <1>2, <1>5, Stutter, TouchesFacts, BoRefFacts DEF TypesNext, ObjInv
<1>7. /\ ~Rundown(t)' /\ ~Making(t)' /\ \A i \in VmIds : ~OnVm(t, i)'
      /\ \A i \in Bos : OnBo(t, i)' <=> i = h
  BY <1>5 DEF Rundown, Making, OnVm, OnBo, HoldsVm, HoldsBo
<1>8. Fits(t)'
  BY <1>1, <1>2, <1>3, <1>5, <1>6 DEF Fits, Rundown, HoldsBo, HoldsVm, TouchesBo, SameBo
<1>9. BoCounted(t) /\ VmCounted(t)
  BY <1>1, <1>2, <1>3, <1>7, BoCounting, VmCounting
<1>10. MappingFollowsBo'
  <2>1. \A i \in Bos : bo'[i].va = bo[i].va
    BY <1>1, BoRefFacts DEF ObjInv, BoButRefs
  <2>2. QED
    BY <1>1, <1>6, <2>1, TouchesFacts
<1>11. QED
  BY <1>1, <1>3, <1>5, <1>6, <1>7, <1>8, <1>9, <1>10, Stutter, TouchStep

(* Every way out of a call puts what the thread holds and is still there.   *)
PutsBo(t) == bo' = IF HoldsBo(t) /\ bo[th[t].h].at = "listed" THEN Put(bo, th[t].h) ELSE bo
PutsVm(t) == vm' = IF HoldsVm(t) /\ vm[th[t].v].at = "listed" THEN Put(vm, th[t].v) ELSE vm

LEMMA PutFacts ==
  ASSUME ObjInv, NEW t \in Threads, Return(t)
  PROVE  /\ PutsBo(t) => /\ BoCounted(t) /\ TouchesBo /\ bo' \in [Bos -> BoRec]
                         /\ \A h \in Bos : bo'[h].va = bo[h].va
         /\ PutsVm(t) => VmCounted(t) /\ TouchesVm /\ vm' \in [VmIds -> VmRec]
<1>1. \A i : ~OnBo(t, i)' /\ ~OnVm(t, i)'
  BY ReturnFacts
<1>2. ASSUME PutsBo(t)
      PROVE  /\ BoCounted(t) /\ TouchesBo /\ bo' \in [Bos -> BoRec]
             /\ \A h \in Bos : bo'[h].va = bo[h].va
  <2>1. CASE HoldsBo(t) /\ bo[th[t].h].at = "listed"
    <3>1. th[t].h \in Bos /\ bo' = Put(bo, th[t].h)
      BY <1>2, <2>1 DEF PutsBo, ObjInv, Fits
    <3>2. \A i \in Bos : OnBo(t, i) <=> i = th[t].h
      BY <2>1 DEF OnBo
    <3>3. BoCounted(t)
      BY <1>1, <3>1, <3>2, BoCounting
    <3>4. TouchesBo
      BY <2>1, <3>1, TouchesFacts
    <3>5. QED
      BY <3>1, <3>3, <3>4, BoRefFacts DEF ObjInv, BoButRefs
  <2>2. CASE ~(HoldsBo(t) /\ bo[th[t].h].at = "listed")
    <3>1. UNCHANGED bo
      BY <1>2, <2>2 DEF PutsBo
    <3>2. \A i \in Bos : bo[i].at = "listed" => ~OnBo(t, i)
      BY <2>2 DEF OnBo
    <3>3. QED
      BY <1>1, <3>1, <3>2, BoCounting, Stutter
  <2>3. QED
    BY <2>1, <2>2
<1>3. ASSUME PutsVm(t)
      PROVE  VmCounted(t) /\ TouchesVm /\ vm' \in [VmIds -> VmRec]
  <2>1. CASE HoldsVm(t) /\ vm[th[t].v].at = "listed"
    <3>1. th[t].v \in VmIds /\ vm' = Put(vm, th[t].v)
      BY <1>3, <2>1 DEF PutsVm, ObjInv, Fits
    <3>2. \A i \in VmIds : OnVm(t, i) <=> i = th[t].v
      BY <2>1 DEF OnVm
    <3>3. VmCounted(t)
      BY <1>1, <3>1, <3>2, VmCounting
    <3>4. TouchesVm
      BY <2>1, <3>1, TouchesFacts
    <3>5. QED
      BY <3>1, <3>3, <3>4, VmRefFacts DEF ObjInv
  <2>2. CASE ~(HoldsVm(t) /\ vm[th[t].v].at = "listed")
    <3>1. UNCHANGED vm
      BY <1>3, <2>2 DEF PutsVm
    <3>2. \A i \in VmIds : vm[i].at = "listed" => ~OnVm(t, i)
      BY <2>2 DEF OnVm
    <3>3. QED
      BY <1>1, <3>1, <3>2, VmCounting, Stutter
  <2>3. QED
    BY <2>1, <2>2
<1>4. QED
  BY <1>2, <1>3

LEMMA LeaveStep ==
  ASSUME ObjInv, NEW t \in Threads, ~Rundown(t), Return(t), PutsBo(t), PutsVm(t),
         UNCHANGED <<dev, grp, crowded, heaps, pt, maps>>
  PROVE  ObjInv'
<1>1. /\ Others(t) /\ th' \in [Threads -> Frame]
      /\ ~Rundown(t)' /\ ~Making(t)' /\ Fits(t)'
  BY ReturnFacts
<1>2. /\ BoCounted(t) /\ TouchesBo /\ bo' \in [Bos -> BoRec] /\ \A h \in Bos : bo'[h].va = bo[h].va
      /\ VmCounted(t) /\ TouchesVm /\ vm' \in [VmIds -> VmRec]
  BY PutFacts
<1>3. /\ TypesNext /\ TouchesGroups /\ UNCHANGED <<dev, heaps, crowded>>
      /\ \A v \in VmIds, a \in KmdVas : pt'[v][a] = pt[v][a]
  BY <1>1, <1>2, Stutter DEF TypesNext
<1>4. MappingFollowsBo'
  BY <1>2, TouchesFacts
<1>5. QED
  BY <1>1, <1>2, <1>3, <1>4, TouchStep

LEMMA LeaveInv ==
  ASSUME ObjInv, NEW t \in Threads, BoPut(t) \/ Stray(t) \/ BindEnd(t)
  PROVE  ObjInv'
<1>1. /\ ~Rundown(t) /\ Return(t) /\ PutsBo(t) /\ PutsVm(t)
      /\ UNCHANGED <<dev, grp, crowded, heaps, pt, maps>>
  <2>1. CASE BoPut(t)
    BY <2>1 DEF BoPut, Rundown, PutsBo, PutsVm, HoldsBo, HoldsVm, At, objects
  <2>2. CASE Stray(t)
    BY <2>2 DEF Stray, Rundown, PutsBo, PutsVm, HoldsBo, HoldsVm, objects
  <2>3. CASE BindEnd(t)
    BY <2>3 DEF BindEnd, Rundown, PutsBo, PutsVm, HoldsBo, HoldsVm, At, objects
  <2>4. QED
    BY <2>1, <2>2, <2>3
<1>2. QED
  BY <1>1, LeaveStep

(* BoMapCpu waits for the lock of the BO it holds, then maps it or not.     *)
LEMMA MapLockInv ==
  ASSUME ObjInv, NEW t \in Threads, MapLock(t)
  PROVE  ObjInv'
<1> DEFINE h == th[t].h
<1>1. /\ th[t].pc = "mapwait" /\ bo[h].at = "listed"
      /\ bo' = [bo EXCEPT ![h].lock = t] /\ th' = [th EXCEPT ![t].pc = "map"]
      /\ UNCHANGED <<dev, grp, crowded, heaps, vm, pt, maps>>
  BY DEF MapLock, At, objects
<1>2. h \in Bos /\ th[t].dev \in Devices /\ dev[th[t].dev] = "live"
  BY <1>1 DEF ObjInv, Fits, HoldsBo, Rundown
<1>3. /\ bo' \in [Bos -> BoRec] /\ TouchesBo
      /\ \A i \in Bos : bo'[i].va = bo[i].va /\ bo'[i].refs = bo[i].refs
  <2>1. bo \in [Bos -> BoRec]
    BY TypeFacts DEF ObjInv
  <2>2. bo' \in [Bos -> BoRec]
    BY <1>1, <1>2, <2>1 DEF BoRec
  <2>3. QED
    BY <1>1, <1>2, <2>1, <2>2 DEF TouchesBo, SameBo, BoRec
<1>4. /\ Others(t) /\ th' \in [Threads -> Frame]
      /\ th'[t].pc = "map" /\ th'[t].dev = th[t].dev /\ th'[t].h = h
  <2>1. th \in [Threads -> Frame]
    BY TypeFacts DEF ObjInv
  <2>2. QED
    BY <1>1, <2>1 DEF Others, Frame, PCs
<1>5. /\ ~Rundown(t) /\ ~Rundown(t)' /\ ~Making(t)'
      /\ \A i : (OnBo(t, i)' <=> OnBo(t, i)) /\ ~OnVm(t, i) /\ ~OnVm(t, i)'
  BY <1>1, <1>4 DEF Rundown, Making, OnBo, OnVm, HoldsBo, HoldsVm
<1>6. Fits(t)'
  BY <1>1, <1>2, <1>3, <1>4 DEF Fits, Rundown, HoldsBo, HoldsVm, TouchesBo, SameBo
<1>7. BoCounted(t)
  <2>1. \A i \in Bos : bo[i].refs \in Int
    BY BoRefFacts DEF ObjInv
  <2>2. \A i \in Bos : bo'[i].at = bo[i].at
    BY <1>3 DEF TouchesBo, SameBo
  <2>3. QED
    BY <1>3, <1>5, <2>1, <2>2 DEF BoCounted, One
<1>8. /\ TypesNext /\ TouchesGroups /\ TouchesVm /\ UNCHANGED <<dev, heaps, crowded>> /\ VmCounted(t)
      /\ \A v \in VmIds, a \in KmdVas : pt'[v][a] = pt[v][a]
  BY <1>1, <1>3, <1>4, <1>5, Stutter, VmCounting DEF TypesNext
<1>9. MappingFollowsBo'
  BY <1>1, <1>3, TouchesFacts
<1>10. QED
  BY <1>3, <1>4, <1>5, <1>6, <1>7, <1>8, <1>9, TouchStep

LEMMA MapDoneInv ==
  ASSUME ObjInv, NEW t \in Threads, MapDone(t)
  PROVE  ObjInv'
<1> DEFINE h == th[t].h
           d == th[t].dev
<1>1. /\ th[t].pc = "map" /\ bo[h].at = "listed" /\ Return(t)
      /\ UNCHANGED <<dev, grp, crowded, heaps, vm, pt>>
  BY DEF MapDone, At, objects
<1>2. h \in Bos /\ d \in Devices
  BY <1>1 DEF ObjInv, Fits, HoldsBo
<1>3. PICK a \in Devices \cup {None} :
        /\ bo' = [bo EXCEPT ![h].lock = None, ![h].refs = @ - 1, ![h].va = a]
        /\ \/ bo[h].va = None /\ a = d /\ maps' = maps \cup {<<h, d>>}
           \/ a = bo[h].va /\ maps' = maps
  <2>1. bo[h].va \in Devices \cup {None}
    BY <1>2, TypeFacts DEF ObjInv, BoRec
  <2>2. QED
    BY <1>2, <2>1 DEF MapDone, Unlocked
<1>4. /\ bo' \in [Bos -> BoRec] /\ bo'[h].refs = bo[h].refs - 1 /\ bo'[h].va = a
      /\ bo'[h].at = bo[h].at /\ bo'[h].told = bo[h].told /\ bo'[h].owner = bo[h].owner
      /\ bo'[h].next = bo[h].next /\ bo'[h].by = bo[h].by
      /\ \A i \in Bos \ {h} : bo'[i] = bo[i]
  <2> DEFINE r == [bo[h] EXCEPT !.lock = None]
             q == [r EXCEPT !.refs = bo[h].refs - 1]
             p == [q EXCEPT !.va = a]
  <2>1. bo \in [Bos -> BoRec] /\ bo[h] \in BoRec /\ bo[h].refs - 1 \in Int
    BY <1>2, TypeFacts DEF ObjInv, BoRec
  <2>2. bo' = [bo EXCEPT ![h] = p]
    BY <1>2, <1>3, <2>1 DEF BoRec
  <2>3. r \in BoRec /\ r.at = bo[h].at /\ r.told = bo[h].told /\ r.owner = bo[h].owner
        /\ r.next = bo[h].next /\ r.by = bo[h].by
    BY <2>1 DEF BoRec
  <2> HIDE DEF r
  <2>4. q \in BoRec /\ q.refs = bo[h].refs - 1
        /\ q.at = r.at /\ q.told = r.told /\ q.owner = r.owner /\ q.next = r.next /\ q.by = r.by
    BY <2>1, <2>3 DEF BoRec
  <2> HIDE DEF q
  <2>5. p \in BoRec /\ p.va = a /\ p.refs = q.refs
        /\ p.at = q.at /\ p.told = q.told /\ p.owner = q.owner /\ p.next = q.next /\ p.by = q.by
    BY <2>4 DEF BoRec
  <2> HIDE DEF p
  <2>6. QED
    BY <1>2, <2>1, <2>2, <2>3, <2>4, <2>5
<1>5. TouchesBo
  BY <1>1, <1>2, <1>4 DEF TouchesBo, SameBo
<1>6. MappingFollowsBo' /\ maps' \subseteq Bos \X Devices
  <2>1. \A m \in maps : m[1] \in Bos /\ m[2] \in Devices /\ bo[m[1]].va = m[2]
                        /\ (bo[m[1]].at = "listed" \/ bo[m[1]].by # m[2])
    BY TypeFacts DEF ObjInv, MappingFollowsBo
  <2>2. \A m \in maps : bo'[m[1]].va = m[2] /\ (bo'[m[1]].at = "listed" \/ bo'[m[1]].by # m[2])
    <3> SUFFICES ASSUME NEW m \in maps
                 PROVE  bo'[m[1]].va = m[2] /\ (bo'[m[1]].at = "listed" \/ bo'[m[1]].by # m[2])
      OBVIOUS
    <3>1. bo[h].va = None \/ a = bo[h].va
      BY <1>3, Zenon
    <3>2. m[1] \in Bos /\ m[2] # None /\ bo[m[1]].va = m[2]
          /\ (bo[m[1]].at = "listed" \/ bo[m[1]].by # m[2])
      BY <2>1, Bounds
    <3>3. CASE m[1] = h
      BY <1>4, <3>1, <3>2, <3>3
    <3>4. CASE m[1] # h
      BY <1>4, <3>2, <3>4
    <3>5. QED
      BY <3>3, <3>4
  <2>3. CASE maps' = maps
    BY <2>2, <2>3, TypeFacts DEF MappingFollowsBo, ObjInv
  <2>4. CASE a = d /\ maps' = maps \cup {<<h, d>>}
    BY <1>1, <1>2, <1>4, <2>2, <2>4, TypeFacts DEF MappingFollowsBo, ObjInv
  <2>5. QED
    BY <1>3, <2>3, <2>4
<1>7. /\ Others(t) /\ th' \in [Threads -> Frame]
      /\ ~Rundown(t)' /\ ~Making(t)' /\ Fits(t)' /\ \A i : ~OnBo(t, i)' /\ ~OnVm(t, i)'
  BY <1>1, ReturnFacts
<1>8. ~Rundown(t) /\ \A i \in Bos : (OnBo(t, i) <=> i = h)
  BY <1>1 DEF Rundown, OnBo, HoldsBo
<1>9. BoCounted(t)
  <2>1. \A i \in Bos : bo[i].refs \in Int
    BY BoRefFacts DEF ObjInv
  <2>2. QED
    BY <1>1, <1>2, <1>4, <1>7, <1>8, <2>1 DEF BoCounted, One
<1>10. /\ TypesNext /\ TouchesGroups /\ TouchesVm /\ UNCHANGED <<dev, heaps, crowded>>
       /\ \A v \in VmIds, x \in KmdVas : pt'[v][x] = pt[v][x]
  BY <1>1, <1>4, <1>6, <1>7, Stutter DEF TypesNext
<1>11. VmCounted(t)
  <2>1. \A i \in VmIds : ~OnVm(t, i) /\ ~OnVm(t, i)'
    BY <1>1, <1>7 DEF OnVm, HoldsVm
  <2>2. QED
    BY <1>1, <2>1, VmCounting
<1>12. QED
  BY <1>5, <1>6, <1>7, <1>8, <1>9, <1>10, <1>11, TouchStep

(* VmBind holds its VM from the first operation to the last.                *)
LEMMA VmBindInv ==
  ASSUME ObjInv, NEW t \in Threads, NEW d \in Devices, NEW v \in VmIds, VmBind(t, d, v)
  PROVE  ObjInv'
<1> DEFINE s == [Resting EXCEPT !.pc = "bind", !.dev = d, !.v = v]
<1>1. /\ Call(t, d) /\ v \in Listed(vm) /\ vm' = Get(vm, v) /\ Enter(t, s)
      /\ UNCHANGED <<dev, grp, crowded, heaps, bo, pt, maps>>
  BY DEF VmBind, objects
<1>2. vm[v].at = "listed"
  BY <1>1 DEF Listed
<1>3. /\ dev[d] = "live" /\ ~Rundown(t) /\ ~Making(t)
      /\ \A i : ~OnBo(t, i) /\ ~OnVm(t, i)
  BY <1>1, CallFacts
<1>4. s \in Frame /\ s.pc = "bind" /\ s.dev = d /\ s.v = v
  BY NewRecords, Bounds DEF Frame, PCs
<1> HIDE DEF s
<1>5. Others(t) /\ th'[t] = s /\ th' \in [Threads -> Frame]
  BY <1>1, <1>4, EnterFacts
<1>6. /\ TypesNext /\ TouchesBo /\ TouchesVm /\ TouchesGroups /\ UNCHANGED <<dev, heaps, crowded>>
      /\ \A w \in VmIds, a \in KmdVas : pt'[w][a] = pt[w][a]
  BY <1>1, <1>2, <1>5, Stutter, TouchesFacts, VmRefFacts DEF TypesNext, ObjInv
<1>7. /\ ~Rundown(t)' /\ ~Making(t)' /\ \A i \in Bos : ~OnBo(t, i)'
      /\ \A i \in VmIds : OnVm(t, i)' <=> i = v
  BY <1>4, <1>5 DEF Rundown, Making, OnVm, OnBo, HoldsVm, HoldsBo
<1>8. Fits(t)'
  BY <1>1, <1>2, <1>3, <1>4, <1>5, <1>6 DEF Fits, Rundown, HoldsBo, HoldsVm, TouchesVm, SameVm
<1>9. BoCounted(t) /\ VmCounted(t)
  BY <1>1, <1>2, <1>3, <1>7, BoCounting, VmCounting
<1>10. MappingFollowsBo'
  BY <1>1, <1>6, TouchesFacts
<1>11. QED
  BY <1>3, <1>5, <1>6, <1>7, <1>8, <1>9, <1>10, TouchStep

(* Groups come and go with no other table touched.                          *)
LEMMA GroupInv ==
  ASSUME ObjInv, NEW t \in Threads, NEW d \in Devices,
         GroupCreate(t, d) \/ \E g \in Groups : GroupDestroy(t, d, g)
  PROVE  ObjInv'
<1>1. /\ Call(t, d) /\ UNCHANGED <<dev, bo, vm, pt, maps, heaps, th, crowded>>
      /\ \E g \in Groups, e \in {d, None} : grp' = [grp EXCEPT ![g] = e]
  BY DEF GroupCreate, GroupDestroy
<1>2. /\ dev[d] = "live" /\ th[t].pc = "idle" /\ ~Rundown(t) /\ ~Making(t)
      /\ Others(t) /\ th' \in [Threads -> Frame] /\ \A i : ~OnBo(t, i) /\ ~OnVm(t, i)
  BY <1>1, CallFacts
<1>3. grp' \in [Groups -> Devices \cup {None}] /\ TouchesGroups
  BY <1>1, <1>2, TypeFacts DEF ObjInv, TouchesGroups
<1>4. /\ ~Rundown(t)' /\ ~Making(t)' /\ \A i : ~OnBo(t, i)' /\ ~OnVm(t, i)'
  BY <1>1, <1>2 DEF Rundown, Making, OnBo, OnVm, HoldsBo, HoldsVm
<1>5. /\ TypesNext /\ TouchesBo /\ TouchesVm /\ UNCHANGED <<dev, heaps, crowded>>
      /\ \A w \in VmIds, a \in KmdVas : pt'[w][a] = pt[w][a]
  BY <1>1, <1>2, <1>3, Stutter DEF TypesNext
<1>6. Fits(t)'
  BY <1>1, <1>2 DEF ObjInv, Fits, Rundown, HoldsBo, HoldsVm
<1>7. BoCounted(t) /\ VmCounted(t)
  BY <1>1, <1>2, <1>4, BoCounting, VmCounting
<1>8. MappingFollowsBo'
  BY <1>1, <1>5, TouchesFacts
<1>9. QED
  BY <1>2, <1>3, <1>4, <1>5, <1>6, <1>7, <1>8, TouchStep

(* A thread that goes on with another object at another address.            *)
GoesOn(t, p, h, a) == th' = [th EXCEPT ![t].pc = p, ![t].h = h, ![t].va = a]

LEMMA GoOnFacts ==
  ASSUME ObjInv, NEW t \in Threads, NEW p \in PCs, NEW h \in 0..MaxBo,
         NEW a \in UserVas \cup KmdVas \cup {Unmapped}, GoesOn(t, p, h, a)
  PROVE  /\ Others(t) /\ th' \in [Threads -> Frame] /\ th'[t].pc = p /\ th'[t].h = h /\ th'[t].va = a
         /\ th'[t].v = th[t].v /\ th'[t].dev = th[t].dev /\ th'[t].left = th[t].left
         /\ th'[t].vas = th[t].vas /\ th'[t].bos = th[t].bos
<1> DEFINE f == [th[t] EXCEPT !.pc = p]
           g == [f EXCEPT !.h = h]
           k == [g EXCEPT !.va = a]
<1>1. th \in [Threads -> Frame] /\ th[t] \in Frame
  BY TypeFacts DEF ObjInv
<1>2. th' = [th EXCEPT ![t] = k]
  BY <1>1 DEF Frame, GoesOn
<1>3. f \in Frame /\ f.pc = p /\ f.v = th[t].v /\ f.dev = th[t].dev /\ f.left = th[t].left
      /\ f.vas = th[t].vas /\ f.bos = th[t].bos
  BY <1>1 DEF Frame
<1> HIDE DEF f
<1>4. g \in Frame /\ g.pc = f.pc /\ g.h = h /\ g.v = f.v /\ g.dev = f.dev /\ g.left = f.left
      /\ g.vas = f.vas /\ g.bos = f.bos
  BY <1>3 DEF Frame
<1> HIDE DEF g
<1>5. k \in Frame /\ k.pc = g.pc /\ k.h = g.h /\ k.va = a /\ k.v = g.v /\ k.dev = g.dev
      /\ k.left = g.left /\ k.vas = g.vas /\ k.bos = g.bos
  BY <1>4 DEF Frame
<1> HIDE DEF k
<1>6. Others(t) /\ th' \in [Threads -> Frame] /\ th'[t] = k
  BY <1>1, <1>2, <1>5 DEF Others
<1>7. QED
  BY <1>3, <1>4, <1>5, <1>6

(* The operations of VmBind: a BO is held while it is mapped, at an address *)
(* outside the window of the driver.                                        *)
LEMMA BindMapGetInv ==
  ASSUME ObjInv, NEW t \in Threads, NEW h \in Bos, NEW a \in UserVas, BindMapGet(t, h, a)
  PROVE  ObjInv'
<1>1. /\ th[t].pc = "bind" /\ bo[h].at = "listed" /\ bo' = Get(bo, h)
      /\ th' = [th EXCEPT ![t].pc = "bindmap", ![t].h = h, ![t].va = a]
      /\ UNCHANGED <<dev, grp, crowded, heaps, vm, pt, maps>>
  BY DEF BindMapGet, At, Known, Listed, objects
<1>2. /\ th[t].v \in VmIds /\ vm[th[t].v].at # "none"
      /\ th[t].dev \in Devices /\ dev[th[t].dev] = "live"
  BY <1>1 DEF ObjInv, Fits, HoldsVm, Rundown
<1>3. /\ Others(t) /\ th' \in [Threads -> Frame] /\ th'[t].pc = "bindmap" /\ th'[t].h = h
      /\ th'[t].va = a /\ th'[t].v = th[t].v /\ th'[t].dev = th[t].dev
  <2>1. "bindmap" \in PCs /\ h \in 0..MaxBo /\ a \in UserVas \cup KmdVas \cup {Unmapped}
    BY Bounds DEF PCs
  <2>2. GoesOn(t, "bindmap", h, a)
    BY <1>1 DEF GoesOn
  <2>3. QED
    BY <2>1, <2>2, GoOnFacts
<1>4. /\ ~Rundown(t) /\ ~Rundown(t)' /\ ~Making(t)'
      /\ \A i : (OnVm(t, i)' <=> OnVm(t, i)) /\ ~OnBo(t, i) /\ (OnBo(t, i)' <=> i = h)
  BY <1>1, <1>3 DEF Rundown, Making, OnBo, OnVm, HoldsBo, HoldsVm
<1>5. /\ TypesNext /\ TouchesBo /\ TouchesVm /\ TouchesGroups /\ UNCHANGED <<dev, heaps, crowded>>
      /\ \A w \in VmIds, x \in KmdVas : pt'[w][x] = pt[w][x]
  BY <1>1, <1>3, Stutter, TouchesFacts, BoRefFacts DEF TypesNext, ObjInv
<1>6. Fits(t)'
  BY <1>1, <1>2, <1>3, <1>5 DEF Fits, Rundown, HoldsBo, HoldsVm, TouchesBo, SameBo
<1>7. BoCounted(t) /\ VmCounted(t)
  BY <1>1, <1>4, BoCounting, VmCounting
<1>8. MappingFollowsBo'
  <2>1. \A i \in Bos : bo'[i].va = bo[i].va
    BY <1>1, BoRefFacts DEF ObjInv, BoButRefs
  <2>2. QED
    BY <1>1, <1>5, <2>1, TouchesFacts
<1>9. QED
  BY <1>3, <1>4, <1>5, <1>6, <1>7, <1>8, TouchStep

Writes(v, a, h) == pt' = [pt EXCEPT ![v][a] = h]

LEMMA TableFacts ==
  ASSUME ObjInv, NEW v \in VmIds, NEW a \in UserVas \cup KmdVas, NEW h \in 0..MaxBo,
         Writes(v, a, h)
  PROVE  /\ pt' \in [VmIds -> [UserVas \cup KmdVas -> 0..MaxBo]]
         /\ \A w \in VmIds, x \in KmdVas : w # v \/ x # a => pt'[w][x] = pt[w][x]
         /\ pt'[v][a] = h
         /\ a \in UserVas => \A w \in VmIds, x \in KmdVas : pt'[w][x] = pt[w][x]
<1>1. pt \in [VmIds -> [UserVas \cup KmdVas -> 0..MaxBo]]
  BY TypeFacts DEF ObjInv
<1>2. /\ pt' \in [VmIds -> [UserVas \cup KmdVas -> 0..MaxBo]]
      /\ \A w \in VmIds, x \in KmdVas : w # v \/ x # a => pt'[w][x] = pt[w][x]
      /\ pt'[v][a] = h
  BY <1>1 DEF Writes
<1>3. QED
  BY <1>2, Bounds

LEMMA BindMapPutInv ==
  ASSUME ObjInv, NEW t \in Threads, BindMapPut(t)
  PROVE  ObjInv'
<1> DEFINE h == th[t].h
           v == th[t].v
<1>1. /\ th[t].pc = "bindmap" /\ vm[v].at = "listed" /\ bo[h].at = "listed" /\ bo' = Put(bo, h)
      /\ UNCHANGED <<dev, grp, crowded, heaps, maps>>
  BY DEF BindMapPut, At, objects
<1>2. /\ h \in Bos /\ v \in VmIds /\ th[t].va \in UserVas
      /\ th[t].dev \in Devices /\ dev[th[t].dev] = "live" /\ ~Rundown(t)
  BY <1>1 DEF ObjInv, Fits, HoldsVm, HoldsBo, Rundown
<1>3. CASE /\ pt' = [pt EXCEPT ![v][th[t].va] = h] /\ vm' = vm
           /\ th' = [th EXCEPT ![t].pc = "bind", ![t].h = 0, ![t].va = Unmapped]
  <2>1. /\ Others(t) /\ th' \in [Threads -> Frame] /\ th'[t].pc = "bind"
        /\ th'[t].v = v /\ th'[t].dev = th[t].dev
    <3>1. "bind" \in PCs /\ 0 \in 0..MaxBo /\ Unmapped \in UserVas \cup KmdVas \cup {Unmapped}
      BY Bounds DEF PCs
    <3>2. GoesOn(t, "bind", 0, Unmapped)
      BY <1>3 DEF GoesOn
    <3>3. QED
      BY <3>1, <3>2, GoOnFacts
  <2>2. /\ ~Rundown(t)' /\ ~Making(t)'
        /\ \A i : (OnVm(t, i)' <=> OnVm(t, i)) /\ (OnBo(t, i) <=> i = h) /\ ~OnBo(t, i)'
    BY <1>1, <2>1 DEF Rundown, Making, OnBo, OnVm, HoldsBo, HoldsVm
  <2>3. /\ pt' \in [VmIds -> [UserVas \cup KmdVas -> 0..MaxBo]]
        /\ \A w \in VmIds, x \in KmdVas : pt'[w][x] = pt[w][x]
    <3>1. Writes(v, th[t].va, h) /\ h \in 0..MaxBo /\ th[t].va \in UserVas \cup KmdVas
      BY <1>2, <1>3, Bounds DEF Writes
    <3>2. QED
      BY <1>2, <3>1, TableFacts
  <2>4. TypesNext /\ TouchesBo /\ TouchesVm /\ TouchesGroups /\ UNCHANGED <<dev, heaps, crowded>>
    BY <1>1, <1>2, <1>3, <2>1, <2>3, Stutter, TouchesFacts, BoRefFacts DEF TypesNext, ObjInv
  <2>5. Fits(t)'
    BY <1>1, <1>2, <1>3, <2>1, <2>4 DEF Fits, Rundown, HoldsBo, HoldsVm, TouchesBo, SameBo
  <2>6. BoCounted(t) /\ VmCounted(t)
    BY <1>1, <1>2, <1>3, <2>2, BoCounting, VmCounting
  <2>7. MappingFollowsBo'
    <3>1. \A i \in Bos : bo'[i].va = bo[i].va
      BY <1>1, <1>2, BoRefFacts DEF ObjInv, BoButRefs
    <3>2. QED
      BY <1>1, <2>4, <3>1, TouchesFacts
  <2>8. QED
    BY <1>2, <2>1, <2>2, <2>3, <2>4, <2>5, <2>6, <2>7, TouchStep
<1>4. CASE pt' = pt /\ vm' = Put(vm, v) /\ Return(t)
  <2>1. PutsBo(t) /\ PutsVm(t)
    BY <1>1, <1>4 DEF PutsBo, PutsVm, HoldsBo, HoldsVm
  <2>2. QED
    BY <1>1, <1>2, <1>4, <2>1, LeaveStep
<1>5. QED
  BY <1>3, <1>4 DEF BindMapPut

LEMMA BindUnmapInv ==
  ASSUME ObjInv, NEW t \in Threads, NEW a \in UserVas, BindUnmap(t, a)
  PROVE  ObjInv'
<1>1. /\ th[t].pc = "bind" /\ pt' = [pt EXCEPT ![th[t].v][a] = Unmapped]
      /\ UNCHANGED <<dev, grp, crowded, heaps, bo, vm, maps, th>>
  BY DEF BindUnmap, At, objects
<1>2. th[t].v \in VmIds
  BY <1>1 DEF ObjInv, Fits, HoldsVm
<1>3. Others(t) /\ th' \in [Threads -> Frame] /\ ~Rundown(t) /\ ~Rundown(t)' /\ ~Making(t)'
  BY <1>1, TypeFacts DEF ObjInv, Others, Rundown, Making
<1>4. /\ pt' \in [VmIds -> [UserVas \cup KmdVas -> 0..MaxBo]]
      /\ \A w \in VmIds, x \in KmdVas : pt'[w][x] = pt[w][x]
  <2>1. Unmapped \in 0..MaxBo /\ a \in UserVas \cup KmdVas
    BY Bounds DEF Unmapped
  <2>2. Writes(th[t].v, a, Unmapped)
    BY <1>1 DEF Writes
  <2>3. QED
    BY <1>2, <2>1, <2>2, TableFacts
<1>5. TypesNext /\ TouchesBo /\ TouchesVm /\ TouchesGroups /\ UNCHANGED <<dev, heaps, crowded>>
  BY <1>1, <1>3, <1>4, Stutter DEF TypesNext
<1>6. Fits(t)'
  BY <1>1 DEF ObjInv, Fits, Rundown, HoldsBo, HoldsVm
<1>7. BoCounted(t) /\ VmCounted(t)
  <2>1. \A i : (OnVm(t, i)' <=> OnVm(t, i)) /\ (OnBo(t, i)' <=> OnBo(t, i))
    BY <1>1 DEF OnVm, OnBo, HoldsBo, HoldsVm
  <2>2. QED
    BY <1>1, <2>1, BoCounting, VmCounting
<1>8. MappingFollowsBo'
  BY <1>1, <1>5, TouchesFacts
<1>9. QED
  BY <1>3, <1>4, <1>5, <1>6, <1>7, <1>8, TouchStep

-----------------------------------------------------------------------------
(* Objects made and freed.                                                  *)

(* A step of a thread outside the rundowns, with no chain growing.          *)
LEMMA QuietStep ==
  ASSUME ObjInv, NEW t \in Threads, Others(t), ~Rundown(t), ~Rundown(t)', Fits(t)',
         UNCHANGED <<dev, crowded>>, TypesNext, InOrder, StillMade, OwnersFit,
         BoCounted(t), VmCounted(t), MappingFollowsBo',
         Idles, KeepsMine, KeepsHeaps, KeepsTables
  PROVE  ObjInv'
<1>1. DOMAIN bo' = Bos /\ DOMAIN vm' = VmIds
  BY DEF TypesNext
<1>2. Types'
  BY TypesKept
<1>3. RefsBalanced'
  BY <1>1, RefsKept
<1>4. NothingOutlivesDevice' /\ Rundowns' /\ \A u \in Threads : Fits(u)'
  BY <1>1, DevsKept
<1>5. Hands' /\ Chains'
  BY HandsKept, ChainsKept
<1>6. QED
  BY <1>2, <1>3, <1>4, <1>5, InvParts

(* An escape of device d that is over in one step: what it makes is d's.    *)
MadeBo(h, d) == bo[h].at = "none" /\ bo'[h].refs = 1 /\ bo'[h].owner = d
MadeVm(v, d) == vm[v].at = "none" /\ vm'[v].refs = 1 /\ vm'[v].owner = d

LEMMA CallStep ==
  ASSUME ObjInv, NEW t \in Threads, NEW d \in Devices, Call(t, d),
         UNCHANGED <<th, dev, grp, crowded>>,
         bo' \in [Bos -> BoRec], vm' \in [VmIds -> VmRec], maps' \subseteq Bos \X Devices,
         pt' \in [VmIds -> [UserVas \cup KmdVas -> 0..MaxBo]], InOrder, StillMade,
         \A h \in Bos : bo'[h].at = "listed" => bo'[h] = bo[h] \/ MadeBo(h, d),
         \A v \in VmIds : vm'[v].at = "listed" => vm'[v] = vm[v] \/ MadeVm(v, d),
         MappingFollowsBo', KeepsMine, KeepsHeaps, KeepsTables
  PROVE  ObjInv'
<1>1. /\ dev[d] = "live" /\ th[t].pc = "idle" /\ ~Rundown(t)
      /\ Others(t) /\ th' \in [Threads -> Frame] /\ \A i : ~OnBo(t, i) /\ ~OnVm(t, i)
  BY CallFacts
<1>2. ~Rundown(t)' /\ \A i : ~OnBo(t, i)' /\ ~OnVm(t, i)'
  BY <1>1 DEF Rundown, OnBo, OnVm, HoldsBo, HoldsVm
<1>3. Fits(t)'
  BY <1>1 DEF ObjInv, Fits, Rundown, HoldsBo, HoldsVm
<1>4. heaps' \subseteq Heap
  BY DEF KeepsHeaps, ObjInv, Types
<1>5. TypesNext
  BY <1>1, <1>4, TypeFacts DEF TypesNext, ObjInv
<1>6. OwnersFit
  BY <1>1 DEF OwnersFit, MadeBo, MadeVm
<1>7. BoCounted(t) /\ VmCounted(t)
  <2>1. (\A h \in Bos : bo[h].refs \in Int) /\ \A v \in VmIds : vm[v].refs \in Int
    BY BoRefFacts, VmRefFacts DEF ObjInv
  <2>2. BoCounted(t)
    BY <1>1, <1>2, <2>1 DEF BoCounted, One, MadeBo
  <2>3. VmCounted(t)
    BY <1>1, <1>2, <2>1 DEF VmCounted, One, MadeVm
  <2>4. QED
    BY <2>2, <2>3
<1>8. Idles
  BY DEF Idles, Making
<1>9. QED
  BY <1>1, <1>2, <1>3, <1>5, <1>6, <1>7, <1>8, QuietStep

(* What a table keeps when nothing in it is touched.                        *)
LEMMA TableStays ==
  ASSUME ObjInv
  PROVE  /\ UNCHANGED bo =>
              /\ \A h \in Bos : SameBo(h)
              /\ \A h \in Bos : bo'[h].at = "none" => bo'[h] = bo[h]
              /\ \A u \in Threads : Making(u) => \A h \in Mine(u) : SameBo(h)
              /\ \A p \in heaps : \A h \in Range(p.bos) : SameBo(h)
         /\ UNCHANGED vm =>
              /\ \A v \in VmIds : SameVm(v)
              /\ \A p \in heaps : SameVm(p.vm)
  BY HeapFacts DEF SameBo, SameVm

LEMMA VmCreateInv ==
  ASSUME ObjInv, NEW t \in Threads, NEW d \in Devices, VmCreate(t, d)
  PROVE  ObjInv'
<1> DEFINE n == [NoVm EXCEPT !.at = "listed", !.owner = d, !.refs = 1]
           v == Min(Unused(vm))
<1>1. /\ Call(t, d) /\ Unused(vm) # {} /\ vm' = [vm EXCEPT ![v] = n]
      /\ UNCHANGED <<dev, grp, crowded, heaps, bo, pt, maps, th>>
  BY DEF VmCreate, objects
<1>2. n \in VmRec /\ n.at = "listed" /\ n.owner = d /\ n.refs = 1
  <2> DEFINE b == [NoVm EXCEPT !.at = "listed"]
             c == [b EXCEPT !.owner = d]
  <2>1. b \in VmRec /\ b.at = "listed"
    BY NewRecords DEF VmRec, Where
  <2> HIDE DEF b
  <2>2. c \in VmRec /\ c.owner = d /\ c.at = "listed"
    BY <2>1 DEF VmRec
  <2> HIDE DEF c
  <2>3. [c EXCEPT !.refs = 1] \in VmRec /\ [c EXCEPT !.refs = 1].at = "listed"
        /\ [c EXCEPT !.refs = 1].owner = d /\ [c EXCEPT !.refs = 1].refs = 1
    BY <2>2 DEF VmRec
  <2>4. QED
    BY <2>3 DEF b, c
<1> HIDE DEF n
<1>3. v \in VmIds /\ vm[v].at = "none"
  BY <1>1, NextVmFacts DEF ObjInv
<1> HIDE DEF v
<1>4. vm' \in [VmIds -> VmRec] /\ vm'[v] = n /\ \A w \in VmIds \ {v} : vm'[w] = vm[w]
  BY <1>1, <1>2, <1>3, TypeFacts DEF ObjInv
<1>5. InOrder /\ StillMade
  BY <1>1, <1>2, <1>3, <1>4 DEF InOrder, StillMade
<1>6. \A w \in VmIds : vm'[w].at = "listed" => vm'[w] = vm[w] \/ MadeVm(w, d)
  BY <1>2, <1>3, <1>4 DEF MadeVm
<1>7. KeepsMine
  <2>1. \A u \in Threads : Making(u) => th[u].v \in VmIds /\ vm[th[u].v].at # "none"
    BY DEF ObjInv, Fits, HoldsVm, Making
  <2>2. \A u \in Threads : Making(u)' => Making(u)
    BY <1>1 DEF Making
  <2>3. \A w \in VmIds : vm[w].at # "none" => SameVm(w)
    BY <1>3, <1>4 DEF SameVm
  <2>4. QED
    BY <1>1, <2>1, <2>2, <2>3, TableStays DEF KeepsMine
<1>8. KeepsHeaps
  <2>1. \A p \in heaps : p.vm \in VmIds /\ p.vm # v
    BY <1>3, HeapFacts DEF ObjInv, Hands
  <2>2. QED
    BY <1>1, <1>4, <2>1, TableStays DEF KeepsHeaps, SameVm
<1>9. KeepsTables
  BY <1>1 DEF KeepsTables
<1>10. MappingFollowsBo'
  BY <1>1, MapsKept
<1>11. QED
  BY <1>1, <1>4, <1>5, <1>6, <1>7, <1>8, <1>9, <1>10, TypeFacts, CallStep DEF ObjInv

LEMMA VmDestroyInv ==
  ASSUME ObjInv, NEW t \in Threads, NEW d \in Devices, NEW v \in VmIds, VmDestroy(t, d, v)
  PROVE  ObjInv'
<1>1. /\ Call(t, d) /\ vm[v].at = "listed" /\ VmFree({v})
      /\ UNCHANGED <<dev, grp, crowded, bo, maps, th>>
  BY DEF VmDestroy, objects, Listed
<1>2. /\ vm' \in [VmIds -> VmRec] /\ pt' \in [VmIds -> [UserVas \cup KmdVas -> 0..MaxBo]]
      /\ vm'[v].at = "freed" /\ \A w \in VmIds \ {v} : vm'[w] = vm[w] /\ pt'[w] = pt[w]
  BY <1>1, VmFreeFacts DEF ObjInv
<1>3. heaps' = {p \in heaps : p.vm # v}
  BY <1>1 DEF VmFree
<1>4. InOrder /\ StillMade
  BY <1>1, <1>2 DEF InOrder, StillMade
<1>5. \A w \in VmIds : vm'[w].at = "listed" => vm'[w] = vm[w]
  BY <1>2
<1>6. KeepsMine
  <2>1. \A u \in Threads : Making(u)' => Making(u) /\ th[u].v \in VmIds
    BY <1>1, HeapFacts DEF Making
  <2>2. QED
    BY <1>1, <1>5, <2>1, TableStays DEF KeepsMine, SameVm
<1>7. KeepsHeaps
  <2>1. \A p \in heaps : p.vm \in VmIds
    BY HeapFacts
  <2>2. \A p \in heaps' : p \in heaps /\ SameVm(p.vm)
    BY <1>2, <1>3, <2>1 DEF SameVm
  <2>3. QED
    BY <1>1, <2>2, TableStays DEF KeepsHeaps
<1>8. KeepsTables
  BY <1>2 DEF KeepsTables
<1>9. MappingFollowsBo'
  BY <1>1, MapsKept
<1>10. QED
  BY <1>1, <1>2, <1>4, <1>5, <1>6, <1>7, <1>8, <1>9, TypeFacts, CallStep DEF ObjInv

(* A BO in a slot that was never used.                                      *)
LEMMA NewBoFacts ==
  ASSUME ObjInv, Unused(bo) # {}, NEW b \in BoRec, b.at = "listed",
         bo' = [bo EXCEPT ![NextBo] = b], UNCHANGED maps
  PROVE  /\ bo' \in [Bos -> BoRec] /\ bo'[NextBo] = b /\ NextBo \in Bos
         /\ bo[NextBo].at = "none" /\ bo[NextBo].refs = 0
         /\ \A h \in Bos \ {NextBo} : bo'[h] = bo[h]
         /\ UNCHANGED vm => InOrder /\ StillMade
         /\ MappingFollowsBo'
         /\ \A h \in Bos : bo[h].at # "none" => h # NextBo /\ SameBo(h)
         /\ \A u \in Threads : Making(u) => NextBo \notin Mine(u) /\ \A h \in Mine(u) : SameBo(h)
         /\ \A p \in heaps : NextBo \notin Range(p.bos) /\ \A h \in Range(p.bos) : SameBo(h)
<1> DEFINE n == NextBo
<1>1. /\ n \in Bos /\ bo[n].at = "none" /\ bo[n] = NoBo
      /\ \A h \in Bos : h < n => bo[h].at # "none"
  BY NextBoFacts DEF ObjInv
<1> HIDE DEF n
<1>2. bo' \in [Bos -> BoRec] /\ bo'[n] = b /\ \A h \in Bos \ {n} : bo'[h] = bo[h]
  BY <1>1, TypeFacts DEF ObjInv, n
<1>3. UNCHANGED vm => InOrder /\ StillMade
  BY <1>1, <1>2 DEF InOrder, StillMade
<1>4. MappingFollowsBo'
  BY <1>1, <1>2, MapsKept
<1>5. \A h \in Bos : bo[h].at # "none" => h # n /\ SameBo(h)
  BY <1>1, <1>2 DEF SameBo
<1>6. \A u \in Threads : Making(u) => n \notin Mine(u) /\ \A h \in Mine(u) : SameBo(h)
  <2>1. \A u \in Threads : Making(u) => Mine(u) \subseteq Bos /\ \A h \in Mine(u) : bo[h].at = "listed"
    BY HeapFacts DEF ObjInv, Hands, Reserved
  <2>2. QED
    BY <1>5, <2>1
<1>7. \A p \in heaps : n \notin Range(p.bos) /\ \A h \in Range(p.bos) : SameBo(h)
  <2>1. \A p \in heaps : Range(p.bos) \subseteq Bos /\ \A h \in Range(p.bos) : bo[h].at = "listed"
    BY HeapFacts DEF ObjInv, Hands, Reserved
  <2>2. QED
    BY <1>5, <2>1
<1>8. bo[n].refs = 0
  BY <1>1, NewRecords
<1>9. QED
  BY <1>1, <1>2, <1>3, <1>4, <1>5, <1>6, <1>7, <1>8 DEF n

LEMMA BoCreateInv ==
  ASSUME ObjInv, NEW t \in Threads, NEW d \in Devices, BoCreate(t, d)
  PROVE  ObjInv'
<1> DEFINE b == [BoNew(d) EXCEPT !.told = TRUE]
<1>1. /\ Call(t, d) /\ Unused(bo) # {} /\ bo' = [bo EXCEPT ![NextBo] = b]
      /\ UNCHANGED <<dev, grp, crowded, heaps, vm, pt, maps, th>>
  BY DEF BoCreate, objects
<1>2. b \in BoRec /\ b.at = "listed" /\ b.owner = d /\ b.refs = 1
  BY BoNewFacts DEF BoRec
<1> HIDE DEF b
<1>3. /\ bo' \in [Bos -> BoRec] /\ bo'[NextBo] = b /\ NextBo \in Bos /\ bo[NextBo].at = "none"
      /\ (\A h \in Bos \ {NextBo} : bo'[h] = bo[h]) /\ InOrder /\ StillMade /\ MappingFollowsBo'
      /\ \A u \in Threads : Making(u) => \A h \in Mine(u) : SameBo(h)
      /\ \A p \in heaps : \A h \in Range(p.bos) : SameBo(h)
  BY <1>1, <1>2, NewBoFacts
<1>4. \A h \in Bos : bo'[h].at = "listed" => bo'[h] = bo[h] \/ MadeBo(h, d)
  BY <1>2, <1>3 DEF MadeBo
<1>5. KeepsMine
  <2>1. \A u \in Threads : Making(u)' => Making(u)
    BY <1>1 DEF Making
  <2>2. QED
    BY <1>1, <1>3, <2>1, HeapFacts, TableStays DEF KeepsMine
<1>6. KeepsHeaps
  BY <1>1, <1>3, TableStays DEF KeepsHeaps
<1>7. KeepsTables
  BY <1>1 DEF KeepsTables
<1>8. QED
  BY <1>1, <1>3, <1>4, <1>5, <1>6, <1>7, TypeFacts, CallStep DEF ObjInv

(* BOs that leave their table, none of them in the hands of a heap's maker. *)
LEMMA FreedFacts ==
  ASSUME ObjInv, NEW d \in Devices, NEW H, H \subseteq Listed(bo), BoFree(H, d)
  PROVE  /\ bo' \in [Bos -> BoRec] /\ MappingFollowsBo'
         /\ maps' \subseteq Bos \X Devices /\ heaps' \subseteq heaps
         /\ \A h \in Bos : bo'[h].at = "listed" => h \notin H /\ bo'[h] = bo[h]
         /\ \A h \in Bos \ H : bo'[h] = bo[h] /\ SameBo(h)
         /\ \A h \in Bos : /\ bo[h].at # "none" => bo'[h].at # "none"
                           /\ bo'[h].at = "none" => bo'[h] = bo[h]
                           /\ bo[h].at = "none" => bo'[h].at = "none"
         /\ \A p \in heaps' : \A h \in Range(p.bos) : SameBo(h)
<1>1. /\ bo' \in [Bos -> BoRec]
      /\ \A h \in H : bo'[h].at = "freed"
      /\ \A h \in Bos \ H : bo'[h] = bo[h]
  BY BoFreeFacts DEF ObjInv
<1>2. H \subseteq Bos /\ \A h \in H : bo[h].at = "listed"
  BY TypeFacts DEF ObjInv, Listed
<1>3. maps' \subseteq maps /\ heaps' = {p \in heaps : Range(p.bos) \cap H = {}}
  BY DEF BoFree
<1>4. \A h \in Bos \ H : SameBo(h)
  BY <1>1 DEF SameBo
<1>5. \A p \in heaps' : \A h \in Range(p.bos) : SameBo(h)
  BY <1>3, <1>4, HeapFacts
<1>6. QED
  BY <1>1, <1>2, <1>3, <1>4, <1>5, MapsFreed, TypeFacts DEF ObjInv

LEMMA BoDestroyInv ==
  ASSUME ObjInv, NEW t \in Threads, NEW d \in Devices, NEW h \in Bos, BoDestroy(t, d, h)
  PROVE  ObjInv'
<1>1. /\ Call(t, d) /\ bo[h].at = "listed" /\ bo[h].told /\ BoFree({h}, d)
      /\ UNCHANGED <<dev, grp, crowded, vm, pt, th>>
  BY DEF BoDestroy, objects, Known, Listed
<1>2. {h} \subseteq Listed(bo)
  BY <1>1, TypeFacts DEF ObjInv, Listed
<1>3. /\ bo' \in [Bos -> BoRec] /\ MappingFollowsBo'
      /\ maps' \subseteq Bos \X Devices /\ heaps' \subseteq heaps
      /\ \A g \in Bos : bo'[g].at = "listed" => bo'[g] = bo[g]
      /\ \A g \in Bos \ {h} : SameBo(g)
      /\ \A g \in Bos : /\ bo[g].at # "none" => bo'[g].at # "none"
                        /\ bo'[g].at = "none" => bo'[g] = bo[g]
                        /\ bo[g].at = "none" => bo'[g].at = "none"
      /\ \A p \in heaps' : \A g \in Range(p.bos) : SameBo(g)
  BY <1>1, <1>2, FreedFacts
<1>4. InOrder /\ StillMade
  BY <1>1, <1>3 DEF InOrder, StillMade
<1>5. KeepsMine
  <2>1. \A u \in Threads : Making(u)' => Making(u) /\ th[u].v \in VmIds
    BY <1>1, HeapFacts DEF Making
  <2>2. \A u \in Threads : Making(u) => Mine(u) \subseteq Bos \ {h}
    BY <1>1, HeapFacts DEF ObjInv, Hands, Reserved
  <2>3. QED
    BY <1>1, <1>3, <2>1, <2>2, TableStays DEF KeepsMine
<1>6. KeepsHeaps
  BY <1>1, <1>3, TableStays DEF KeepsHeaps
<1>7. KeepsTables
  BY <1>1 DEF KeepsTables
<1>8. QED
  BY <1>1, <1>3, <1>4, <1>5, <1>6, <1>7, TypeFacts, CallStep DEF ObjInv

(* A heap that cannot be finished: what was made stays with the driver, the *)
(* BO just made goes, and a page may stay where the next chunk will be.     *)
LEMMA HeapFailedInv ==
  ASSUME ObjInv, NEW t \in Threads, HeapFailed(t)
  PROVE  ObjInv'
<1> DEFINE h == th[t].h
           v == th[t].v
           d == th[t].dev
<1>1. /\ th[t].pc \in {"alloc", "get"} /\ vm[v].at = "listed" /\ vm' = Put(vm, v) /\ Return(t)
      /\ UNCHANGED <<dev, grp, crowded>>
  BY DEF HeapFailed, objects
<1>2. /\ Making(t) /\ ~Rundown(t) /\ v \in VmIds /\ d \in Devices
      /\ ~HoldsBo(t) /\ HoldsVm(t) /\ PutsVm(t)
  BY <1>1 DEF Making, Rundown, HoldsBo, HoldsVm, PutsVm, ObjInv, Fits
<1>3. CASE At(t, "alloc") /\ UNCHANGED <<bo, pt, maps, heaps>>
  BY <1>1, <1>2, <1>3, LeaveStep DEF PutsBo
<1>4. ASSUME NEW H, H \subseteq {h} \cap Listed(bo), th[t].pc = "get", BoFree(H, d),
             \/ pt' = pt
             \/ \E left \in {h, Unmapped} : pt' = [pt EXCEPT ![v][th[t].va] = left]
      PROVE  ObjInv'
  <2>1. h \in Bos /\ h \in Mine(t) /\ th[t].va \in KmdVas
    BY <1>4 DEF Mine, Own, ObjInv, Fits
  <2>2. /\ bo' \in [Bos -> BoRec] /\ MappingFollowsBo'
        /\ maps' \subseteq Bos \X Devices /\ heaps' \subseteq heaps
        /\ \A g \in Bos : bo'[g].at = "listed" => bo'[g] = bo[g]
        /\ \A g \in Bos \ {h} : SameBo(g)
        /\ \A g \in Bos : /\ bo[g].at # "none" => bo'[g].at # "none"
                          /\ bo'[g].at = "none" => bo'[g] = bo[g]
                          /\ bo[g].at = "none" => bo'[g].at = "none"
        /\ \A p \in heaps' : \A g \in Range(p.bos) : SameBo(g)
    BY <1>2, <1>4, FreedFacts
  <2>3. /\ Others(t) /\ th' \in [Threads -> Frame] /\ ~Rundown(t)' /\ ~Making(t)' /\ Fits(t)'
        /\ \A i : ~OnBo(t, i)' /\ ~OnVm(t, i)'
    BY <1>1, ReturnFacts
  <2>4. VmCounted(t) /\ TouchesVm /\ vm' \in [VmIds -> VmRec]
    BY <1>1, <1>2, PutFacts
  <2>5. /\ pt' \in [VmIds -> [UserVas \cup KmdVas -> 0..MaxBo]]
        /\ \A w \in VmIds, a \in KmdVas : w # v \/ a # th[t].va => pt'[w][a] = pt[w][a]
    <3>1. CASE pt' = pt
      BY <3>1, TypeFacts DEF ObjInv
    <3>2. CASE \E left \in {h, Unmapped} : pt' = [pt EXCEPT ![v][th[t].va] = left]
      <4>1. PICK left \in {h, Unmapped} : Writes(v, th[t].va, left)
        BY <3>2 DEF Writes
      <4>2. left \in 0..MaxBo /\ th[t].va \in UserVas \cup KmdVas
        <5>1. h \in 0..MaxBo /\ Unmapped \in 0..MaxBo
          BY <2>1, Bounds, Zenon
        <5>2. th[t].va \in UserVas \cup KmdVas
          BY <2>1
        <5>3. left = h \/ left = Unmapped
          BY Zenon
        <5>4. QED
          BY <5>1, <5>2, <5>3, Zenon
      <4>3. QED
        BY <1>2, <4>1, <4>2, TableFacts
    <3>3. QED
      BY <1>4, <3>1, <3>2
  <2>6. InOrder /\ StillMade
    BY <2>2, <2>4 DEF InOrder, StillMade, TouchesVm, SameVm
  <2>7. TypesNext
    BY <1>1, <2>2, <2>3, <2>4, <2>5, TypeFacts DEF TypesNext, ObjInv, Types
  <2>8. OwnersFit
    BY <1>1, <2>2, <2>4 DEF OwnersFit, TouchesVm, SameVm
  <2>9. BoCounted(t)
    <3>1. \A i \in Bos : ~OnBo(t, i) /\ bo[i].refs \in Int
      BY <1>2, BoRefFacts DEF OnBo, ObjInv
    <3>2. QED
      BY <2>2, <2>3, <3>1 DEF BoCounted, One
  <2>10. Idles
    BY <2>3 DEF Idles, Others, Making
  <2>11. KeepsMine
    <3>1. ASSUME NEW u \in Threads, Making(u)'
          PROVE  Making(u) /\ u # t /\ Mine(u) \subseteq Bos \ {h} /\ th[u].v \in VmIds
      <4>1. Making(u) /\ u # t
        BY <2>3, <2>10, <3>1 DEF Idles
      <4>2. h \notin Mine(u)
        BY <1>2, <2>1, <4>1 DEF ObjInv, Hands
      <4>3. QED
        BY <4>1, <4>2, HeapFacts
    <3>2. QED
      BY <2>2, <2>4, <3>1 DEF KeepsMine, TouchesVm
  <2>12. KeepsHeaps
    <3>1. \A p \in heaps' : p.vm \in VmIds
      BY <2>2, HeapFacts
    <3>2. QED
      BY <2>2, <2>4, <3>1 DEF KeepsHeaps, TouchesVm
  <2>13. KeepsTables
    <3>1. v \notin crowded => /\ th[t].va = vm[v].kmdVaNext
                              /\ \A u \in Threads : Making(u) /\ th[u].v = v => u = t
      BY <1>1, <1>2, <1>4 DEF ObjInv, Chains
    <3>2. \A u \in Threads : Making(u)' => u # t /\ Making(u)
      BY <2>3, <2>10 DEF Idles
    <3>3. QED
      BY <2>5, <3>1, <3>2 DEF KeepsTables
  <2>14. QED
    BY <1>1, <1>2, <2>2, <2>3, <2>4, <2>6, <2>7, <2>8, <2>9, <2>10, <2>11, <2>12, <2>13, QuietStep
<1>5. CASE /\ At(t, "get") /\ BoFree(IF bo[h].at = "listed" THEN {h} ELSE {}, d)
           /\ pt' = pt
  <2> DEFINE H == IF bo[h].at = "listed" THEN {h} ELSE {}
  <2>1. H \subseteq {h} \cap Listed(bo)
    BY <1>5, TypeFacts DEF ObjInv, Fits, Listed, At
  <2>2. QED
    BY <1>4, <1>5, <2>1 DEF At
<1>6. CASE /\ At(t, "get") /\ bo[h].at = "listed" /\ BoFree({h}, d)
           /\ \E left \in {h, Unmapped} : pt' = [pt EXCEPT ![v][th[t].va] = left]
  <2>1. {h} \subseteq {h} \cap Listed(bo)
    BY <1>6, TypeFacts DEF ObjInv, Fits, Listed, At
  <2>2. QED
    BY <1>4, <1>6, <2>1 DEF At
<1>7. QED
  BY <1>3, <1>5, <1>6 DEF HeapFailed

-----------------------------------------------------------------------------
(* Devices come and go.                                                     *)

LEMMA CreateDeviceInv ==
  ASSUME ObjInv, NEW d \in Devices, CreateDevice(d)
  PROVE  ObjInv'
<1>1. /\ dev[d] = "none" /\ dev' = [dev EXCEPT ![d] = "live"]
      /\ UNCHANGED <<bo, vm, grp, pt, maps, heaps, th, crowded>>
  BY DEF CreateDevice
<1>2. /\ dev' \in [Devices -> {"none", "live", "dying", "gone"}]
      /\ dev'[d] = "live" /\ \A e \in Devices \ {d} : dev'[e] = dev[e]
  BY <1>1, TypeFacts DEF ObjInv
<1>3. Types'
  BY <1>1, <1>2 DEF ObjInv, Types, TypeOK
<1>4. RefsBalanced' /\ MappingFollowsBo'
  BY <1>1 DEF ObjInv, RefsBalanced, MappingFollowsBo, Listed, BoHolders, VmHolders, HoldsBo, HoldsVm
<1>5. NothingOutlivesDevice'
  BY <1>1, <1>2 DEF ObjInv, NothingOutlivesDevice, Owned, Listed
<1>6. ASSUME NEW u \in Threads PROVE Fits(u)'
  BY <1>1, <1>2 DEF ObjInv, Fits, Rundown, HoldsBo, HoldsVm
<1>7. Rundowns'
  BY <1>1 DEF ObjInv, Rundowns, Rundown, Owned, Listed
<1>8. Idles /\ KeepsMine /\ KeepsHeaps /\ KeepsTables
  BY <1>1, HeapFacts DEF Idles, Making, KeepsMine, KeepsHeaps, KeepsTables, SameBo, SameVm
<1>9. Hands' /\ Chains'
  BY <1>1, <1>8, HandsKept, ChainsKept
<1>10. QED
  BY <1>3, <1>4, <1>5, <1>6, <1>7, <1>9, InvParts

LEMMA DestroyDeviceInv ==
  ASSUME ObjInv, NEW t \in Threads, NEW d \in Devices, DestroyDevice(t, d)
  PROVE  ObjInv'
<1> DEFINE s == [Resting EXCEPT !.pc = "bos", !.dev = d]
<1>1. /\ Call(t, d) /\ dev' = [dev EXCEPT ![d] = "dying"] /\ Enter(t, s)
      /\ \A u \in Threads : th[u].dev # d
      /\ grp' = [g \in Groups |-> IF grp[g] = d THEN None ELSE grp[g]]
      /\ UNCHANGED <<bo, vm, pt, maps, heaps, crowded>>
  BY DEF DestroyDevice, Busy
<1>2. /\ dev[d] = "live" /\ ~Rundown(t) /\ ~Making(t) /\ \A i : ~OnBo(t, i) /\ ~OnVm(t, i)
  BY <1>1, CallFacts
<1>3. s \in Frame /\ s.pc = "bos" /\ s.dev = d
  BY NewRecords DEF Frame, PCs
<1> HIDE DEF s
<1>4. Others(t) /\ th'[t] = s /\ th' \in [Threads -> Frame]
  BY <1>1, <1>3, EnterFacts
<1>5. /\ dev' \in [Devices -> {"none", "live", "dying", "gone"}]
      /\ dev'[d] = "dying" /\ \A e \in Devices \ {d} : dev'[e] = dev[e]
      /\ grp' \in [Groups -> Devices \cup {None}]
      /\ \A g \in Groups : grp'[g] # d /\ grp'[g] \in {None, grp[g]}
  BY <1>1, TypeFacts, Bounds DEF ObjInv
<1>6. Types'
  BY <1>1, <1>4, <1>5 DEF ObjInv, Types, TypeOK
<1>7. RefsBalanced'
  <2>1. \A i : ~OnBo(t, i)' /\ ~OnVm(t, i)'
    BY <1>3, <1>4 DEF OnBo, OnVm, HoldsBo, HoldsVm
  <2>2. BoCounted(t) /\ VmCounted(t)
    BY <1>1, <1>2, <2>1, BoCounting, VmCounting
  <2>3. QED
    BY <1>1, <1>4, <2>2, TypeFacts, RefsKept DEF ObjInv
<1>8. MappingFollowsBo'
  BY <1>1, MapsKept
<1>9. NothingOutlivesDevice'
  BY <1>1, <1>5, Bounds DEF ObjInv, NothingOutlivesDevice, Owned, Listed
<1>10. ASSUME NEW u \in Threads PROVE Fits(u)'
  <2>1. CASE u = t
    BY <1>3, <1>4, <1>5, <2>1 DEF Fits, Rundown, HoldsBo, HoldsVm
  <2>2. CASE u # t
    <3>1. th'[u] = th[u] /\ Fits(u) /\ th[u].dev # d
      BY <1>1, <1>4, <2>2 DEF Others, ObjInv
    <3>2. QED
      BY <1>1, <1>5, <3>1 DEF Fits, Rundown, HoldsBo, HoldsVm
  <2>3. QED
    BY <2>1, <2>2
<1>11. Rundowns'
  <2>1. \A u \in Threads : Rundown(u)' =>
           \/ u = t /\ th'[u].dev = d /\ th'[u].pc = "bos"
           \/ u # t /\ Rundown(u) /\ th'[u] = th[u] /\ th[u].dev \in Devices \ {d}
    BY <1>1, <1>3, <1>4 DEF Others, Rundown, ObjInv, Fits
  <2>2. \A u \in Threads : Rundown(u)' => \A g \in Groups : grp'[g] # th'[u].dev
    BY <1>5, <2>1, Bounds DEF ObjInv, Rundowns
  <2>3. \A u, w \in Threads : Rundown(u)' /\ Rundown(w)' /\ th'[u].dev = th'[w].dev => u = w
    BY <2>1 DEF ObjInv, Rundowns
  <2>4. \A u \in Threads : th'[u].pc = "vms" => Rundown(u)'
    BY DEF Rundown
  <2>5. \A u \in Threads : th'[u].pc = "vms" => Owned(bo, th[u].dev)' = {} /\ th'[u] = th[u]
    BY <1>1, <2>1, <2>4 DEF ObjInv, Rundowns, Owned, Listed
  <2>6. QED
    BY <2>2, <2>3, <2>5 DEF Rundowns
<1>12. Idles
  BY <1>3, <1>4 DEF Idles, Others, Making
<1>13. KeepsMine /\ KeepsHeaps /\ KeepsTables
  BY <1>1, <1>12, HeapFacts DEF Idles, KeepsMine, KeepsHeaps, KeepsTables, SameBo, SameVm
<1>14. Hands' /\ Chains'
  BY <1>1, <1>12, <1>13, HandsKept, ChainsKept
<1>15. QED
  BY <1>6, <1>7, <1>8, <1>9, <1>10, <1>11, <1>14, InvParts

(* The rundown is alone with its device.                                    *)
LEMMA RundownAlone ==
  ASSUME ObjInv, NEW t \in Threads, Rundown(t)
  PROVE  /\ th[t].dev \in Devices /\ dev[th[t].dev] = "dying"
         /\ \A u \in Threads \ {t} : th[u].dev # th[t].dev
         /\ \A i : ~OnBo(t, i) /\ ~OnVm(t, i)
         /\ ~Making(t)
<1>1. th[t].dev \in Devices /\ dev[th[t].dev] = "dying"
  BY DEF ObjInv, Fits, Rundown
<1>2. ASSUME NEW u \in Threads \ {t}, th[u].dev = th[t].dev PROVE FALSE
  <2>1. CASE th[u].pc = "idle"
    BY <1>1, <1>2, <2>1, NewRecords, Bounds DEF ObjInv, Fits
  <2>2. CASE th[u].pc # "idle"
    BY <1>1, <1>2, <2>2 DEF ObjInv, Fits, Rundowns
  <2>3. QED
    BY <2>1, <2>2
<1>3. (\A i : ~OnBo(t, i) /\ ~OnVm(t, i)) /\ ~Making(t)
  BY DEF Rundown, OnBo, OnVm, HoldsBo, HoldsVm, Making
<1>4. QED
  BY <1>1, <1>2, <1>3

LEMMA BoRundownInv ==
  ASSUME ObjInv, NEW t \in Threads, BoRundownOwner(t)
  PROVE  ObjInv'
<1> DEFINE d == th[t].dev
           H == Owned(bo, d)
<1>1. /\ th[t].pc = "bos" /\ BoFree(H, d) /\ th' = [th EXCEPT ![t].pc = "vms"]
      /\ UNCHANGED <<dev, grp, crowded, vm, pt>>
  BY DEF BoRundownOwner, At, objects
<1>2. /\ d \in Devices /\ dev[d] = "dying" /\ Rundown(t) /\ ~Making(t)
      /\ \A u \in Threads \ {t} : th[u].dev # d
      /\ \A i : ~OnBo(t, i) /\ ~OnVm(t, i)
  BY <1>1, RundownAlone DEF Rundown
<1>3. /\ H \subseteq Listed(bo)
      /\ \A h \in Bos : h \in H <=> bo[h].at = "listed" /\ bo[h].owner = d
  BY TypeFacts DEF Owned, Listed, ObjInv
<1> HIDE DEF H
<1>4. /\ bo' \in [Bos -> BoRec] /\ MappingFollowsBo'
      /\ maps' \subseteq Bos \X Devices /\ heaps' \subseteq heaps
      /\ \A h \in Bos : bo'[h].at = "listed" => h \notin H /\ bo'[h] = bo[h]
      /\ \A h \in Bos \ H : SameBo(h)
      /\ \A h \in Bos : /\ bo[h].at # "none" => bo'[h].at # "none"
                        /\ bo'[h].at = "none" => bo'[h] = bo[h]
                        /\ bo[h].at = "none" => bo'[h].at = "none"
      /\ \A p \in heaps' : \A h \in Range(p.bos) : SameBo(h)
  BY <1>1, <1>2, <1>3, FreedFacts
<1>5. Others(t) /\ th' \in [Threads -> Frame] /\ th'[t].pc = "vms" /\ th'[t].dev = d
  <2>1. th \in [Threads -> Frame]
    BY TypeFacts DEF ObjInv
  <2>2. QED
    BY <1>1, <2>1 DEF Others, Frame, PCs
<1>6. InOrder /\ StillMade
  BY <1>1, <1>4 DEF InOrder, StillMade
<1>7. Types'
  <2>1. TypesNext
    BY <1>1, <1>4, <1>5, TypeFacts DEF TypesNext, ObjInv, Types
  <2>2. QED
    BY <1>6, <2>1, TypesKept
<1>8. RefsBalanced'
  <2>1. \A i : ~OnBo(t, i)' /\ ~OnVm(t, i)'
    BY <1>5 DEF OnBo, OnVm, HoldsBo, HoldsVm
  <2>2. BoCounted(t)
    <3>1. \A i \in Bos : bo[i].refs \in Int
      BY BoRefFacts DEF ObjInv
    <3>2. QED
      BY <1>2, <1>4, <2>1, <3>1 DEF BoCounted, One
  <2>3. VmCounted(t)
    BY <1>1, <1>2, <2>1, VmCounting
  <2>4. QED
    BY <1>1, <1>4, <1>5, <2>2, <2>3, TypeFacts, RefsKept DEF ObjInv
<1>9. Listed(bo)' \subseteq Listed(bo) /\ \A h \in Listed(bo)' : bo'[h] = bo[h] /\ h \in Bos /\ h \notin H
  BY <1>4, TypeFacts DEF Listed, ObjInv
<1>10. \A e : Owned(bo, e)' \subseteq Owned(bo, e)
  BY <1>9 DEF Owned
<1>11. \A e : e = d => Owned(bo, e)' = {}
  <2>1. \A h \in Listed(bo)' : bo'[h].owner # d
    BY <1>3, <1>4, <1>9 DEF Listed
  <2>2. QED
    BY <2>1 DEF Owned
<1>12. NothingOutlivesDevice'
  <2>1. \A e : Owned(vm, e)' = Owned(vm, e)
    BY <1>1 DEF Owned, Listed
  <2>2. QED
    BY <1>1, <1>10, <2>1 DEF ObjInv, NothingOutlivesDevice
<1>13. ASSUME NEW u \in Threads PROVE Fits(u)'
  <2>1. CASE u = t
    BY <1>1, <1>2, <1>5, <2>1 DEF Fits, Rundown, HoldsBo, HoldsVm
  <2>2. CASE u # t
    <3>1. th'[u] = th[u] /\ Fits(u)
      BY <1>5, <2>2 DEF Others, ObjInv
    <3>2. QED
      BY <1>1, <1>4, <3>1 DEF Fits, Rundown, HoldsBo, HoldsVm
  <2>3. QED
    BY <2>1, <2>2
<1>14. Rundowns'
  <2>1. \A u \in Threads : Rundown(u)' => Rundown(u) /\ th'[u].dev = th[u].dev
    BY <1>2, <1>5 DEF Others, Rundown
  <2>2. \A u \in Threads : th'[u].pc = "vms" => Owned(bo, th[u].dev)' = {} /\ th'[u].dev = th[u].dev
    BY <1>5, <1>10, <1>11 DEF Others, ObjInv, Rundowns
  <2>3. QED
    BY <1>1, <2>1, <2>2 DEF ObjInv, Rundowns
<1>15. Idles
  BY <1>5 DEF Idles, Others, Making
<1>16. KeepsMine
  <2>1. ASSUME NEW u \in Threads, Making(u)'
        PROVE  Mine(u) \subseteq Bos \ H /\ th[u].v \in VmIds
    <3>1. Making(u) /\ dev[th[u].dev] = "live"
      BY <1>15, <2>1 DEF Idles, Making, ObjInv, Fits, Rundown
    <3>2. \A h \in Mine(u) : h \in Bos /\ bo[h].owner # d
      BY <1>2, <3>1, HeapFacts DEF ObjInv, Hands
    <3>3. QED
      BY <1>3, <3>1, <3>2, HeapFacts
  <2>2. QED
    BY <1>1, <1>4, <2>1 DEF KeepsMine, SameVm
<1>17. KeepsHeaps
  BY <1>1, <1>4, TableStays DEF KeepsHeaps
<1>18. KeepsTables
  BY <1>1 DEF KeepsTables
<1>19. Hands' /\ Chains'
  BY <1>1, <1>15, <1>16, <1>17, <1>18, HandsKept, ChainsKept
<1>20. QED
  BY <1>4, <1>7, <1>8, <1>12, <1>13, <1>14, <1>19, InvParts

LEMMA VmRundownInv ==
  ASSUME ObjInv, NEW t \in Threads, VmRundownOwner(t)
  PROVE  ObjInv'
<1> DEFINE d == th[t].dev
           V == Owned(vm, d)
<1>1. /\ th[t].pc = "vms" /\ VmFree(V) /\ dev' = [dev EXCEPT ![d] = "gone"] /\ Return(t)
      /\ UNCHANGED <<bo, grp, maps, crowded>>
  BY DEF VmRundownOwner, At
<1>2. /\ d \in Devices /\ dev[d] = "dying" /\ Rundown(t) /\ ~Making(t)
      /\ \A u \in Threads \ {t} : th[u].dev # d
      /\ \A i : ~OnBo(t, i) /\ ~OnVm(t, i)
  BY <1>1, RundownAlone DEF Rundown
<1>3. \A v \in VmIds : v \in V <=> vm[v].at = "listed" /\ vm[v].owner = d
  BY TypeFacts DEF Owned, Listed, ObjInv
<1>4. heaps' = {p \in heaps : p.vm \notin V}
  BY <1>1 DEF VmFree
<1> HIDE DEF V
<1>5. /\ vm' \in [VmIds -> VmRec] /\ pt' \in [VmIds -> [UserVas \cup KmdVas -> 0..MaxBo]]
      /\ \A v \in VmIds : v \in V => vm'[v].at = "freed"
      /\ \A v \in VmIds \ V : vm'[v] = vm[v] /\ pt'[v] = pt[v]
  BY <1>1, VmFreeFacts DEF ObjInv
<1>6. /\ Others(t) /\ th' \in [Threads -> Frame] /\ ~Rundown(t)' /\ ~Making(t)' /\ Fits(t)'
      /\ \A i : ~OnBo(t, i)' /\ ~OnVm(t, i)'
  BY <1>1, ReturnFacts
<1>7. /\ dev' \in [Devices -> {"none", "live", "dying", "gone"}]
      /\ dev'[d] = "gone" /\ \A e \in Devices \ {d} : dev'[e] = dev[e]
  BY <1>1, <1>2, TypeFacts DEF ObjInv
<1>8. \A v \in VmIds : vm'[v].at = "listed" => v \notin V /\ vm'[v] = vm[v]
  BY <1>5
<1>9. InOrder /\ StillMade
  BY <1>1, <1>3, <1>5 DEF InOrder, StillMade
<1>10. Types'
  <2>1. TypesNext
    BY <1>1, <1>4, <1>5, <1>6, <1>7, TypeFacts DEF TypesNext, ObjInv, Types
  <2>2. QED
    BY <1>9, <2>1, TypesKept
<1>11. RefsBalanced'
  <2>1. VmCounted(t)
    <3>1. \A i \in VmIds : vm[i].refs \in Int
      BY VmRefFacts DEF ObjInv
    <3>2. QED
      BY <1>2, <1>6, <1>8, <3>1 DEF VmCounted, One
  <2>2. BoCounted(t)
    BY <1>1, <1>2, <1>6, BoCounting
  <2>3. QED
    BY <1>1, <1>5, <1>6, <2>1, <2>2, TypeFacts, RefsKept DEF ObjInv
<1>12. MappingFollowsBo'
  BY <1>1, MapsKept
<1>13. /\ \A e : Owned(vm, e)' \subseteq Owned(vm, e) /\ Owned(bo, e)' = Owned(bo, e)
       /\ \A e : e = d => Owned(vm, e)' = {}
  <2>1. Listed(vm)' \subseteq Listed(vm) /\ \A v \in Listed(vm)' : vm'[v] = vm[v] /\ v \in VmIds \ V
    BY <1>5, <1>8, TypeFacts DEF Listed, ObjInv
  <2>2. \A e : Owned(bo, e)' = Owned(bo, e)
    BY <1>1 DEF Owned, Listed
  <2>3. \A v \in Listed(vm)' : vm'[v].owner # d
    BY <1>3, <1>8, <2>1 DEF Listed
  <2>4. QED
    BY <2>1, <2>2, <2>3 DEF Owned
<1>14. NothingOutlivesDevice'
  <2>1. Owned(bo, d) = {} /\ \A g \in Groups : grp[g] # d
    BY <1>1, <1>2 DEF ObjInv, Rundowns
  <2>2. SUFFICES ASSUME NEW e \in Devices, dev'[e] = "gone"
                 PROVE  /\ Owned(bo, e)' = {} /\ Owned(vm, e)' = {}
                        /\ \A g \in Groups : grp'[g] # e
    BY DEF NothingOutlivesDevice
  <2>3. CASE e = d
    BY <1>1, <1>13, <2>1, <2>3
  <2>4. CASE e # d
    BY <1>1, <1>7, <1>13, <2>2, <2>4 DEF ObjInv, NothingOutlivesDevice
  <2>5. QED
    BY <2>3, <2>4
<1>15. ASSUME NEW u \in Threads PROVE Fits(u)'
  <2>1. CASE u # t
    <3>1. th'[u] = th[u] /\ Fits(u) /\ th[u].dev # d
      BY <1>2, <1>6, <2>1 DEF Others, ObjInv
    <3>2. QED
      BY <1>1, <1>7, <1>9, <3>1 DEF Fits, Rundown, HoldsBo, HoldsVm, StillMade
  <2>2. QED
    BY <1>6, <2>1
<1>16. Rundowns'
  <2>1. \A u \in Threads : Rundown(u)' => Rundown(u) /\ th'[u] = th[u]
    BY <1>6 DEF Others, Rundown
  <2>2. \A u \in Threads : th'[u].pc = "vms" => Rundown(u)'
    BY DEF Rundown
  <2>3. QED
    BY <1>1, <1>13, <2>1, <2>2 DEF ObjInv, Rundowns
<1>17. Idles
  BY <1>6 DEF Idles, Others, Making
<1>18. KeepsMine
  <2>1. \A u \in Threads : Making(u)' => Mine(u) \subseteq Bos /\ th[u].v \in VmIds
    BY <1>17, HeapFacts DEF Idles
  <2>2. QED
    BY <1>1, <1>8, <2>1 DEF KeepsMine, SameVm, SameBo
<1>19. KeepsHeaps
  <2>1. \A p \in heaps' : p \in heaps /\ p.vm \in VmIds \ V
    BY <1>4, HeapFacts
  <2>2. QED
    BY <1>1, <1>5, <2>1, TableStays DEF KeepsHeaps, SameVm
<1>20. KeepsTables
  BY <1>5, <1>8 DEF KeepsTables
<1>21. Hands' /\ Chains'
  BY <1>1, <1>17, <1>18, <1>19, <1>20, HandsKept, ChainsKept
<1>22. QED
  BY <1>10, <1>11, <1>12, <1>14, <1>15, <1>16, <1>21, InvParts

-----------------------------------------------------------------------------
(* A heap in the making.                                                    *)

LEMMA MakerStep ==
  ASSUME ObjInv, NEW t \in Threads, Others(t), ~Rundown(t), ~Rundown(t)', Fits(t)',
         UNCHANGED dev, TypesNext, InOrder, StillMade, OwnersFit,
         BoCounted(t), VmCounted(t), MappingFollowsBo', Hands', Chains'
  PROVE  ObjInv'
<1>1. DOMAIN bo' = Bos /\ DOMAIN vm' = VmIds
  BY DEF TypesNext
<1>2. Types'
  BY TypesKept
<1>3. RefsBalanced'
  BY <1>1, RefsKept
<1>4. NothingOutlivesDevice' /\ Rundowns' /\ \A u \in Threads : Fits(u)'
  BY <1>1, DevsKept
<1>5. QED
  BY <1>2, <1>3, <1>4, InvParts

(* What the maker changes is not another maker's, nor a heap's.             *)
ElseSame(t) ==
  /\ \A u \in Threads \ {t} : Making(u) => \A h \in Mine(u) : SameBo(h)
  /\ \A p \in heaps : \A h \in Range(p.bos) : SameBo(h)

LEMMA HandsGrow ==
  ASSUME ObjInv, NEW t \in Threads, Others(t), ElseSame(t), heaps \subseteq heaps',
         \A v \in VmIds : vm'[v].at = vm[v].at,
         Making(t)' =>
           /\ Own(t)' \cap Range(th'[t].bos) = {}
           /\ \A h \in Mine(t)' : Reserved(h)' /\ bo'[h].owner = th'[t].dev
           /\ \A u \in Threads \ {t} : Making(u) => Mine(t)' \cap Mine(u) = {}
           /\ \A p \in heaps : Range(p.bos) \cap Mine(t)' = {},
         \A p \in heaps' \ heaps :
           /\ vm'[p.vm].at = "listed" /\ ~Making(t)' /\ Range(p.bos) \subseteq Mine(t) /\ Making(t)
           /\ \A h \in Range(p.bos) : Reserved(h)'
  PROVE  Hands'
<1>1. \A u \in Threads \ {t} : (Making(u)' <=> Making(u)) /\ th'[u] = th[u] /\ Own(u)' = Own(u) /\ Mine(u)' = Mine(u)
  BY DEF Others, Own, Mine, Making
<1>2. ASSUME NEW u \in Threads, Making(u)'
      PROVE  /\ Own(u)' \cap Range(th'[u].bos) = {}
             /\ \A h \in Mine(u)' : Reserved(h)' /\ bo'[h].owner = th'[u].dev
             /\ \A w \in Threads : Making(w)' /\ w # u => Mine(u)' \cap Mine(w)' = {}
  <2>1. CASE u = t
    BY <1>1, <1>2, <2>1
  <2>2. CASE u # t
    <3>1. /\ Own(u) \cap Range(th[u].bos) = {}
          /\ \A h \in Mine(u) : Reserved(h) /\ bo[h].owner = th[u].dev
          /\ \A w \in Threads : Making(w) /\ w # u => Mine(u) \cap Mine(w) = {}
      BY <1>1, <1>2, <2>2 DEF ObjInv, Hands
    <3>2. \A h \in Mine(u) : Reserved(h)' /\ bo'[h].owner = th[u].dev
      BY <1>1, <1>2, <2>2, <3>1 DEF ElseSame, SameBo, Reserved
    <3>3. \A w \in Threads : Making(w)' /\ w # u => Mine(u) \cap Mine(w)' = {}
      BY <1>1, <1>2, <2>2, <3>1
    <3>4. QED
      BY <1>1, <2>2, <3>1, <3>2, <3>3
  <2>3. QED
    BY <2>1, <2>2
<1>3. ASSUME NEW p \in heaps'
      PROVE  /\ vm'[p.vm].at = "listed"
             /\ \A h \in Range(p.bos) : Reserved(h)'
             /\ \A u \in Threads : Making(u)' => Range(p.bos) \cap Mine(u)' = {}
  <2>1. CASE p \in heaps
    <3>1. /\ vm[p.vm].at = "listed" /\ p.vm \in VmIds
          /\ \A h \in Range(p.bos) : Reserved(h)
          /\ \A u \in Threads : Making(u) => Range(p.bos) \cap Mine(u) = {}
      BY <2>1, HeapFacts DEF ObjInv, Hands
    <3>2. \A h \in Range(p.bos) : Reserved(h)'
      BY <2>1, <3>1 DEF ElseSame, SameBo, Reserved
    <3>3. QED
      BY <1>1, <2>1, <3>1, <3>2
  <2>2. CASE p \notin heaps
    <3>1. \A u \in Threads : Making(u)' => u # t /\ Mine(t) \cap Mine(u) = {}
      BY <1>1, <2>2 DEF ObjInv, Hands
    <3>2. QED
      BY <1>1, <2>2, <3>1
  <2>3. QED
    BY <2>1, <2>2
<1>4. QED
  BY <1>2, <1>3, Zenon DEF Hands

(* A chain stays when the next address only grows.                          *)
LEMMA ChainGrown ==
  ASSUME NEW v \in VmIds, NEW vas \in Seq(KmdVas), NEW bos \in Seq(Bos), Chain(v, vas, bos),
         vm[v].kmdVaNext \in Nat, vm'[v].kmdVaNext \in Nat, vm[v].kmdVaNext <= vm'[v].kmdVaNext,
         \A h \in Range(bos) : bo'[h].next = bo[h].next,
         \A a \in Range(vas) : pt'[v][a] = pt[v][a]
  PROVE  Chain(v, vas, bos)'
<1>1. Len(vas) \in Nat /\ Len(bos) = Len(vas)
  BY SeqFacts DEF Chain
<1>2. \A i \in 1..Len(vas) : vas[i] \in Range(vas) /\ bos[i] \in Range(bos) /\ vas[i] \in Nat
  BY <1>1, SeqFacts, Bounds
<1>3. \A i \in 1..Len(vas) : vas[i] < vm'[v].kmdVaNext
  BY <1>2 DEF Chain
<1>4. QED
  BY <1>1, <1>2, <1>3 DEF Chain

(* Makers that were alone on their VM stay so; the one that steps moves the *)
(* next address up, and writes no page below it.                            *)
GrowsOn(t, v) ==
  /\ vm[v].at = "listed" /\ vm'[v].at = "listed"
  /\ \A w \in VmIds \ {v} : SameVm(w) /\ \A a \in KmdVas : pt'[w][a] = pt[w][a]
  /\ crowded \subseteq crowded'
  /\ \A w \in VmIds \ {v} : w \in crowded' => w \in crowded
  /\ v \notin crowded' =>
       /\ vm[v].kmdVaNext <= vm'[v].kmdVaNext
       /\ \A u \in Threads \ {t} : Making(u) => th[u].v # v
       /\ \A a \in KmdVas : a < vm[v].kmdVaNext => pt'[v][a] = pt[v][a]

LEMMA ChainsGrow ==
  ASSUME ObjInv, NEW t \in Threads, NEW v \in VmIds, Others(t), ElseSame(t), GrowsOn(t, v),
         vm' \in [VmIds -> VmRec], heaps' \subseteq Heap,
         Making(t)' =>
           /\ th'[t].v = v /\ Len(th'[t].vas) = Len(th'[t].bos)
           /\ v \notin crowded' =>
                /\ Chain(th[t].v, th[t].vas, th[t].bos)'
                /\ th'[t].pc \in {"get", "stamp"} => th'[t].va = vm'[v].kmdVaNext
                /\ th'[t].pc = "stamp" => pt'[v][th'[t].va] = th'[t].h,
         \A p \in heaps' \ heaps : p.vm = v /\ (v \notin crowded' => Chain(p.vm, p.vas, p.bos)')
  PROVE  Chains'
<1>1. \A u \in Threads \ {t} : (Making(u)' <=> Making(u)) /\ th'[u] = th[u]
  BY DEF Others, Making
<1>2. \A w \in VmIds : vm[w].kmdVaNext \in Nat /\ vm'[w].kmdVaNext \in Nat
  BY TypeFacts DEF ObjInv, VmRec
<1>3. ASSUME NEW w \in VmIds, w \notin crowded', vm[w].at = "listed",
             NEW vas \in Seq(KmdVas), NEW bos \in Seq(Bos), Chain(w, vas, bos),
             \A h \in Range(bos) : SameBo(h)
      PROVE  Chain(w, vas, bos)'
  <2>1. vm[w].kmdVaNext <= vm'[w].kmdVaNext
    BY <1>2, <1>3 DEF GrowsOn, SameVm
  <2>2. \A a \in Range(vas) : pt'[w][a] = pt[w][a]
    <3> SUFFICES ASSUME NEW i \in 1..Len(vas) PROVE pt'[w][vas[i]] = pt[w][vas[i]]
      BY <1>3, SeqFacts
    <3>1. vas[i] \in KmdVas /\ vas[i] < vm[w].kmdVaNext
      BY <1>3, SeqFacts DEF Chain
    <3>2. QED
      BY <1>3, <3>1 DEF GrowsOn
  <2>3. QED
    BY <1>2, <1>3, <2>1, <2>2, ChainGrown DEF SameBo
<1>4. ASSUME NEW p \in heaps', p.vm \notin crowded'
      PROVE  Chain(p.vm, p.vas, p.bos)'
  <2>1. CASE p \in heaps
    <3>1. /\ p.vm \in VmIds /\ p.vas \in Seq(KmdVas) /\ p.bos \in Seq(Bos) /\ vm[p.vm].at = "listed"
          /\ p.vm \notin crowded
      BY <1>4, <2>1, HeapFacts DEF ObjInv, Hands, GrowsOn
    <3>2. Chain(p.vm, p.vas, p.bos)
      BY <2>1, <3>1 DEF ObjInv, Chains
    <3>3. QED
      BY <1>3, <1>4, <2>1, <3>1, <3>2 DEF ElseSame
  <2>2. CASE p \notin heaps
    BY <1>4, <2>2
  <2>3. QED
    BY <2>1, <2>2
<1>5. ASSUME NEW u \in Threads, Making(u)'
      PROVE  Len(th'[u].vas) = Len(th'[u].bos)
  <2>1. CASE u = t
    BY <1>5, <2>1
  <2>2. CASE u # t
    BY <1>1, <1>5, <2>2 DEF ObjInv, Chains
  <2>3. QED
    BY <2>1, <2>2
<1>6. ASSUME NEW u \in Threads, Making(u)', th'[u].v \notin crowded', vm'[th'[u].v].at = "listed"
      PROVE  /\ Chain(th[u].v, th[u].vas, th[u].bos)'
             /\ th'[u].pc \in {"get", "stamp"} => th'[u].va = vm'[th'[u].v].kmdVaNext
             /\ th'[u].pc = "stamp" => pt'[th'[u].v][th'[u].va] = th'[u].h
             /\ \A x \in Threads : Making(x)' /\ th'[x].v = th'[u].v => x = u
  <2>1. CASE u = t
    BY <1>1, <1>6, <2>1 DEF GrowsOn
  <2>2. CASE u # t
    <3> DEFINE w == th[u].v
    <3>1. Making(u) /\ th'[u] = th[u] /\ w \in VmIds
      BY <1>1, <1>6, <2>2, HeapFacts
    <3>2. w # v /\ w \notin crowded /\ SameVm(w) /\ vm[w].at = "listed"
          /\ \A a \in KmdVas : pt'[w][a] = pt[w][a]
      BY <1>6, <2>2, <3>1 DEF GrowsOn, SameVm
    <3>3. /\ Chain(w, th[u].vas, th[u].bos)
          /\ th[u].pc \in {"get", "stamp"} => th[u].va = vm[w].kmdVaNext
          /\ th[u].pc = "stamp" => pt[w][th[u].va] = th[u].h
          /\ \A x \in Threads : Making(x) /\ th[x].v = w => x = u
      BY <3>1, <3>2 DEF ObjInv, Chains
    <3>4. /\ th[u].vas \in Seq(KmdVas) /\ th[u].bos \in Seq(Bos)
          /\ Range(th[u].bos) \subseteq Mine(u)
      BY HeapFacts DEF Mine
    <3>5. Chain(w, th[u].vas, th[u].bos)'
      <4>1. \A h \in Range(th[u].bos) : SameBo(h)
        BY <2>2, <3>1, <3>4 DEF ElseSame
      <4>2. \A c \in Seq(KmdVas), b \in Seq(Bos) :
               Chain(w, c, b) /\ (\A h \in Range(b) : SameBo(h)) =>
               \A e : e = w => Chain(e, c, b)'
        BY <1>3, <1>6, <3>1, <3>2
      <4>3. QED
        BY <3>1, <3>3, <3>4, <4>1, <4>2
    <3>6. th[u].pc \in {"get", "stamp"} => th[u].va \in KmdVas
      BY DEF ObjInv, Fits
    <3>7. \A x \in Threads : Making(x)' /\ th'[x].v = w => x = u
      BY <1>1, <3>2, <3>3
    <3>8. QED
      BY <3>1, <3>2, <3>3, <3>5, <3>6, <3>7 DEF SameVm
  <2>3. QED
    BY <2>1, <2>2
<1>7. QED
  BY <1>4, <1>5, <1>6 DEF Chains

(* The next chunk links to the last one.                                    *)
LEMMA ChainAppend ==
  ASSUME NEW v \in VmIds, NEW vas \in Seq(KmdVas), NEW bos \in Seq(Bos), Chain(v, vas, bos),
         NEW h \in Bos, NEW a \in KmdVas, h \notin Range(bos),
         vm[v].kmdVaNext \in Nat, vm'[v].kmdVaNext \in Nat,
         a = vm[v].kmdVaNext, a < vm'[v].kmdVaNext,
         pt[v][a] = h, UNCHANGED pt,
         bo'[h].next = IF Len(vas) <= 1 THEN 0 ELSE Last(vas),
         \A g \in Range(bos) : bo'[g].next = bo[g].next
  PROVE  Chain(v, Append(vas, a), Append(bos, h))'
<1> DEFINE c == Append(vas, a)
           b == Append(bos, h)
           n == Len(vas)
<1>1. n \in Nat /\ Len(bos) = n /\ Len(c) = n + 1 /\ Len(b) = n + 1
      /\ DOMAIN c = 1..(n + 1) /\ DOMAIN vas = 1..n
  BY SeqFacts DEF Chain
<1>2. /\ \A i \in 1..n : c[i] = vas[i] /\ b[i] = bos[i]
      /\ c[n + 1] = a /\ b[n + 1] = h
  BY <1>1
<1>3. \A i \in 1..n : /\ vas[i] \in Nat /\ vas[i] < a /\ pt[v][vas[i]] = bos[i]
                      /\ bo'[bos[i]].next = IF i <= 2 THEN 0 ELSE vas[i - 1]
  <2>1. \A i \in 1..n : vas[i] \in KmdVas /\ bos[i] \in Range(bos)
    BY <1>1, SeqFacts
  <2>2. QED
    BY <1>1, <2>1, Bounds DEF Chain
<1>4. \A i, j \in 1..n : vas[i] = vas[j] => i = j
  BY <1>1 DEF Chain, IsInjective
<1> HIDE DEF c, b
<1>5. IsInjective(c)
  <2> SUFFICES ASSUME NEW i \in 1..(n + 1), NEW j \in 1..(n + 1), c[i] = c[j] PROVE i = j
    BY <1>1 DEF IsInjective
  <2>1. CASE i \in 1..n /\ j \in 1..n
    BY <1>2, <1>4, <2>1
  <2>2. CASE i \in 1..n /\ j = n + 1
    BY <1>2, <1>3, <2>2
  <2>3. CASE j \in 1..n /\ i = n + 1
    BY <1>2, <1>3, <2>3
  <2>4. QED
    BY <1>1, <2>1, <2>2, <2>3
<1>6. ASSUME NEW i \in 1..(n + 1)
      PROVE  /\ c[i] < vm'[v].kmdVaNext /\ pt'[v][c[i]] = b[i]
             /\ bo'[b[i]].next = IF i <= 2 THEN 0 ELSE c[i - 1]
  <2>1. CASE i \in 1..n
    <3>1. i > 2 => i - 1 \in 1..n
      BY <1>1, <2>1
    <3>2. c[i] < vm'[v].kmdVaNext /\ pt'[v][c[i]] = b[i]
      BY <1>2, <1>3, <2>1, Bounds
    <3>3. b[i] = bos[i] /\ i \in Nat
      BY <1>1, <1>2, <2>1
    <3>4. bo'[bos[i]].next = IF i <= 2 THEN 0 ELSE vas[i - 1]
      BY <1>3, <2>1, Zenon
    <3>5. CASE i <= 2
      BY <3>2, <3>3, <3>4, <3>5
    <3>6. CASE ~(i <= 2)
      <4>1. i - 1 \in 1..n
        BY <3>1, <3>3, <3>6
      <4>2. c[i - 1] = vas[i - 1]
        BY <1>2, <4>1, Zenon
      <4>3. QED
        BY <3>2, <3>3, <3>4, <3>6, <4>2
    <3>7. QED
      BY <3>5, <3>6
  <2>2. CASE i = n + 1
    <3>1. n > 1 => Last(vas) = vas[n] /\ n \in 1..n
      BY <1>1 DEF Last
    <3>2. n > 1 => c[i - 1] = vas[n]
      BY <1>1, <1>2, <2>2, <3>1
    <3>3. QED
      BY <1>1, <1>2, <2>2, <3>1, <3>2
  <2>3. QED
    BY <1>1, <2>1, <2>2
<1>7. QED
  BY <1>1, <1>5, <1>6 DEF Chain, c, b

(* HeapAllocMapped, second half: the BO is held and mapped at the address   *)
(* it was made for, which on a VM with one maker is in no chain.            *)
LEMMA MakerFacts ==
  ASSUME ObjInv, NEW t \in Threads, Making(t), vm[th[t].v].at = "listed"
  PROVE  /\ th[t].v \in VmIds /\ th[t].dev \in Devices /\ dev[th[t].dev] = "live" /\ ~Rundown(t)
         /\ th[t].vas \in Seq(KmdVas) /\ th[t].bos \in Seq(Bos)
         /\ Len(th[t].vas) = Len(th[t].bos)
         /\ Own(t) \cap Range(th[t].bos) = {}
         /\ Mine(t) \subseteq Bos /\ \A h \in Mine(t) : Reserved(h) /\ bo[h].owner = th[t].dev
         /\ \A u \in Threads \ {t} : Making(u) => Mine(t) \cap Mine(u) = {}
         /\ \A p \in heaps : Range(p.bos) \cap Mine(t) = {}
         /\ th[t].pc \in {"get", "stamp"} =>
              th[t].h \in Bos /\ th[t].h \in Mine(t) /\ th[t].va \in KmdVas
         /\ th[t].v \notin crowded =>
              /\ Chain(th[t].v, th[t].vas, th[t].bos)
              /\ th[t].pc \in {"get", "stamp"} => th[t].va = vm[th[t].v].kmdVaNext
              /\ th[t].pc = "stamp" => pt[th[t].v][th[t].va] = th[t].h
              /\ \A u \in Threads \ {t} : Making(u) => th[u].v # th[t].v
<1>1. th[t].v \in VmIds /\ th[t].vas \in Seq(KmdVas) /\ th[t].bos \in Seq(Bos) /\ Mine(t) \subseteq Bos
  BY HeapFacts
<1>2. /\ th[t].dev \in Devices /\ dev[th[t].dev] = "live" /\ ~Rundown(t)
      /\ th[t].pc \in {"get", "stamp"} => th[t].h \in Bos /\ th[t].va \in KmdVas
  BY HeapFacts DEF ObjInv, Fits, Making, Rundown
<1>3. th[t].pc \in {"get", "stamp"} => th[t].h \in Mine(t)
  BY DEF Mine, Own
<1>4. /\ Own(t) \cap Range(th[t].bos) = {}
      /\ \A h \in Mine(t) : Reserved(h) /\ bo[h].owner = th[t].dev
      /\ \A u \in Threads \ {t} : Making(u) => Mine(t) \cap Mine(u) = {}
      /\ \A p \in heaps : Range(p.bos) \cap Mine(t) = {}
  BY DEF ObjInv, Hands
<1>5. /\ Len(th[t].vas) = Len(th[t].bos)
      /\ th[t].v \notin crowded =>
              /\ Chain(th[t].v, th[t].vas, th[t].bos)
              /\ th[t].pc \in {"get", "stamp"} => th[t].va = vm[th[t].v].kmdVaNext
              /\ th[t].pc = "stamp" => pt[th[t].v][th[t].va] = th[t].h
              /\ \A u \in Threads \ {t} : Making(u) => th[u].v # th[t].v
  BY DEF ObjInv, Chains
<1>6. QED
  BY <1>1, <1>2, <1>3, <1>4, <1>5

LEMMA HeapMapInv ==
  ASSUME ObjInv, NEW t \in Threads, HeapMap(t)
  PROVE  ObjInv'
<1> DEFINE h == th[t].h
           v == th[t].v
           a == th[t].va
<1>1. /\ th[t].pc = "get" /\ vm[v].at = "listed" /\ bo[h].at = "listed" /\ bo' = Get(bo, h)
      /\ Writes(v, a, h) /\ th' = [th EXCEPT ![t].pc = "stamp"]
      /\ UNCHANGED <<dev, grp, crowded, heaps, vm, maps>>
  BY DEF HeapMap, At, objects, Writes
<1>2. Making(t) /\ h \in Bos /\ v \in VmIds /\ a \in KmdVas /\ ~Rundown(t)
  BY <1>1, MakerFacts DEF Making
<1>3. /\ Others(t) /\ th' \in [Threads -> Frame] /\ th'[t].pc = "stamp" /\ th'[t].dev = th[t].dev
      /\ th'[t].h = h /\ th'[t].v = v /\ th'[t].va = a
      /\ th'[t].vas = th[t].vas /\ th'[t].bos = th[t].bos
  <2>1. th \in [Threads -> Frame]
    BY TypeFacts DEF ObjInv
  <2>2. QED
    BY <1>1, <2>1 DEF Others, Frame, PCs
<1>4. bo' \in [Bos -> BoRec] /\ TouchesBo /\ \A i \in Bos : SameBo(i) /\ bo'[i].va = bo[i].va
  <2>1. bo' \in [Bos -> BoRec] /\ TouchesBo
    BY <1>1, <1>2, BoRefFacts, TouchesFacts DEF ObjInv
  <2>2. \A i \in Bos : bo'[i].va = bo[i].va
    BY <1>1, <1>2, BoRefFacts DEF ObjInv, BoButRefs
  <2>3. QED
    BY <2>1, <2>2 DEF TouchesBo
<1>5. /\ pt' \in [VmIds -> [UserVas \cup KmdVas -> 0..MaxBo]] /\ pt'[v][a] = h
      /\ \A w \in VmIds, x \in KmdVas : w # v \/ x # a => pt'[w][x] = pt[w][x]
  <2>1. h \in 0..MaxBo /\ a \in UserVas \cup KmdVas /\ Writes(v, a, h)
    BY <1>1, <1>2, Bounds
  <2>2. QED
    BY <1>2, <2>1, TableFacts
<1>6. /\ TypesNext /\ InOrder /\ StillMade /\ OwnersFit /\ MappingFollowsBo'
  <2>1. TypesNext
    BY <1>1, <1>3, <1>4, <1>5, Stutter DEF TypesNext
  <2>2. InOrder /\ StillMade
    BY <1>1, <1>4 DEF InOrder, StillMade, TouchesBo, SameBo
  <2>3. OwnersFit
    BY <1>1, <1>4 DEF OwnersFit, SameBo
  <2>4. QED
    BY <1>1, <1>4, <2>1, <2>2, <2>3, TouchesFacts
<1>7. /\ ~Rundown(t)' /\ Making(t)' /\ Own(t)' = Own(t) /\ Mine(t)' = Mine(t)
      /\ \A i : ~OnBo(t, i) /\ (OnBo(t, i)' <=> i = h) /\ (OnVm(t, i)' <=> OnVm(t, i))
  BY <1>1, <1>3 DEF Rundown, Making, Own, Mine, OnBo, OnVm, HoldsBo, HoldsVm
<1>8. Fits(t)'
  BY <1>1, <1>2, <1>3, <1>4, MakerFacts DEF Fits, Rundown, HoldsBo, HoldsVm, SameBo
<1>9. BoCounted(t) /\ VmCounted(t)
  BY <1>1, <1>2, <1>7, BoCounting, VmCounting
<1>10. ElseSame(t)
  BY <1>4, HeapFacts DEF ElseSame
<1>11. Hands'
  <2>1. \A i \in Mine(t)' : Reserved(i)' /\ bo'[i].owner = th'[t].dev
    BY <1>1, <1>2, <1>3, <1>4, <1>7, MakerFacts DEF Reserved, SameBo
  <2>2. Own(t)' \cap Range(th'[t].bos) = {}
    BY <1>1, <1>2, <1>3, <1>7, MakerFacts
  <2>3. QED
    BY <1>1, <1>2, <1>3, <1>7, <1>10, <2>1, <2>2, MakerFacts, HandsGrow
<1>12. GrowsOn(t, v)
  <2>1. v \notin crowded => a = vm[v].kmdVaNext /\ \A u \in Threads \ {t} : Making(u) => th[u].v # v
    BY <1>1, <1>2, MakerFacts
  <2>2. vm[v].kmdVaNext \in Nat
    BY <1>2, TypeFacts DEF ObjInv, VmRec
  <2>3. QED
    BY <1>1, <1>2, <1>5, <2>1, <2>2, Bounds DEF GrowsOn, SameVm
<1>13. v \notin crowded => Chain(v, th[t].vas, th[t].bos)'
  <2> SUFFICES ASSUME v \notin crowded PROVE Chain(v, th[t].vas, th[t].bos)'
    OBVIOUS
  <2> DEFINE vas == th[t].vas
             bos == th[t].bos
  <2>1. vas \in Seq(KmdVas) /\ bos \in Seq(Bos) /\ Chain(v, vas, bos) /\ a = vm[v].kmdVaNext
    BY <1>1, <1>2, MakerFacts
  <2>2. vm[v].kmdVaNext \in Nat
    BY <1>2, TypeFacts DEF ObjInv, VmRec
  <2>3. \A x \in Range(vas) : pt'[v][x] = pt[v][x]
    <3>1. \A i \in 1..Len(vas) : vas[i] \in KmdVas /\ vas[i] < vm[v].kmdVaNext
      BY <2>1, SeqFacts DEF Chain
    <3>2. \A x \in Range(vas) : \E i \in 1..Len(vas) : vas[i] = x
      BY <2>1, SeqFacts
    <3>3. \A x \in Range(vas) : x \in KmdVas /\ x # a
      BY <2>1, <2>2, <3>1, <3>2, Bounds
    <3>4. QED
      BY <1>2, <1>5, <3>3
  <2>4. \A i \in Range(bos) : bo'[i].next = bo[i].next
    BY <1>4, <2>1, SeqFacts DEF SameBo
  <2>5. \A c \in Seq(KmdVas), b \in Seq(Bos), w \in VmIds :
          /\ Chain(w, c, b) /\ w = v
          /\ \A x \in Range(c) : pt'[v][x] = pt[v][x]
          /\ \A i \in Range(b) : bo'[i].next = bo[i].next
          => Chain(w, c, b)'
    BY <1>1, <2>2, ChainGrown
  <2>6. QED
    BY <1>2, <1>3, <2>1, <2>3, <2>4, <2>5
<1>14. Chains'
  <2>1. vm' \in [VmIds -> VmRec] /\ heaps' \subseteq Heap /\ heaps' \ heaps = {}
    BY <1>1, <1>6 DEF TypesNext
  <2>2. Len(th'[t].vas) = Len(th'[t].bos)
    BY <1>1, <1>2, <1>3, MakerFacts
  <2>3. ASSUME NEW w, w = v, w \notin crowded'
        PROVE  /\ Chain(th[t].v, th[t].vas, th[t].bos)'
               /\ th'[t].va = vm'[w].kmdVaNext /\ pt'[w][th'[t].va] = th'[t].h
    BY <1>1, <1>2, <1>3, <1>5, <1>13, <2>3, MakerFacts
  <2>4. QED
    BY <1>2, <1>3, <1>10, <1>12, <2>1, <2>2, <2>3, ChainsGrow
<1>15. QED
  BY <1>1, <1>2, <1>3, <1>6, <1>7, <1>8, <1>9, <1>11, <1>14, MakerStep

(* HeapAllocMapped, first half: a BO no escape knows, for the address       *)
(* KmdVaNext holds.                                                         *)
LEMMA HeapAllocInv ==
  ASSUME ObjInv, NEW t \in Threads, HeapAlloc(t)
  PROVE  ObjInv'
<1> DEFINE v == th[t].v
           d == th[t].dev
           n == NextBo
           a == vm[v].kmdVaNext
<1>1. /\ th[t].pc = "alloc" /\ vm[v].at = "listed" /\ Unused(bo) # {} /\ a <= KmdVaTop
      /\ bo' = [bo EXCEPT ![n] = BoNew(d)] /\ GoesOn(t, "get", n, a)
      /\ UNCHANGED <<dev, grp, crowded, heaps, vm, pt, maps>>
  BY DEF HeapAlloc, At, objects, GoesOn
<1>2. /\ Making(t) /\ v \in VmIds /\ d \in Devices /\ dev[d] = "live" /\ ~Rundown(t)
      /\ th[t].bos \in Seq(Bos) /\ Mine(t) = Range(th[t].bos)
  BY <1>1, MakerFacts DEF Making, Mine, Own
<1>3. a \in KmdVas
  <2>1. a \in Nat \ {0}
    BY <1>2, TypeFacts DEF ObjInv, VmRec
  <2>2. QED
    BY <1>1, <2>1, Bounds DEF KmdVas
<1>4. /\ BoNew(d) \in BoRec /\ BoNew(d).at = "listed" /\ BoNew(d).owner = d
      /\ BoNew(d).refs = 1 /\ ~BoNew(d).told
  BY <1>2, BoNewFacts
<1>5. /\ bo' \in [Bos -> BoRec] /\ bo'[n] = BoNew(d) /\ n \in Bos /\ bo[n].at = "none"
      /\ (\A h \in Bos \ {n} : bo'[h] = bo[h]) /\ InOrder /\ StillMade /\ MappingFollowsBo'
      /\ \A u \in Threads : Making(u) => n \notin Mine(u) /\ \A h \in Mine(u) : SameBo(h)
      /\ \A p \in heaps : n \notin Range(p.bos) /\ \A h \in Range(p.bos) : SameBo(h)
  BY <1>1, <1>4, NewBoFacts
<1>6. /\ Others(t) /\ th' \in [Threads -> Frame] /\ th'[t].pc = "get" /\ th'[t].h = n
      /\ th'[t].va = a /\ th'[t].v = v /\ th'[t].dev = d
      /\ th'[t].vas = th[t].vas /\ th'[t].bos = th[t].bos
  <2>1. "get" \in PCs /\ n \in 0..MaxBo /\ a \in UserVas \cup KmdVas \cup {Unmapped}
    BY <1>3, <1>5, Bounds DEF PCs
  <2>2. QED
    BY <1>1, <2>1, GoOnFacts
<1>7. TypesNext
  BY <1>1, <1>5, <1>6, Stutter DEF TypesNext
<1>8. OwnersFit
  BY <1>1, <1>2, <1>4, <1>5 DEF OwnersFit
<1>9. /\ ~Rundown(t)' /\ Making(t)' /\ Own(t)' = {n} /\ Mine(t)' = Mine(t) \cup {n}
      /\ \A i : ~OnBo(t, i) /\ ~OnBo(t, i)' /\ (OnVm(t, i)' <=> OnVm(t, i))
  BY <1>1, <1>2, <1>6 DEF Rundown, Making, Own, Mine, OnBo, OnVm, HoldsBo, HoldsVm
<1>10. Fits(t)'
  BY <1>1, <1>2, <1>3, <1>4, <1>5, <1>6 DEF Fits, Rundown, HoldsBo, HoldsVm
<1>11. BoCounted(t)
  <2>1. \A i \in Bos : bo[i].refs \in Int
    BY BoRefFacts DEF ObjInv
  <2>2. QED
    BY <1>4, <1>5, <1>9, <2>1 DEF BoCounted, One
<1>12. VmCounted(t)
  BY <1>1, <1>9, VmCounting
<1>13. ElseSame(t)
  BY <1>5 DEF ElseSame
<1>14. Hands'
  <2>1. \A i \in Mine(t)' : Reserved(i)' /\ bo'[i].owner = th'[t].dev
    BY <1>1, <1>2, <1>4, <1>5, <1>6, <1>9, MakerFacts DEF Reserved
  <2>2. Own(t)' \cap Range(th'[t].bos) = {}
    BY <1>2, <1>5, <1>6, <1>9
  <2>3. \A u \in Threads \ {t} : Making(u) => Mine(t)' \cap Mine(u) = {}
    BY <1>1, <1>2, <1>5, <1>9, MakerFacts
  <2>4. \A p \in heaps : Range(p.bos) \cap Mine(t)' = {}
    BY <1>1, <1>2, <1>5, <1>9, MakerFacts
  <2>5. QED
    BY <1>1, <1>6, <1>13, <2>1, <2>2, <2>3, <2>4, HandsGrow
<1>15. GrowsOn(t, v)
  <2>1. v \notin crowded => \A u \in Threads \ {t} : Making(u) => th[u].v # v
    BY <1>1, <1>2, MakerFacts
  <2>2. vm[v].kmdVaNext \in Nat
    BY <1>2, TypeFacts DEF ObjInv, VmRec
  <2>3. QED
    BY <1>1, <1>2, <2>1, <2>2 DEF GrowsOn, SameVm
<1>16. v \notin crowded => Chain(v, th[t].vas, th[t].bos)'
  <2> SUFFICES ASSUME v \notin crowded PROVE Chain(v, th[t].vas, th[t].bos)'
    OBVIOUS
  <2> DEFINE vas == th[t].vas
             bos == th[t].bos
  <2>1. vas \in Seq(KmdVas) /\ bos \in Seq(Bos) /\ Chain(v, vas, bos)
    BY <1>1, <1>2, MakerFacts
  <2>2. \A i \in Range(bos) : bo'[i].next = bo[i].next
    BY <1>2, <1>5 DEF SameBo
  <2>3. vm[v].kmdVaNext \in Nat
    BY <1>2, TypeFacts DEF ObjInv, VmRec
  <2>4. \A c \in Seq(KmdVas), b \in Seq(Bos), w \in VmIds :
          /\ Chain(w, c, b) /\ w = v
          /\ \A i \in Range(b) : bo'[i].next = bo[i].next
          => Chain(w, c, b)'
    BY <1>1, <2>3, ChainGrown
  <2>5. QED
    BY <1>2, <1>6, <2>1, <2>2, <2>4
<1>17. Chains'
  <2>1. vm' \in [VmIds -> VmRec] /\ heaps' \subseteq Heap /\ heaps' \ heaps = {}
    BY <1>1, <1>7 DEF TypesNext
  <2>2. Len(th'[t].vas) = Len(th'[t].bos)
    BY <1>1, <1>2, <1>6, MakerFacts
  <2>3. ASSUME NEW w, w = v, w \notin crowded'
        PROVE  /\ Chain(th[t].v, th[t].vas, th[t].bos)'
               /\ th'[t].va = vm'[w].kmdVaNext
    BY <1>1, <1>6, <1>16, <2>3
  <2>4. QED
    BY <1>2, <1>6, <1>13, <1>15, <2>1, <2>2, <2>3, ChainsGrow
<1>18. QED
  BY <1>1, <1>2, <1>5, <1>6, <1>7, <1>8, <1>9, <1>10, <1>11, <1>12, <1>14, <1>17, MakerStep

(* TilerHeapCreate: the VM is held; a second maker on it is remembered.     *)
LEMMA TilerHeapCreateInv ==
  ASSUME ObjInv, NEW t \in Threads, NEW d \in Devices, NEW v \in VmIds, TilerHeapCreate(t, d, v)
  PROVE  ObjInv'
<1>1. PICK n \in ChunkCounts \ {0} :
        Enter(t, [Resting EXCEPT !.pc = "alloc", !.dev = d, !.v = v,
                                 !.left = Min({n, HeapPagesMax}) + 1])
  BY DEF TilerHeapCreate
<1> DEFINE k == Min({n, HeapPagesMax}) + 1
           s == [Resting EXCEPT !.pc = "alloc", !.dev = d, !.v = v, !.left = k]
<1>2. /\ Call(t, d) /\ v \in Listed(vm) /\ vm' = Get(vm, v) /\ Enter(t, s)
      /\ crowded' = IF MakingHeap(v) # {} THEN crowded \cup {v} ELSE crowded
      /\ UNCHANGED <<dev, grp, heaps, bo, pt, maps>>
  BY <1>1 DEF TilerHeapCreate
<1>3. vm[v].at = "listed"
  BY <1>2 DEF Listed
<1>4. /\ dev[d] = "live" /\ ~Rundown(t) /\ ~Making(t)
      /\ \A i : ~OnBo(t, i) /\ ~OnVm(t, i)
  BY <1>2, CallFacts
<1>5. k \in Int
  <2>1. {n, HeapPagesMax} \subseteq Nat
    BY ObjAssumption
  <2>2. Min({n, HeapPagesMax}) \in Nat
    BY <2>1, MinFacts
  <2>3. QED
    BY <2>2
<1> HIDE DEF k
<1>6. /\ s \in Frame /\ s.pc = "alloc" /\ s.dev = d /\ s.v = v /\ s.vas = <<>> /\ s.bos = <<>>
  <2> DEFINE f == [Resting EXCEPT !.pc = "alloc", !.dev = d, !.v = v]
  <2>1. f \in Frame /\ f.pc = "alloc" /\ f.dev = d /\ f.v = v /\ f.vas = <<>> /\ f.bos = <<>>
    BY NewRecords, Bounds DEF Frame, PCs
  <2>2. s = [f EXCEPT !.left = k]
    BY NewRecords DEF Frame
  <2> HIDE DEF f, s
  <2>3. QED
    BY <1>5, <2>1, <2>2 DEF Frame
<1> HIDE DEF s
<1>7. Others(t) /\ th'[t] = s /\ th' \in [Threads -> Frame]
  BY <1>2, <1>6, EnterFacts
<1>8. vm' \in [VmIds -> VmRec] /\ TouchesVm /\ \A w \in VmIds : SameVm(w)
  BY <1>2, <1>3, VmRefFacts, TouchesFacts DEF ObjInv, TouchesVm
<1>9. TypesNext
  <2>1. crowded' \subseteq VmIds
    BY <1>2, TypeFacts DEF ObjInv
  <2>2. QED
    BY <1>2, <1>7, <1>8, <2>1, Stutter, TypeFacts DEF TypesNext, ObjInv, Types
<1>10. InOrder /\ StillMade /\ OwnersFit /\ MappingFollowsBo'
  <2>1. \A w \in VmIds : vm'[w].at = vm[w].at /\ vm'[w].owner = vm[w].owner
                         /\ (vm[w].at = "none" => vm'[w] = vm[w])
    BY <1>8 DEF TouchesVm, SameVm
  <2>2. QED
    BY <1>2, <2>1, Stutter, TouchesFacts DEF InOrder, StillMade, OwnersFit
<1>11. /\ ~Rundown(t)' /\ Making(t)' /\ Own(t)' = {} /\ Mine(t)' = {} /\ th'[t].v = v
       /\ th'[t].vas = <<>> /\ th'[t].bos = <<>> /\ th'[t].pc = "alloc"
       /\ (\A i \in Bos : ~OnBo(t, i)') /\ (\A i \in VmIds : OnVm(t, i)' <=> i = v)
  BY <1>6, <1>7 DEF Rundown, Making, Own, Mine, OnVm, OnBo, HoldsVm, HoldsBo, Range
<1>12. Fits(t)'
  BY <1>2, <1>3, <1>4, <1>6, <1>7, <1>8 DEF Fits, Rundown, HoldsBo, HoldsVm, SameVm
<1>13. BoCounted(t) /\ VmCounted(t)
  BY <1>2, <1>3, <1>4, <1>11, BoCounting, VmCounting
<1>14. ElseSame(t)
  BY <1>2, TableStays DEF ElseSame
<1>15. Hands'
  BY <1>2, <1>7, <1>8, <1>11, <1>14, HandsGrow DEF SameVm
<1>16. GrowsOn(t, v)
  <2>1. v \notin crowded' => \A u \in Threads \ {t} : Making(u) => th[u].v # v
    BY <1>2 DEF MakingHeap, Making
  <2>2. vm[v].kmdVaNext \in Nat
    BY TypeFacts DEF ObjInv, VmRec
  <2>3. QED
    BY <1>2, <1>3, <1>8, <2>1, <2>2 DEF GrowsOn, SameVm
<1>17. Chain(th[t].v, th[t].vas, th[t].bos)'
  BY <1>11 DEF Chain, IsInjective
<1>18. Chains'
  BY <1>2, <1>7, <1>9, <1>11, <1>14, <1>16, <1>17, ChainsGrow DEF TypesNext
<1>19. QED
  BY <1>2, <1>4, <1>7, <1>9, <1>10, <1>11, <1>12, <1>13, <1>15, <1>18, MakerStep

(* What HeapAllocMapped writes at its end, one table at a time.             *)
LEMMA AppendFacts ==
  ASSUME NEW S, NEW s \in Seq(S), NEW x \in S
  PROVE  Append(s, x) \in Seq(S) /\ Range(Append(s, x)) = Range(s) \cup {x}
<1>1. /\ Append(s, x) \in Seq(S) /\ Len(s) \in Nat /\ DOMAIN Append(s, x) = 1..(Len(s) + 1)
      /\ DOMAIN s = 1..Len(s) /\ Append(s, x)[Len(s) + 1] = x
      /\ \A i \in 1..Len(s) : Append(s, x)[i] = s[i]
  OBVIOUS
<1> DEFINE c == Append(s, x)
<1> HIDE DEF c
<1>2. Range(c) = Range(s) \cup {x}
  <2>1. \A y \in Range(c) : y \in Range(s) \cup {x}
    BY <1>1 DEF Range, c
  <2>2. \A y \in Range(s) : y \in Range(c)
    BY <1>1 DEF Range, c
  <2>3. x \in Range(c)
    BY <1>1 DEF Range, c
  <2>4. QED
    BY <2>1, <2>2, <2>3
<1>3. QED
  BY <1>1, <1>2 DEF c

StampsBo(h, k) == bo' = [bo EXCEPT ![h].refs = @ - 1, ![h].next = k]
StampsVm(v, k, b) == vm' = [vm EXCEPT ![v].kmdVaNext = k, ![v].refs = IF b THEN @ - 1 ELSE @]
StampsThread(t, vas, bos) ==
  th' = [th EXCEPT ![t].pc = "alloc", ![t].h = 0, ![t].va = Unmapped,
                   ![t].left = @ - 1, ![t].vas = vas, ![t].bos = bos]

LEMMA StampBo ==
  ASSUME Types, NEW h \in Bos, NEW k \in 0..KmdVaTop, StampsBo(h, k)
  PROVE  /\ bo' \in [Bos -> BoRec] /\ bo'[h].refs = bo[h].refs - 1 /\ bo'[h].next = k
         /\ bo'[h].at = bo[h].at /\ bo'[h].told = bo[h].told /\ bo'[h].owner = bo[h].owner
         /\ bo'[h].va = bo[h].va /\ bo'[h].by = bo[h].by
         /\ \A i \in Bos \ {h} : bo'[i] = bo[i]
<1> DEFINE q == [bo[h] EXCEPT !.refs = bo[h].refs - 1]
           p == [q EXCEPT !.next = k]
<1>1. bo \in [Bos -> BoRec] /\ bo[h] \in BoRec /\ bo[h].refs - 1 \in Int
  BY TypeFacts DEF BoRec
<1>2. bo' = [bo EXCEPT ![h] = p]
  BY <1>1 DEF BoRec, StampsBo
<1>3. q \in BoRec /\ q.refs = bo[h].refs - 1 /\ q.at = bo[h].at /\ q.told = bo[h].told
      /\ q.owner = bo[h].owner /\ q.va = bo[h].va /\ q.by = bo[h].by
  BY <1>1 DEF BoRec
<1> HIDE DEF q
<1>4. p \in BoRec /\ p.next = k /\ p.refs = q.refs /\ p.at = q.at /\ p.told = q.told
      /\ p.owner = q.owner /\ p.va = q.va /\ p.by = q.by
  BY <1>3 DEF BoRec
<1> HIDE DEF p
<1>5. QED
  BY <1>1, <1>2, <1>3, <1>4

LEMMA StampVm ==
  ASSUME Types, NEW v \in VmIds, NEW k \in Nat \ {0}, NEW b \in BOOLEAN, StampsVm(v, k, b)
  PROVE  /\ vm' \in [VmIds -> VmRec] /\ vm'[v].refs = vm[v].refs - One(b) /\ vm'[v].kmdVaNext = k
         /\ vm'[v].at = vm[v].at /\ vm'[v].owner = vm[v].owner
         /\ \A w \in VmIds \ {v} : vm'[w] = vm[w]
<1> DEFINE r == IF b THEN vm[v].refs - 1 ELSE vm[v].refs
           q == [vm[v] EXCEPT !.kmdVaNext = k]
           p == [q EXCEPT !.refs = r]
<1>1. vm \in [VmIds -> VmRec] /\ vm[v] \in VmRec /\ vm[v].refs \in Int
  BY TypeFacts DEF VmRec
<1>2. r \in Int /\ r = vm[v].refs - One(b)
  BY <1>1 DEF One
<1>3. vm' = [vm EXCEPT ![v] = p]
  BY <1>1 DEF VmRec, StampsVm
<1> HIDE DEF r
<1>4. q \in VmRec /\ q.kmdVaNext = k /\ q.at = vm[v].at /\ q.owner = vm[v].owner
  BY <1>1 DEF VmRec
<1> HIDE DEF q
<1>5. p \in VmRec /\ p.refs = r /\ p.kmdVaNext = q.kmdVaNext /\ p.at = q.at /\ p.owner = q.owner
  BY <1>2, <1>4 DEF VmRec
<1> HIDE DEF p
<1>6. QED
  BY <1>1, <1>2, <1>3, <1>4, <1>5

LEMMA StampThread ==
  ASSUME ObjInv, NEW t \in Threads, NEW vas \in Seq(KmdVas), NEW bos \in Seq(Bos),
         StampsThread(t, vas, bos)
  PROVE  /\ Others(t) /\ th' \in [Threads -> Frame] /\ th'[t].pc = "alloc"
         /\ th'[t].v = th[t].v /\ th'[t].dev = th[t].dev
         /\ th'[t].vas = vas /\ th'[t].bos = bos
<1> DEFINE f == [th[t] EXCEPT !.pc = "alloc"]
           g == [f EXCEPT !.h = 0]
           k == [g EXCEPT !.va = Unmapped]
           l == [k EXCEPT !.left = th[t].left - 1]
           m == [l EXCEPT !.vas = vas]
           n == [m EXCEPT !.bos = bos]
<1>1. th \in [Threads -> Frame] /\ th[t] \in Frame /\ th[t].left - 1 \in Int /\ 0 \in 0..MaxBo
  BY TypeFacts, Bounds DEF ObjInv, Frame
<1>2. th' = [th EXCEPT ![t] = n]
  BY <1>1 DEF Frame, StampsThread
<1>3. f \in Frame /\ f.pc = "alloc" /\ f.v = th[t].v /\ f.dev = th[t].dev
  BY <1>1 DEF Frame, PCs
<1> HIDE DEF f
<1>4. g \in Frame /\ g.pc = f.pc /\ g.v = f.v /\ g.dev = f.dev
  BY <1>1, <1>3 DEF Frame
<1> HIDE DEF g
<1>5. k \in Frame /\ k.pc = g.pc /\ k.v = g.v /\ k.dev = g.dev
  BY <1>4 DEF Frame
<1> HIDE DEF k
<1>6. l \in Frame /\ l.pc = k.pc /\ l.v = k.v /\ l.dev = k.dev
  BY <1>1, <1>5 DEF Frame
<1> HIDE DEF l
<1>7. m \in Frame /\ m.pc = l.pc /\ m.v = l.v /\ m.dev = l.dev /\ m.vas = vas
  BY <1>6 DEF Frame
<1> HIDE DEF m
<1>8. n \in Frame /\ n.pc = m.pc /\ n.v = m.v /\ n.dev = m.dev /\ n.vas = m.vas /\ n.bos = bos
  BY <1>7 DEF Frame
<1> HIDE DEF n
<1>9. Others(t) /\ th' \in [Threads -> Frame] /\ th'[t] = n
  <2>1. th \in [Threads -> Frame] /\ n \in Frame
    BY <1>1, <1>8
  <2>2. QED
    BY <1>2, <2>1 DEF Others
<1>10. QED
  BY <1>3, <1>4, <1>5, <1>6, <1>7, <1>8, <1>9

(* HeapAllocMapped, its end: the chunk is linked and KmdVaNext moves past   *)
(* it.  The last chunk ends the call and gives the heap out.                *)
LEMMA HeapStampInv ==
  ASSUME ObjInv, NEW t \in Threads, HeapStamp(t)
  PROVE  ObjInv'
<1> DEFINE h == th[t].h
           v == th[t].v
           a == th[t].va
           ovas == th[t].vas
           obos == th[t].bos
           vas == Append(ovas, a)
           bos == Append(obos, h)
           p == [vm |-> v, vas |-> vas, bos |-> bos]
           last == th[t].left = 1
<1>1. /\ th[t].pc = "stamp" /\ vm[v].at = "listed" /\ bo[h].at = "listed"
      /\ StampsBo(h, ChunkLink(t)) /\ StampsVm(v, Advance(t), last)
      /\ last => heaps' = heaps \cup {p} /\ Return(t)
      /\ ~last => heaps' = heaps /\ StampsThread(t, vas, bos)
      /\ UNCHANGED <<dev, grp, crowded, pt, maps>>
  BY DEF HeapStamp, At, StampsBo, StampsVm, StampsThread
<1>2. /\ Making(t) /\ ~Rundown(t) /\ h \in Bos /\ v \in VmIds /\ a \in KmdVas
      /\ ovas \in Seq(KmdVas) /\ obos \in Seq(Bos) /\ Len(ovas) = Len(obos)
      /\ h \notin Range(obos) /\ Mine(t) = Range(obos) \cup {h} /\ Mine(t) \subseteq Bos
  BY <1>1, MakerFacts DEF Making, Mine, Own
<1>3. /\ vas \in Seq(KmdVas) /\ Range(vas) = Range(ovas) \cup {a} /\ Len(vas) = Len(ovas) + 1
      /\ bos \in Seq(Bos) /\ Range(bos) = Mine(t) /\ Len(bos) = Len(obos) + 1
  BY <1>2, AppendFacts
<1>4. Advance(t) \in Nat \ {0} /\ (v \notin crowded => a = vm[v].kmdVaNext /\ Advance(t) = a + 1)
  <2>1. vm[v].kmdVaNext \in Nat /\ a \in Nat
    BY <1>2, TypeFacts, Bounds DEF ObjInv, VmRec
  <2>2. v \notin crowded => a = vm[v].kmdVaNext
    BY <1>1, <1>2, MakerFacts
  <2>3. Advance(t) = IF ovas = <<>> THEN vm[v].kmdVaNext + 1 ELSE a + 1
    BY DEF Advance
  <2>4. QED
    BY <2>1, <2>2, <2>3
<1>5. ChunkLink(t) \in 0..KmdVaTop
  <2>1. CASE Len(ovas) <= 1
    BY <2>1, Bounds DEF ChunkLink
  <2>2. CASE ~(Len(ovas) <= 1)
    <3>1. Len(ovas) \in 1..Len(ovas)
      BY <1>2, <2>2, SeqFacts
    <3>2. Last(ovas) \in KmdVas
      BY <1>2, <3>1, SeqFacts DEF Last
    <3>3. QED
      BY <2>2, <3>2, Bounds DEF ChunkLink
  <2>3. QED
    BY <2>1, <2>2
<1>6. /\ bo' \in [Bos -> BoRec] /\ bo'[h].refs = bo[h].refs - 1 /\ bo'[h].next = ChunkLink(t)
      /\ \A i \in Bos : /\ bo'[i].at = bo[i].at /\ bo'[i].told = bo[i].told /\ bo'[i].owner = bo[i].owner
                        /\ bo'[i].va = bo[i].va /\ bo'[i].by = bo[i].by
      /\ \A i \in Bos \ {h} : bo'[i] = bo[i]
  BY <1>1, <1>2, <1>5, StampBo DEF ObjInv
<1>7. /\ vm' \in [VmIds -> VmRec] /\ vm'[v].refs = vm[v].refs - One(last)
      /\ vm'[v].kmdVaNext = Advance(t)
      /\ \A w \in VmIds : vm'[w].at = vm[w].at /\ vm'[w].owner = vm[w].owner
      /\ \A w \in VmIds \ {v} : vm'[w] = vm[w]
  <2>1. last \in BOOLEAN
    OBVIOUS
  <2>2. QED
    BY <1>1, <1>2, <1>4, <2>1, StampVm DEF ObjInv
<1>8. /\ Others(t) /\ th' \in [Threads -> Frame] /\ ~Rundown(t)' /\ (Making(t)' <=> ~last)
      /\ \A i : ~OnBo(t, i)' /\ (OnVm(t, i)' <=> ~last /\ i = v)
      /\ Fits(t)'
      /\ ~last => /\ th'[t].pc = "alloc" /\ th'[t].v = v /\ th'[t].dev = th[t].dev
                  /\ th'[t].vas = vas /\ th'[t].bos = bos /\ Own(t)' = {} /\ Mine(t)' = Mine(t)
  <2>1. CASE last
    BY <1>1, <2>1, ReturnFacts
  <2>2. CASE ~last
    <3>1. /\ Others(t) /\ th' \in [Threads -> Frame] /\ th'[t].pc = "alloc" /\ th'[t].v = v
          /\ th'[t].dev = th[t].dev /\ th'[t].vas = vas /\ th'[t].bos = bos
      BY <1>1, <1>3, <2>2, StampThread
    <3>2. ~Rundown(t)' /\ Making(t)' /\ \A i : ~OnBo(t, i)' /\ (OnVm(t, i)' <=> i = v)
      BY <3>1 DEF Rundown, Making, OnBo, OnVm, HoldsBo, HoldsVm
    <3>3. Own(t)' = {} /\ Mine(t)' = Mine(t)
      BY <1>3, <3>1 DEF Own, Mine
    <3>4. Fits(t)'
      BY <1>1, <1>2, <1>7, <3>1, MakerFacts DEF Fits, Rundown, HoldsBo, HoldsVm
    <3>5. QED
      BY <2>2, <3>1, <3>2, <3>3, <3>4
  <2>3. QED
    BY <2>1, <2>2
<1> HIDE DEF last
<1>9. heaps' \subseteq Heap /\ heaps \subseteq heaps' /\ heaps' \ heaps \subseteq {p} /\ (~last => heaps' = heaps)
  <2>1. p \in Heap /\ heaps \subseteq Heap
    BY <1>2, <1>3 DEF Heap, ObjInv, Types
  <2>2. QED
    BY <1>1, <2>1
<1> HIDE DEF vas, bos
<1>10. \A q \in heaps' \ heaps : q.vm = v /\ q.vas = vas /\ q.bos = bos /\ last
  BY <1>9
<1>11. TypesNext
  BY <1>1, <1>6, <1>7, <1>8, <1>9, TypeFacts DEF TypesNext, ObjInv
<1>12. InOrder /\ StillMade /\ OwnersFit /\ MappingFollowsBo'
  <2>1. MappingFollowsBo'
    BY <1>1, <1>6, MapsKept
  <2>2. OwnersFit
    BY <1>1, <1>6, <1>7 DEF OwnersFit
  <2>3. InOrder /\ StillMade
    BY <1>1, <1>2, <1>6, <1>7 DEF InOrder, StillMade
  <2>4. QED
    BY <2>1, <2>2, <2>3
<1>13. BoCounted(t)
  <2>1. \A i \in Bos : bo[i].refs \in Int /\ (OnBo(t, i) <=> i = h)
    BY <1>1, BoRefFacts DEF ObjInv, OnBo, HoldsBo
  <2>2. QED
    BY <1>2, <1>6, <1>8, <2>1 DEF BoCounted, One
<1>14. VmCounted(t)
  <2>1. \A i \in VmIds : vm[i].refs \in Int /\ (OnVm(t, i) <=> i = v)
    BY <1>1, VmRefFacts DEF ObjInv, OnVm, HoldsVm
  <2>2. QED
    BY <1>2, <1>7, <1>8, <2>1 DEF VmCounted, One
<1>15. ElseSame(t)
  <2>1. \A i \in Bos \ {h} : SameBo(i)
    BY <1>6 DEF SameBo
  <2>2. \A u \in Threads \ {t} : Making(u) => Mine(u) \subseteq Bos \ {h}
    BY <1>1, <1>2, MakerFacts, HeapFacts
  <2>3. \A q \in heaps : Range(q.bos) \subseteq Bos \ {h}
    BY <1>1, <1>2, MakerFacts, HeapFacts
  <2>4. QED
    BY <2>1, <2>2, <2>3 DEF ElseSame
<1>16. Hands'
  <2>1. \A i \in Mine(t) : Reserved(i)' /\ bo'[i].owner = th[t].dev
    BY <1>1, <1>2, <1>6, MakerFacts DEF Reserved
  <2>2. Making(t)' =>
           /\ Own(t)' \cap Range(th'[t].bos) = {}
           /\ \A i \in Mine(t)' : Reserved(i)' /\ bo'[i].owner = th'[t].dev
           /\ \A u \in Threads \ {t} : Making(u) => Mine(t)' \cap Mine(u) = {}
           /\ \A q \in heaps : Range(q.bos) \cap Mine(t)' = {}
    <3>1. /\ \A u \in Threads \ {t} : Making(u) => Mine(t) \cap Mine(u) = {}
          /\ \A q \in heaps : Range(q.bos) \cap Mine(t) = {}
      BY <1>1, <1>2, MakerFacts
    <3>2. Making(t)' => Own(t)' = {} /\ Mine(t)' = Mine(t) /\ th'[t].dev = th[t].dev
      BY <1>8
    <3>3. QED
      BY <2>1, <3>1, <3>2
  <2>3. \A q \in heaps' \ heaps :
           /\ vm'[q.vm].at = "listed" /\ ~Making(t)' /\ Range(q.bos) \subseteq Mine(t) /\ Making(t)
           /\ \A i \in Range(q.bos) : Reserved(i)'
    <3>1. vm'[v].at = "listed" /\ Making(t) /\ Range(bos) = Mine(t) /\ (last => ~Making(t)')
      BY <1>1, <1>2, <1>3, <1>7, <1>8
    <3>2. QED
      BY <1>10, <2>1, <3>1
  <2>4. QED
    BY <1>7, <1>8, <1>9, <1>15, <2>2, <2>3, HandsGrow
<1>17. GrowsOn(t, v)
  <2>1. v \notin crowded => a = vm[v].kmdVaNext /\ \A u \in Threads \ {t} : Making(u) => th[u].v # v
    BY <1>1, <1>2, MakerFacts
  <2>2. vm[v].kmdVaNext \in Nat
    BY <1>2, TypeFacts DEF ObjInv, VmRec
  <2>3. QED
    BY <1>1, <1>2, <1>4, <1>7, <2>1, <2>2 DEF GrowsOn, SameVm
<1>18. ASSUME v \notin crowded
       PROVE  \A w \in VmIds, c \in Seq(KmdVas), b \in Seq(Bos) :
                 w = v /\ c = vas /\ b = bos => Chain(w, c, b)'
  <2>1. Chain(v, ovas, obos) /\ a = vm[v].kmdVaNext /\ pt[v][a] = h
    BY <1>1, <1>2, <1>18, MakerFacts
  <2>2. vm[v].kmdVaNext \in Nat /\ vm'[v].kmdVaNext \in Nat /\ a < vm'[v].kmdVaNext
    BY <1>2, <1>4, <1>7, <1>18, <2>1, TypeFacts DEF ObjInv, VmRec
  <2>3. bo'[h].next = IF Len(ovas) <= 1 THEN 0 ELSE Last(ovas)
    BY <1>6 DEF ChunkLink
  <2>4. \A g \in Range(obos) : bo'[g].next = bo[g].next
    BY <1>2, <1>6
  <2>5. \A w \in VmIds, c \in Seq(KmdVas), b \in Seq(Bos), i \in Bos, x \in KmdVas :
          w = v /\ c = ovas /\ b = obos /\ i = h /\ x = a =>
            Chain(w, Append(c, x), Append(b, i))'
    BY <1>1, <1>2, <2>1, <2>2, <2>3, <2>4, ChainAppend
  <2>6. QED
    BY <1>2, <2>5 DEF vas, bos
<1>19. Chains'
  <2>1. Making(t)' => /\ th'[t].v = v /\ Len(th'[t].vas) = Len(th'[t].bos)
                      /\ th'[t].pc \notin {"get", "stamp"}
    BY <1>2, <1>3, <1>8
  <2>2. Making(t)' /\ v \notin crowded' => Chain(th[t].v, th[t].vas, th[t].bos)'
    BY <1>1, <1>2, <1>3, <1>8, <1>18
  <2>3. \A q \in heaps' \ heaps : q.vm = v /\ (v \notin crowded' => Chain(q.vm, q.vas, q.bos)')
    BY <1>1, <1>2, <1>3, <1>18, <1>10
  <2>4. QED
    BY <1>2, <1>7, <1>8, <1>9, <1>15, <1>17, <2>1, <2>2, <2>3, ChainsGrow
<1>20. QED
  BY <1>1, <1>2, <1>8, <1>11, <1>12, <1>13, <1>14, <1>16, <1>19, MakerStep

-----------------------------------------------------------------------------
(* The whole specification.                                                 *)

LEMMA InitInv ==
  ASSUME Init
  PROVE  ObjInv
<1>1. /\ dev = [d \in Devices |-> "none"] /\ bo = [h \in Bos |-> NoBo]
      /\ vm = [v \in VmIds |-> NoVm] /\ grp = [g \in Groups |-> None]
      /\ pt = [v \in VmIds |-> NoMap] /\ maps = {} /\ heaps = {} /\ crowded = {}
      /\ th = [t \in Threads |-> Resting]
  BY DEF Init
<1>2. NoMap \in [UserVas \cup KmdVas -> 0..MaxBo]
  BY Bounds DEF NoMap, Unmapped
<1>3. Types
  BY <1>1, <1>2, NewRecords DEF Types, TypeOK, BoRec, VmRec
<1>4. /\ \A h \in Bos : bo[h].at = "none"
      /\ \A v \in VmIds : vm[v].at = "none"
      /\ \A t \in Threads : th[t] = Resting /\ th[t].pc = "idle"
      /\ Listed(bo) = {} /\ Listed(vm) = {}
  BY <1>1, NewRecords DEF Listed
<1>5. RefsBalanced
  BY <1>4 DEF RefsBalanced
<1>6. NothingOutlivesDevice /\ MappingFollowsBo
  BY <1>1 DEF NothingOutlivesDevice, MappingFollowsBo
<1>7. \A t \in Threads : Fits(t) /\ ~Rundown(t) /\ ~Making(t)
  BY <1>4 DEF Fits, Rundown, Making, HoldsBo, HoldsVm
<1>8. Rundowns /\ Hands /\ Chains
  BY <1>1, <1>4, <1>7 DEF Rundowns, Hands, Chains
<1>9. QED
  BY <1>3, <1>5, <1>6, <1>7, <1>8 DEF ObjInv

LEMMA StepInv ==
  ASSUME ObjInv, [Next]_vars
  PROVE  ObjInv'
<1>1. ASSUME NEW t \in Threads, InCall(t)
      PROVE  ObjInv'
  BY <1>1, BoRundownInv, VmRundownInv, LeaveInv, MapLockInv, MapDoneInv, BindMapGetInv,
     BindMapPutInv, BindUnmapInv, HeapAllocInv, HeapMapInv, HeapFailedInv, HeapStampInv
     DEF InCall
<1>2. ASSUME NEW t \in Threads, NEW d \in Devices, OfDevice(t, d)
      PROVE  ObjInv'
  BY <1>2, DestroyDeviceInv, BoCreateInv, BoDestroyInv, GetBoInv, GroupInv, VmCreateInv,
     VmDestroyInv, VmBindInv, TilerHeapCreateInv DEF OfDevice
<1>3. CASE \E d \in Devices : CreateDevice(d)
  BY <1>3, CreateDeviceInv
<1>4. CASE UNCHANGED vars
  <2>1. UNCHANGED <<dev, bo, vm, grp, pt, maps, heaps, th, crowded>>
    BY <1>4 DEF vars
  <2>2. Types'
    BY <2>1 DEF ObjInv, Types, TypeOK
  <2>3. RefsBalanced'
    BY <2>1 DEF ObjInv, RefsBalanced, Listed, BoHolders, VmHolders, HoldsBo, HoldsVm
  <2>4. NothingOutlivesDevice' /\ MappingFollowsBo'
    BY <2>1 DEF ObjInv, NothingOutlivesDevice, MappingFollowsBo, Owned, Listed
  <2>5. \A t \in Threads : Fits(t)'
    BY <2>1 DEF ObjInv, Fits, Rundown, HoldsBo, HoldsVm
  <2>6. Rundowns' /\ Hands'
    BY <2>1 DEF ObjInv, Rundowns, Hands, Rundown, Making, Owned, Listed, Reserved, Own, Mine
  <2>7. Chains'
    BY <2>1 DEF ObjInv, Chains, Making, Chain
  <2>8. QED
    BY <2>2, <2>3, <2>4, <2>5, <2>6, <2>7, InvParts
<1>5. QED
  BY <1>1, <1>2, <1>3, <1>4 DEF Next

(* Every escape and every rundown, interleaved step by step, keeps the      *)
(* tables, the threads' frames and the heaps in agreement.                  *)
THEOREM ObjInvHolds == Spec => []ObjInv
  BY InitInv, StepInv, PTL DEF Spec

(* BoQueryInfo, BoMapCpu, VmBind and TilerHeapCreate put what they got on   *)
(* every way out, whatever other threads free meanwhile, and DestroyDevice  *)
(* leaves no BO, VM or group of its device in a table.                      *)
THEOREM TablesSoundHolds == Spec => []TablesSound
<1>1. ObjInv => TablesSound
  BY DEF ObjInv, Types, TablesSound
<1>2. QED
  BY <1>1, ObjInvHolds, PTL

(* BoMapCpu maps a BO in one process at a time, the one it records; BoFree  *)
(* unmaps it there, or leaves the mapping of another process behind.        *)
THEOREM MappingFollowsBoHolds == Spec => []MappingFollowsBo
<1>1. ObjInv => MappingFollowsBo
  BY DEF ObjInv
<1>2. QED
  BY <1>1, ObjInvHolds, PTL

(* TilerHeapCreate: on a VM where heaps are made one at a time, whatever    *)
(* creation failed before and whatever other escapes do in between, every   *)
(* chunk links to the one before it and its address translates to its BO.   *)
THEOREM HeapWalkableHolds == Spec => []HeapWalkable
<1>1. ObjInv => HeapWalkable
  <2> SUFFICES ASSUME ObjInv, NEW p \in heaps, p.vm \notin crowded PROVE Intact(p)
    BY DEF HeapWalkable
  <2>1. Chain(p.vm, p.vas, p.bos) /\ DOMAIN p.vas = 1..Len(p.vas)
    BY HeapFacts, SeqFacts DEF ObjInv, Chains
  <2>2. QED
    BY <2>1 DEF Chain, Intact
<1>2. QED
  BY <1>1, ObjInvHolds, PTL
====
