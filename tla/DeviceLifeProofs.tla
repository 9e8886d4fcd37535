--------------------------- MODULE DeviceLifeProofs --------------------------
(***************************************************************************)
(* Proofs about DeviceLife: what failed starts and stops leave behind,     *)
(* what CSF_JOBS promises, what the firmware can reach, that no failure of *)
(* a session is in the way of the next, and the slots of VMs; for any      *)
(* number of sessions, VMs and slots.                                      *)
(***************************************************************************)
EXTENDS DeviceLife, NaturalsInduction, WellFoundedInduction, TLAPS

\* Where the firmware's memory is, and which calls know of it.
Fw      == {"fwCtx"} \cup FwBlocks
Loaded  == {"fwCtx", "image", "sections", "ptPool"}
Served  == {"publish", "selftest", "sched", "up", "stopFw"}
McuRuns == {"poll", "ifaces", "startCsg", "stopMcu", "stopAs0"} \cup Boots \cup Served
NoFw    == {"absent", "added", "parse", "bringup", "scratch", "dma", "aperture", "enable",
            "segment", "fw", "stopMmu"}
NoMmu   == {"absent", "added", "parse", "bringup", "scratch", "dma", "aperture", "enable"}
Finding == {"parse", "bringup", "scratch", "dma", "aperture", "enable", "segment", "fw",
            "image", "sections", "ptPool", "mcu"}

\* A block is allocated once while the driver points to it, and only then.
Counted == \A b \in Blocks : mem.held[b] = (IF b \in mem.ptr THEN 1 ELSE 0)

\* The memory of the adapter, step by step, and what the bring-up AS stands for.
AdapterFits ==
    /\ pc \in {"absent", "added", "parse", "bringup"} => mem.ptr = {}
    /\ At("scratch") => mem.ptr = {"regs"}
    /\ At("dma") => mem.ptr = {"regs", "scratch"}
    /\ At("aperture") => mem.ptr = {"regs", "scratch", "dma"}
    /\ At("enable") => mem.ptr = AdapterBlocks
    /\ "mmuBound" \in flags =>
          pc \notin NoMmu /\ AdapterBlocks \subseteq mem.ptr /\ BringupAs \in hw.on
    /\ BringupAs \in hw.on \ hw.stuck => "mmuBound" \in flags

\* The memory of the firmware, step by step.
FirmwareFits ==
    /\ pc \in NoFw => mem.ptr \cap Fw = {}
    /\ At("image") => mem.ptr \cap Fw = {"fwCtx"}
    /\ At("sections") => mem.ptr \cap Fw = {"fwCtx", "image"}
    /\ At("ptPool") => mem.ptr \cap Fw = {"fwCtx", "image", "sections"}
    /\ pc \in {"mcu", "poll", "ifaces", "stopMcu", "stopAs0"} => mem.ptr \cap Fw = Loaded
    /\ At("boot1") => mem.ptr \cap Fw = Loaded
    /\ At("boot2") => mem.ptr \cap Fw = Loaded \cup {"ring"}
    /\ At("boot3") => mem.ptr \cap Fw = Loaded \cup {"ring", "qif"}
    /\ At("boot4") => mem.ptr \cap Fw = Loaded \cup {"ring", "qif", "sync"}
    /\ At("boot5") => mem.ptr \cap Fw = Loaded \cup {"ring", "qif", "sync", "suspend"}
    /\ At("boot6") => mem.ptr \cap Fw = Fw \ {"shader"}
    /\ At("startCsg") => Fw \subseteq mem.ptr
    /\ pc \in Served =>
          mem.ptr \cap Fw = IF "fwCtx" \notin mem.ptr THEN {}
                            ELSE IF "boot" \in flags THEN Fw ELSE Loaded
    /\ pc \in {"publish", "selftest"} => "fwCtx" \in mem.ptr

\* What is bound, booted and promised stands on what is below it.
FlagsFit ==
    /\ "mcuBound" \in flags <=> pc \in McuRuns /\ "fwCtx" \in mem.ptr
    /\ "mcuBound" \in flags => McuAs \in hw.on
    /\ McuAs \in hw.on \ hw.stuck => "mcuBound" \in flags
    /\ "fwCtx" \in mem.ptr => hw.l2
    /\ pc \in Boots \cup {"startCsg"} => "mmuBound" \in flags
    /\ "boot" \in flags => pc \in Served /\ "mmuBound" \in flags /\ hw.csg = "started"
    /\ "boot" \in flags => "fwCtx" \in mem.ptr
    /\ "jobs" \in flags => "boot" \in flags
    /\ "alive" \in flags =>
          "fwCtx" \in mem.ptr /\ pc \in (Served \ {"publish"}) \cup {"stopMcu", "stopAs0"}
    /\ "worker" \in flags => At("up")
    /\ pc \in Boots \cup {"startCsg"} \/ "boot" \in flags =>
          /\ mem.ptr \cap {"ring", "sync", "shader"} \subseteq pte[BringupAs]
          /\ mem.ptr \cap {"qif", "suspend", "protm"} \subseteq pte[McuAs]

\* The MCU and its slot: when it runs, and what it may have been asked.
McuFits ==
    /\ hw.mcu \in {"off", "booting"} => hw.csg = "idle"
    /\ pc \in {"mcu", "poll", "ifaces"} /\ hw.version => hw.mcu = "up"
    /\ pc \in Boots \cup {"startCsg", "stopMcu"} => hw.mcu = "up"
    /\ pc \in Served /\ "fwCtx" \in mem.ptr => hw.mcu = "up"
    /\ McuAs \notin hw.stuck /\ hw.mcu \in {"booting", "up"} =>
          /\ "mcuBound" \in flags
          /\ pc \in {"poll", "ifaces", "startCsg"} \cup Boots => hw.csg = "idle"
          /\ pc \in Served => hw.csg = "idle" \/ "boot" \in flags \/ env.unacked
    /\ pc \in Finding /\ ~env.foundLost => hw.mcu = "off"
    /\ pc \in {"poll", "ifaces"} /\ ~env.foundLost =>
          hw.mcu \in {"booting", "up"} /\ (hw.mcu = "up" => hw.version)

\* What went well so far in a start in which nothing failed; what a stop left.
SessionFits ==
    /\ ~env.faulted =>
          /\ pc \in {"segment", "fw", "image", "sections", "ptPool", "mcu", "poll", "ifaces",
                     "publish", "selftest", "sched", "up"} => "mmuBound" \in flags
          /\ pc \in {"publish", "selftest"} => {"boot", "jobs"} \subseteq flags
          /\ At("selftest") => "alive" \in flags
    /\ ~env.faulted /\ ~env.foundLost =>
          /\ At("sched") => Flags \ {"worker"} \subseteq flags
          /\ At("up") => flags = Flags
          /\ At("stopFw") => "fwCtx" \in mem.ptr
          /\ pc \in {"absent", "added", "stopMmu"} => hw.mcu = "off"
    /\ ~env.faulted /\ At("stopAs0") => hw.mcu = "off"
    /\ pc \in {"absent", "added", "sched", "up", "stopFw", "stopMmu"} /\ hw.l2 =>
          "fwCtx" \in mem.ptr \/ env.faulted

\* No VM at a start that none survived; then each its own slot of the mask.
VmsFit ==
    /\ \A v \in Vms : vms[v].slot = 0 => vms[v] = NoVm
    /\ ~env.survived =>
          /\ pc \in Starting => \A v \in Vms : vms[v] = NoVm
          /\ At("up") =>
                /\ \A v \in Vms : vms[v] # NoVm =>
                      /\ vms[v].slot \in inUse
                      /\ vms[v].ring # 0 => vms[v].ring = session /\ "boot" \in flags
                /\ \A v, w \in Vms : v # w /\ vms[v].slot = vms[w].slot => vms[v] = NoVm

LifeInv ==
    /\ TypeOK /\ Counted /\ AdapterFits /\ FirmwareFits
    /\ FlagsFit /\ McuFits /\ SessionFits /\ VmsFit

-----------------------------------------------------------------------------
(* Memory and hardware. *)

MemT == [held: [Blocks -> Nat], ptr: SUBSET Blocks]
HwT  == [mcu: {"off", "booting", "up", "lost"}, csg: {"idle", "asked", "started"},
         on: SUBSET {McuAs, BringupAs}, stuck: SUBSET {McuAs, BringupAs},
         l2: BOOLEAN, version: BOOLEAN, raised: BOOLEAN]
EnvT == [faulted: BOOLEAN, unacked: BOOLEAN, foundLost: BOOLEAN, survived: BOOLEAN]
Good(m) == m \in MemT /\ \A b \in Blocks : m.held[b] = (IF b \in m.ptr THEN 1 ELSE 0)

LEMMA Types ==
  ASSUME LifeInv
  PROVE  /\ Good(mem) /\ hw \in HwT /\ env \in EnvT /\ flags \subseteq Flags
         /\ pte \in [{McuAs, BringupAs} -> SUBSET QueueBlocks]
         /\ session \in 0..MaxSessions /\ MaxSessions \in Nat
         /\ McuAs = 0 /\ BringupAs = 1 /\ 0 \notin VmSlots /\ VmSlots \subseteq Nat
  BY LifeAssumption DEF LifeInv, TypeOK, Counted, Good, MemT, HwT, EnvT, McuAs, BringupAs

(* A block the driver does not point to is allocated.                       *)
LEMMA WithFacts ==
  ASSUME NEW m, Good(m), NEW b \in Blocks, b \notin m.ptr
  PROVE  Good(With(m, b)) /\ With(m, b).ptr = m.ptr \cup {b}
  BY DEF Good, MemT, With

(* What is pointed to is freed, once.                                       *)
LEMMA WithoutFacts ==
  ASSUME NEW m, Good(m), NEW B
  PROVE  Good(Without(m, B)) /\ Without(m, B).ptr = m.ptr \ B
  BY DEF Good, MemT, Without

(* The context is freed when what it points to, the queue's memory but for, *)
(* was freed before.                                                        *)
LEMMA CtxFreedFacts ==
  ASSUME NEW m, Good(m), m.ptr \cap QueueBlocks = {}
  PROVE  /\ Good(CtxFreed(ReleaseResources(m)))
         /\ CtxFreed(ReleaseResources(m)).ptr = m.ptr \ Fw
<1>1. /\ Good(ReleaseResources(m))
      /\ ReleaseResources(m).ptr = m.ptr \ {"sections", "ptPool", "image"}
  BY WithoutFacts DEF ReleaseResources
<1>2. /\ Good(Without(ReleaseResources(m), {"fwCtx"}))
      /\ Without(ReleaseResources(m), {"fwCtx"}).ptr
           = m.ptr \ {"fwCtx", "sections", "ptPool", "image"}
  BY <1>1, WithoutFacts
<1>3. Without(ReleaseResources(m), {"fwCtx"}).ptr \cap FwBlocks = {}
  BY <1>2 DEF FwBlocks
<1>4. QED
  BY <1>2, <1>3 DEF CtxFreed, Good, MemT, Fw, FwBlocks

LEMMA DisabledFacts ==
  ASSUME LifeInv, NEW as \in {McuAs, BringupAs}
  PROVE  /\ Disabled(hw, as) \in HwT
         /\ Disabled(hw, as).csg = hw.csg /\ Disabled(hw, as).l2 = hw.l2
         /\ Disabled(hw, as).stuck = hw.stuck /\ Disabled(hw, as).version = hw.version
         /\ Disabled(hw, as).raised = hw.raised
         /\ as \in hw.stuck => Disabled(hw, as) = hw
         /\ as \notin hw.stuck =>
              /\ Disabled(hw, as).on = hw.on \ {as}
              /\ Disabled(hw, as).mcu = IF as = McuAs /\ hw.mcu # "off" THEN "lost" ELSE hw.mcu
  BY Types DEF Disabled, HwT

PcT  == {"absent", "added", "up"} \cup Starting \cup Stopping
PteT == [{McuAs, BringupAs} -> SUBSET QueueBlocks]

(* A step of a lifecycle call or of the hardware makes and destroys no VM,  *)
(* and comes to "up" from the start that found none.                        *)
LEMMA StepFacts ==
  ASSUME LifeInv, Good(mem'), hw' \in HwT, env' \in EnvT, flags' \subseteq Flags, pte' \in PteT,
         pc' \in PcT, inUse' \in {inUse, {}}, UNCHANGED <<session, vms>>,
         env'.survived = env.survived, pc' \in Starting => pc \in Starting,
         \/ pc' # "up" \/ pc \in Starting
         \/ pc = "up" /\ UNCHANGED inUse /\ ("boot" \in flags => "boot" \in flags'),
         AdapterFits', FirmwareFits', FlagsFit', McuFits', SessionFits'
  PROVE  LifeInv'
<1>1. TypeOK' /\ Counted'
  BY DEF LifeInv, TypeOK, Counted, Good, MemT, HwT, EnvT, PcT, PteT, FlagsFit
<1>2. VmsFit'
  <2>1. \A v \in Vms : vms[v].slot = 0 => vms[v] = NoVm
    BY DEF LifeInv, VmsFit
  <2>2. ~env.survived /\ pc \in Starting => \A v \in Vms : vms[v] = NoVm
    BY DEF LifeInv, VmsFit
  <2>3. ~env.survived /\ pc = "up" =>
          /\ \A v \in Vms : vms[v] # NoVm =>
                /\ vms[v].slot \in inUse
                /\ vms[v].ring # 0 => vms[v].ring = session /\ "boot" \in flags
          /\ \A v, w \in Vms : v # w /\ vms[v].slot = vms[w].slot => vms[v] = NoVm
    BY DEF LifeInv, VmsFit, At
  <2>4. QED
    BY <2>1, <2>2, <2>3 DEF VmsFit, At
<1>3. QED
  BY <1>1, <1>2 DEF LifeInv

-----------------------------------------------------------------------------
(* AddDevice, and StartDevice up to the registers. *)

LEMMA AddDeviceInv ==
  ASSUME LifeInv, AddDevice
  PROVE  LifeInv'
<1>1. /\ pc = "absent" /\ pc' = "added"
      /\ UNCHANGED <<session, mem, flags, hw, pte, env, inUse, vms>>
  BY DEF AddDevice, At, Goto, vmVars
<1>2. AdapterFits' /\ FirmwareFits'
  BY <1>1 DEF LifeInv, AdapterFits, FirmwareFits, At, NoMmu, NoFw, Served
<1>3. FlagsFit' /\ McuFits'
  BY <1>1 DEF LifeInv, FlagsFit, McuFits, At, McuRuns, Served, Boots, Finding
<1>4. SessionFits'
  BY <1>1 DEF LifeInv, SessionFits, At
<1>5. QED
  BY <1>1, <1>2, <1>3, <1>4, Types, StepFacts DEF PcT, PteT, Starting, Boots

LEMMA ParseResourcesInv ==
  ASSUME LifeInv, ParseResources
  PROVE  LifeInv'
<1>1. /\ pc = "parse" /\ pc' \in {"bringup", "up"}
      /\ env' \in EnvT /\ env'.survived = env.survived /\ env'.foundLost = env.foundLost
      /\ pc' = "bringup" => env' = env
      /\ pc' = "up" => env'.faulted
      /\ UNCHANGED <<session, mem, flags, hw, pte, inUse, vms>>
  BY Types DEF ParseResources, At, Goto, Fault, vmVars, EnvT
<1>2. AdapterFits' /\ FirmwareFits'
  BY <1>1 DEF LifeInv, AdapterFits, FirmwareFits, At, NoMmu, NoFw, Served
<1>3. FlagsFit' /\ McuFits'
  BY <1>1 DEF LifeInv, AdapterFits, FlagsFit, McuFits, At, McuRuns, Served, Boots, Finding
<1>4. SessionFits'
  BY <1>1 DEF LifeInv, SessionFits, At
<1>5. QED
  BY <1>1, <1>2, <1>3, <1>4, Types, StepFacts DEF PcT, PteT, Starting, Boots

(* What is found in AddDevice's registers: a lost MCU, VMs that survived.   *)
LEMMA StartDeviceInv ==
  ASSUME LifeInv, StartDevice
  PROVE  LifeInv'
<1>1. /\ pc = "added" /\ pc' = "parse" /\ session' = session + 1 /\ session' \in 0..MaxSessions
      /\ env' \in EnvT /\ ~env'.faulted /\ ~env'.unacked
      /\ ~env'.foundLost => hw.mcu = "off"
      /\ ~env'.survived => \A v \in Vms : vms[v] = NoVm
      /\ UNCHANGED <<mem, flags, hw, pte, inUse, vms>>
  <2>1. /\ pc = "added" /\ pc' = "parse" /\ session < MaxSessions /\ session' = session + 1
        /\ UNCHANGED <<mem, flags, hw, pte, inUse, vms>>
    BY DEF StartDevice, At, Goto, vmVars
  <2>2. PICK l \in BOOLEAN, s \in BOOLEAN :
          /\ env' = [Calm EXCEPT !.foundLost = l, !.survived = s]
          /\ ~l => hw.mcu = "off"
          /\ ~s => \A v \in Vms : vms[v] = NoVm
    <3>1. /\ (hw.mcu # "off") \in BOOLEAN
          /\ (env.survived \/ \E v \in Vms : vms[v] # NoVm) \in BOOLEAN
      OBVIOUS
    <3>2. QED
      BY <3>1 DEF StartDevice
  <2>3. QED
    <3>1. session' \in 0..MaxSessions
      BY <2>1, Types
    <3>2. /\ env' \in EnvT /\ ~env'.faulted /\ ~env'.unacked
          /\ env'.foundLost = l /\ env'.survived = s
      BY <2>2 DEF Calm, EnvT
    <3>3. QED
      BY <2>1, <2>2, <3>1, <3>2
<1>2. AdapterFits' /\ FirmwareFits'
  BY <1>1 DEF LifeInv, AdapterFits, FirmwareFits, At, NoMmu, NoFw, Served
<1>3. FlagsFit' /\ McuFits'
  BY <1>1 DEF LifeInv, FlagsFit, McuFits, At, McuRuns, Served, Boots, Finding
<1>4. SessionFits'
  BY <1>1 DEF LifeInv, SessionFits, At
<1>5. VmsFit'
  BY <1>1 DEF LifeInv, VmsFit, At
<1>6. TypeOK' /\ Counted'
  BY <1>1 DEF LifeInv, TypeOK, Counted, EnvT, Starting
<1>7. QED
  BY <1>2, <1>3, <1>4, <1>5, <1>6 DEF LifeInv

LEMMA BringupHardwareInv ==
  ASSUME LifeInv, BringupHardware
  PROVE  LifeInv'
<1>1. /\ pc = "bringup" /\ mem.ptr = {} /\ "regs" \in Blocks
      /\ UNCHANGED <<session, flags, hw, pte, vms>> /\ inUse' \in {inUse, {}}
  BY DEF LifeInv, AdapterFits, BringupHardware, InitAsAllocator, At, Blocks, AdapterBlocks
<1>2. /\ Good(mem') /\ pc' \in {"scratch", "up"}
      /\ env' \in EnvT /\ env'.survived = env.survived /\ env'.foundLost = env.foundLost
      /\ pc' = "scratch" => mem'.ptr = {"regs"} /\ env' = env
      /\ pc' = "up" => mem'.ptr = {} /\ env'.faulted
  <2>1. CASE pc' = "scratch" /\ mem' = With(mem, "regs") /\ env' = env
    BY <1>1, <2>1, Types, WithFacts
  <2>2. CASE pc' = "up" /\ mem' = mem /\ env' = [env EXCEPT !.faulted = TRUE]
    BY <1>1, <2>2, Types DEF EnvT
  <2>3. QED
    BY <1>1, <2>1, <2>2 DEF BringupHardware, Goto, Fault, Allocate
<1>3. AdapterFits' /\ FirmwareFits'
  BY <1>1, <1>2 DEF LifeInv, AdapterFits, FirmwareFits, At, NoMmu, NoFw, Served, Fw, FwBlocks,
    QueueBlocks
<1>4. FlagsFit' /\ McuFits'
  BY <1>1, <1>2 DEF LifeInv, FlagsFit, McuFits, At, McuRuns, Served, Boots, Finding
<1>5. SessionFits'
  BY <1>1, <1>2 DEF LifeInv, SessionFits, At
<1>6. QED
  BY <1>1, <1>2, <1>3, <1>4, <1>5, Types, StepFacts DEF PcT, PteT, Starting, Boots

-----------------------------------------------------------------------------
(* WinMaliMmuInit and the memory segment. *)

\* MmuTeardown, and the one that begins MmuInit, before anything is bound.
LEMMA MmuInitScratchInv ==
  ASSUME LifeInv, MmuInitScratch
  PROVE  LifeInv'
<1>1. /\ pc = "scratch" /\ mem.ptr = {"regs"} /\ "scratch" \in Blocks
      /\ "mmuBound" \notin flags /\ hw' = hw /\ flags' = flags
      /\ UNCHANGED <<session, vms>> /\ inUse' \in {inUse, {}}
      /\ pte' = [pte EXCEPT ![BringupAs] = {}] /\ pte' \in PteT
  BY Types DEF LifeInv, AdapterFits, MmuInitScratch, MmuTeardown, At, NoMmu, Blocks,
    AdapterBlocks, PteT
<1>2. /\ Good(mem') /\ pc' \in {"dma", "segment"}
      /\ env' \in EnvT /\ env'.survived = env.survived /\ env'.foundLost = env.foundLost
      /\ pc' = "dma" => mem'.ptr = {"regs", "scratch"} /\ env' = env
      /\ pc' = "segment" => mem'.ptr = {"regs"} /\ env'.faulted
  <2>1. /\ Good(Without(mem, {"aperL3", "scratch", "dma"}))
        /\ Without(mem, {"aperL3", "scratch", "dma"}).ptr = {"regs"}
    BY <1>1, Types, WithoutFacts
  <2>2. CASE /\ mem' = With(Without(mem, {"aperL3", "scratch", "dma"}), "scratch")
             /\ pc' = "dma" /\ env' = env
    BY <1>1, <2>1, <2>2, Types, WithFacts
  <2>3. CASE /\ mem' = Without(mem, {"aperL3", "scratch", "dma"})
             /\ pc' = "segment" /\ env' = [env EXCEPT !.faulted = TRUE]
    BY <2>1, <2>3, Types DEF EnvT
  <2>4. QED
    BY <2>2, <2>3 DEF MmuInitScratch, MmuTeardown, Goto, Fault
<1>3. AdapterFits' /\ FirmwareFits'
  BY <1>1, <1>2 DEF LifeInv, AdapterFits, FirmwareFits, At, NoMmu, NoFw, Served, Fw, FwBlocks,
    QueueBlocks
<1>4. FlagsFit' /\ McuFits'
  BY <1>1, <1>2 DEF LifeInv, FlagsFit, McuFits, At, McuRuns, Served, Boots, Finding
<1>5. SessionFits'
  BY <1>1, <1>2 DEF LifeInv, SessionFits, At
<1>6. QED
  BY <1>1, <1>2, <1>3, <1>4, <1>5, Types, StepFacts DEF PcT, Starting, Boots

LEMMA MmuInitDmaInv ==
  ASSUME LifeInv, MmuInitDma
  PROVE  LifeInv'
<1>1. /\ pc = "dma" /\ mem.ptr = {"regs", "scratch"} /\ "dma" \in Blocks
      /\ UNCHANGED <<session, flags, hw, pte, inUse, vms>>
  BY DEF LifeInv, AdapterFits, MmuInitDma, vmVars, At, Blocks, AdapterBlocks
<1>2. /\ Good(mem') /\ pc' \in {"aperture", "segment"}
      /\ env' \in EnvT /\ env'.survived = env.survived /\ env'.foundLost = env.foundLost
      /\ pc' = "aperture" => mem'.ptr = {"regs", "scratch", "dma"} /\ env' = env
      /\ pc' = "segment" => mem'.ptr = {"regs"} /\ env'.faulted
  <2>1. CASE mem' = With(mem, "dma") /\ pc' = "aperture" /\ env' = env
    BY <1>1, <2>1, Types, WithFacts
  <2>2. CASE /\ mem' = Without(mem, {"scratch"}) /\ pc' = "segment"
             /\ env' = [env EXCEPT !.faulted = TRUE]
    <3>1. Good(mem') /\ mem'.ptr = {"regs"}
      BY <1>1, <2>2, Types, WithoutFacts
    <3>2. QED
      BY <2>2, <3>1, Types DEF EnvT
  <2>3. QED
    BY <2>1, <2>2 DEF MmuInitDma, Goto, Fault, Allocate
<1>3. AdapterFits' /\ FirmwareFits'
  BY <1>1, <1>2 DEF LifeInv, AdapterFits, FirmwareFits, At, NoMmu, NoFw, Served, Fw, FwBlocks,
    QueueBlocks
<1>4. FlagsFit' /\ McuFits'
  BY <1>1, <1>2 DEF LifeInv, FlagsFit, McuFits, At, McuRuns, Served, Boots, Finding
<1>5. SessionFits'
  BY <1>1, <1>2 DEF LifeInv, SessionFits, At
<1>6. QED
  BY <1>1, <1>2, <1>3, <1>4, <1>5, Types, StepFacts DEF PcT, PteT, Starting, Boots

LEMMA MmuInitApertureInv ==
  ASSUME LifeInv, MmuInitAperture
  PROVE  LifeInv'
<1>1. /\ pc = "aperture" /\ mem.ptr = {"regs", "scratch", "dma"} /\ "aperL3" \in Blocks
      /\ UNCHANGED <<session, flags, hw, pte, inUse, vms>>
  BY DEF LifeInv, AdapterFits, MmuInitAperture, vmVars, At, Blocks, AdapterBlocks
<1>2. /\ Good(mem') /\ pc' \in {"enable", "segment"}
      /\ env' \in EnvT /\ env'.survived = env.survived /\ env'.foundLost = env.foundLost
      /\ pc' = "enable" => mem'.ptr = AdapterBlocks /\ env' = env
      /\ pc' = "segment" => mem'.ptr = {"regs"} /\ env'.faulted
  <2>1. CASE mem' = With(mem, "aperL3") /\ pc' = "enable" /\ env' = env
    BY <1>1, <2>1, Types, WithFacts DEF AdapterBlocks
  <2>2. CASE /\ mem' = Without(mem, {"dma", "scratch"}) /\ pc' = "segment"
             /\ env' = [env EXCEPT !.faulted = TRUE]
    <3>1. Good(mem') /\ mem'.ptr = {"regs"}
      BY <1>1, <2>2, Types, WithoutFacts
    <3>2. QED
      BY <2>2, <3>1, Types DEF EnvT
  <2>3. QED
    BY <2>1, <2>2 DEF MmuInitAperture, Goto, Fault, Allocate
<1>3. AdapterFits' /\ FirmwareFits'
  BY <1>1, <1>2 DEF LifeInv, AdapterFits, FirmwareFits, At, NoMmu, NoFw, Served, Fw, FwBlocks,
    QueueBlocks, AdapterBlocks
<1>4. FlagsFit' /\ McuFits'
  BY <1>1, <1>2 DEF LifeInv, FlagsFit, McuFits, At, McuRuns, Served, Boots, Finding,
    AdapterBlocks
<1>5. SessionFits'
  BY <1>1, <1>2 DEF LifeInv, SessionFits, At
<1>6. QED
  BY <1>1, <1>2, <1>3, <1>4, <1>5, Types, StepFacts DEF PcT, PteT, Starting, Boots

LEMMA MmuInitEnableInv ==
  ASSUME LifeInv, MmuInitEnable
  PROVE  LifeInv'
<1>1. /\ pc = "enable" /\ pc' = "segment" /\ mem.ptr = AdapterBlocks
      /\ "mmuBound" \notin flags /\ UNCHANGED <<session, vms>>
  BY DEF LifeInv, AdapterFits, MmuInitEnable, At, Goto, NoMmu
<1>2. CASE BringupAs \in hw.stuck
  <2>1. /\ hw' = hw /\ flags' = flags /\ mem' = Without(mem, {"aperL3", "scratch", "dma"})
        /\ pte' \in PteT /\ inUse' = {} /\ env' = [env EXCEPT !.faulted = TRUE]
    BY <1>1, <1>2, Types DEF MmuInitEnable, MmuTeardown, Fault, PteT
  <2>2. Good(mem') /\ mem'.ptr = {"regs"}
    BY <1>1, <2>1, Types, WithoutFacts DEF AdapterBlocks
  <2>3. /\ env' \in EnvT /\ env'.faulted /\ env'.survived = env.survived
        /\ env'.foundLost = env.foundLost
    BY <2>1, Types DEF EnvT
  <2>4. AdapterFits' /\ FirmwareFits'
    BY <1>1, <2>1, <2>2 DEF LifeInv, AdapterFits, FirmwareFits, At, NoMmu, NoFw, Served, Fw,
      FwBlocks, QueueBlocks
  <2>5. FlagsFit' /\ McuFits'
    BY <1>1, <2>1, <2>2, <2>3 DEF LifeInv, FlagsFit, McuFits, At, McuRuns, Served, Boots,
      Finding, AdapterBlocks
  <2>6. SessionFits'
    BY <1>1, <2>3 DEF SessionFits, At
  <2>7. QED
    BY <1>1, <2>1, <2>2, <2>3, <2>4, <2>5, <2>6, Types, StepFacts DEF PcT, Starting
<1>3. CASE BringupAs \notin hw.stuck
  <2>1. /\ hw' = Enabled(hw, BringupAs) /\ flags' = flags \cup {"mmuBound"}
        /\ UNCHANGED <<mem, pte, env, inUse>>
    BY <1>3 DEF MmuInitEnable
  <2>2. /\ hw' \in HwT /\ hw'.on = hw.on \cup {BringupAs} /\ hw'.stuck = hw.stuck
        /\ hw'.mcu = hw.mcu /\ hw'.csg = hw.csg /\ hw'.l2 = hw.l2 /\ hw'.version = hw.version
    BY <2>1, Types DEF Enabled, HwT
  <2>3. AdapterFits' /\ FirmwareFits'
    BY <1>1, <2>1, <2>2 DEF LifeInv, AdapterFits, FirmwareFits, At, NoMmu, NoFw, Served
  <2>4. FlagsFit' /\ McuFits'
    BY <1>1, <2>1, <2>2, Types DEF LifeInv, FlagsFit, McuFits, At, McuRuns, Served, Boots,
      Finding
  <2>5. SessionFits'
    BY <1>1, <2>1, <2>2 DEF LifeInv, SessionFits, At
  <2>6. QED
    BY <1>1, <2>1, <2>2, <2>3, <2>4, <2>5, Types, StepFacts DEF PcT, PteT, Starting, Flags
<1>4. QED
  BY <1>2, <1>3

LEMMA VidmmAllocateSegmentInv ==
  ASSUME LifeInv, VidmmAllocateSegment
  PROVE  LifeInv'
<1>1. /\ pc = "segment" /\ pc' = "fw" /\ "dma" \in Blocks /\ mem.ptr \cap Fw = {}
      /\ UNCHANGED <<session, flags, hw, pte, inUse, vms>>
  BY DEF LifeInv, FirmwareFits, VidmmAllocateSegment, vmVars, At, Goto, NoFw, Blocks,
    AdapterBlocks
<1>2. /\ Good(mem') /\ mem.ptr \subseteq mem'.ptr /\ mem'.ptr \subseteq mem.ptr \cup {"dma"}
      /\ env' \in EnvT /\ env'.survived = env.survived /\ env'.foundLost = env.foundLost
      /\ ~env'.faulted => env' = env
  <2>1. CASE mem' = mem /\ env' = env
    BY <2>1, Types
  <2>2. CASE "dma" \notin mem.ptr /\ mem' = With(mem, "dma") /\ env' = env
    BY <1>1, <2>2, Types, WithFacts
  <2>3. CASE mem' = mem /\ env' = [env EXCEPT !.faulted = TRUE]
    BY <2>3, Types DEF EnvT
  <2>4. QED
    BY <2>1, <2>2, <2>3 DEF VidmmAllocateSegment, Allocate, Fault
<1>3. mem'.ptr \cap Fw = {} /\ "fwCtx" \notin mem'.ptr
  BY <1>1, <1>2 DEF Fw, FwBlocks, QueueBlocks
<1>4. AdapterFits' /\ FirmwareFits'
  BY <1>1, <1>2, <1>3 DEF LifeInv, AdapterFits, FirmwareFits, At, NoMmu, NoFw, Served
<1>5. FlagsFit' /\ McuFits'
  BY <1>1, <1>2, <1>3 DEF LifeInv, FlagsFit, McuFits, At, McuRuns, Served, Boots, Finding
<1>6. SessionFits'
  BY <1>1, <1>2 DEF LifeInv, SessionFits, At
<1>7. QED
  BY <1>1, <1>2, <1>4, <1>5, <1>6, Types, StepFacts DEF PcT, PteT, Starting

-----------------------------------------------------------------------------
(* WinMaliFwInit: loading the firmware and booting the MCU. *)

LEMMA FaultFacts ==
  ASSUME LifeInv, Fault
  PROVE  /\ env' \in EnvT /\ env'.faulted
         /\ UNCHANGED <<env.unacked, env.foundLost, env.survived>>
  BY Types DEF Fault, EnvT

(* A failure before the MCU was started.                                    *)
LEMMA AbandonInv ==
  ASSUME LifeInv, pc \in {"image", "sections", "ptPool", "mcu"}, NEW m, Good(m),
         m.ptr \subseteq Blocks, m.ptr \ Fw = mem.ptr \ Fw, m.ptr \cap QueueBlocks = {},
         FwAbandon(m, hw), Fault, UNCHANGED <<session, flags, pte, inUse, vms>>
  PROVE  LifeInv'
<1>1. /\ Good(mem') /\ mem'.ptr = mem.ptr \ Fw /\ pc' = "sched"
  BY CtxFreedFacts DEF FwAbandon, Goto
<1>2. /\ hw' \in HwT /\ hw'.on = hw.on /\ hw'.stuck = hw.stuck /\ hw'.mcu = hw.mcu
      /\ hw'.csg = hw.csg /\ hw'.version = hw.version /\ ~hw'.l2
  BY Types DEF FwAbandon, L2Off, HwT
<1>3. /\ "fwCtx" \notin mem'.ptr /\ mem'.ptr \cap Fw = {}
      /\ AdapterBlocks \subseteq mem.ptr => AdapterBlocks \subseteq mem'.ptr
  BY <1>1 DEF Fw, FwBlocks, QueueBlocks, AdapterBlocks
<1>4. "mcuBound" \notin flags /\ "boot" \notin flags /\ "alive" \notin flags
  BY DEF LifeInv, FlagsFit, McuRuns, Served, Boots
<1>5. AdapterFits' /\ FirmwareFits'
  BY <1>1, <1>2, <1>3 DEF LifeInv, AdapterFits, FirmwareFits, At, NoMmu, NoFw, Served
<1>6. FlagsFit' /\ McuFits'
  BY <1>1, <1>2, <1>3, <1>4 DEF LifeInv, FlagsFit, McuFits, At, McuRuns, Served, Boots, Finding
<1>7. SessionFits'
  BY <1>1, <1>2, FaultFacts DEF SessionFits, At
<1>8. QED
  BY <1>1, <1>2, <1>5, <1>6, <1>7, FaultFacts, Types, StepFacts DEF PcT, PteT, Starting

LEMMA FwInitInv ==
  ASSUME LifeInv, FwInit
  PROVE  LifeInv'
<1>1. /\ pc = "fw" /\ mem.ptr \cap Fw = {} /\ "fwCtx" \notin mem.ptr /\ "fwCtx" \in Blocks
      /\ UNCHANGED <<session, flags, pte, inUse, vms>>
  BY DEF LifeInv, FirmwareFits, FwInit, vmVars, At, NoFw, Blocks, Fw
<1>2. "mcuBound" \notin flags /\ "boot" \notin flags /\ "alive" \notin flags
  BY <1>1 DEF LifeInv, FlagsFit, McuRuns, Served, Boots
<1>3. CASE mem' = With(mem, "fwCtx") /\ hw' = L2On(hw) /\ pc' = "image" /\ env' = env
  <2>1. Good(mem') /\ mem'.ptr = mem.ptr \cup {"fwCtx"}
    BY <1>1, <1>3, Types, WithFacts
  <2>2. /\ hw' \in HwT /\ hw'.on = hw.on /\ hw'.stuck = hw.stuck /\ hw'.mcu = hw.mcu
        /\ hw'.csg = hw.csg /\ hw'.version = hw.version /\ hw'.l2
    BY <1>3, Types DEF L2On, HwT
  <2>3. mem'.ptr \cap Fw = {"fwCtx"}
    BY <1>1, <2>1 DEF Fw
  <2>4. AdapterFits' /\ FirmwareFits'
    BY <1>1, <1>3, <2>1, <2>2, <2>3
    DEF LifeInv, AdapterFits, FirmwareFits, At, NoMmu, NoFw, Served
  <2>5. FlagsFit' /\ McuFits'
    BY <1>1, <1>2, <1>3, <2>1, <2>2
    DEF LifeInv, FlagsFit, McuFits, At, McuRuns, Served, Boots, Finding
  <2>6. SessionFits'
    BY <1>1, <1>3, <2>1, <2>2 DEF LifeInv, SessionFits, At
  <2>7. QED
    BY <1>1, <1>3, <2>1, <2>2, <2>4, <2>5, <2>6, Types, StepFacts DEF PcT, PteT, Starting
<1>4. CASE hw' \in {hw, L2On(hw)} /\ pc' = "sched" /\ Fault /\ mem' = mem
  <2>1. /\ hw' \in HwT /\ hw'.on = hw.on /\ hw'.stuck = hw.stuck /\ hw'.mcu = hw.mcu
        /\ hw'.csg = hw.csg /\ hw'.version = hw.version
    BY <1>4, Types DEF L2On, HwT
  <2>2. AdapterFits' /\ FirmwareFits'
    BY <1>1, <1>4, <2>1 DEF LifeInv, AdapterFits, FirmwareFits, At, NoMmu, NoFw, Served
  <2>3. FlagsFit' /\ McuFits'
    BY <1>1, <1>2, <1>4, <2>1
    DEF LifeInv, FlagsFit, McuFits, At, McuRuns, Served, Boots, Finding
  <2>4. SessionFits'
    BY <1>4, FaultFacts DEF SessionFits, At
  <2>5. QED
    BY <1>1, <1>4, <2>1, <2>2, <2>3, <2>4, FaultFacts, Types, StepFacts
    DEF PcT, PteT, Starting
<1>5. QED
  BY <1>1, <1>3, <1>4 DEF FwInit, Allocate, Goto

LEMMA FwReadFileImageInv ==
  ASSUME LifeInv, FwReadFileImage
  PROVE  LifeInv'
<1>1. /\ pc = "image" /\ mem.ptr \cap Fw = {"fwCtx"} /\ "image" \in Blocks \cap Fw
      /\ UNCHANGED <<session, flags, pte, inUse, vms>>
  BY DEF LifeInv, FirmwareFits, FwReadFileImage, vmVars, At, Blocks, Fw, FwBlocks
<1>2. CASE mem' = With(mem, "image") /\ pc' = "sections" /\ UNCHANGED <<hw, env>>
  <2>1. Good(mem') /\ mem'.ptr = mem.ptr \cup {"image"}
    BY <1>1, <1>2, Types, WithFacts
  <2>2. mem'.ptr \cap Fw = {"fwCtx", "image"}
    BY <1>1, <2>1
  <2>3. AdapterFits' /\ FirmwareFits'
    BY <1>1, <1>2, <2>1, <2>2 DEF LifeInv, AdapterFits, FirmwareFits, At, NoMmu, NoFw, Served
  <2>4. FlagsFit' /\ McuFits'
    BY <1>1, <1>2, <2>1 DEF LifeInv, FlagsFit, McuFits, At, McuRuns, Served, Boots, Finding
  <2>5. SessionFits'
    BY <1>1, <1>2, <2>1 DEF LifeInv, SessionFits, At
  <2>6. QED
    BY <1>1, <1>2, <2>1, <2>3, <2>4, <2>5, Types, StepFacts DEF PcT, PteT, Starting
<1>3. CASE FwAbandon(mem, hw) /\ Fault
  <2>1. mem.ptr \cap QueueBlocks = {} /\ mem.ptr \subseteq Blocks
    BY <1>1, Types DEF Fw, FwBlocks, QueueBlocks, Good, MemT
  <2>2. QED
    BY <1>1, <1>3, <2>1, Types, AbandonInv
<1>4. QED
  BY <1>2, <1>3 DEF FwReadFileImage, Allocate, Goto

LEMMA FwParseImageInv ==
  ASSUME LifeInv, FwParseImage
  PROVE  LifeInv'
<1>1. /\ pc = "sections" /\ mem.ptr \cap Fw = {"fwCtx", "image"} /\ "sections" \in Blocks \cap Fw
      /\ UNCHANGED <<session, flags, pte, inUse, vms>>
  BY DEF LifeInv, FirmwareFits, FwParseImage, vmVars, At, Blocks, Fw, FwBlocks
<1>2. Good(With(mem, "sections")) /\ With(mem, "sections").ptr = mem.ptr \cup {"sections"}
  BY <1>1, Types, WithFacts
<1>3. CASE mem' = With(mem, "sections") /\ pc' = "ptPool" /\ UNCHANGED <<hw, env>>
  <2>1. mem'.ptr \cap Fw = {"fwCtx", "image", "sections"}
    BY <1>1, <1>2, <1>3
  <2>2. AdapterFits' /\ FirmwareFits'
    BY <1>1, <1>2, <1>3, <2>1
    DEF LifeInv, AdapterFits, FirmwareFits, At, NoMmu, NoFw, Served
  <2>3. FlagsFit' /\ McuFits'
    BY <1>1, <1>2, <1>3
    DEF LifeInv, FlagsFit, McuFits, At, McuRuns, Served, Boots, Finding
  <2>4. SessionFits'
    BY <1>1, <1>2, <1>3 DEF LifeInv, SessionFits, At
  <2>5. QED
    BY <1>1, <1>2, <1>3, <2>2, <2>3, <2>4, Types, StepFacts DEF PcT, PteT, Starting
<1>4. CASE \E m \in {mem, With(mem, "sections")} : FwAbandon(m, hw) /\ Fault
  <2>1. PICK m \in {mem, With(mem, "sections")} : FwAbandon(m, hw) /\ Fault
    BY <1>4
  <2>2. /\ Good(m) /\ m.ptr \subseteq Blocks /\ m.ptr \ Fw = mem.ptr \ Fw
        /\ m.ptr \cap Fw \subseteq {"fwCtx", "image", "sections"}
    BY <1>1, <1>2, Types DEF Good, MemT
  <2>3. m.ptr \cap QueueBlocks = {}
    BY <2>2 DEF Fw, FwBlocks, QueueBlocks
  <2>4. QED
    BY <1>1, <2>1, <2>2, <2>3, AbandonInv
<1>5. QED
  BY <1>3, <1>4 DEF FwParseImage, Allocate, Goto

LEMMA FwBuildTablesInv ==
  ASSUME LifeInv, FwBuildTables
  PROVE  LifeInv'
<1>1. /\ pc = "ptPool" /\ mem.ptr \cap Fw = {"fwCtx", "image", "sections"}
      /\ "ptPool" \in Blocks \cap Fw
      /\ UNCHANGED <<session, flags, inUse, vms>>
  BY DEF LifeInv, FirmwareFits, FwBuildTables, vmVars, At, Blocks, Fw, FwBlocks
<1>2. Good(With(mem, "ptPool")) /\ With(mem, "ptPool").ptr = mem.ptr \cup {"ptPool"}
  BY <1>1, Types, WithFacts
<1>3. CASE /\ mem' = With(mem, "ptPool") /\ pc' = "mcu" /\ env' = env
           /\ hw' = [hw EXCEPT !.version = FALSE] /\ pte' = [pte EXCEPT ![McuAs] = {}]
  <2>1. mem'.ptr \cap Fw = Loaded /\ "boot" \notin flags
    BY <1>1, <1>2, <1>3 DEF Loaded, LifeInv, FlagsFit, Served
  <2>2. /\ hw' \in HwT /\ hw'.on = hw.on /\ hw'.stuck = hw.stuck /\ hw'.mcu = hw.mcu
        /\ hw'.csg = hw.csg /\ hw'.l2 = hw.l2 /\ ~hw'.version /\ pte' \in PteT
    BY <1>3, Types DEF HwT, PteT
  <2>3. AdapterFits' /\ FirmwareFits'
    BY <1>1, <1>2, <1>3, <2>1, <2>2
    DEF LifeInv, AdapterFits, FirmwareFits, At, NoMmu, NoFw, Served
  <2>4. FlagsFit' /\ McuFits'
    BY <1>1, <1>2, <1>3, <2>1, <2>2
    DEF LifeInv, FlagsFit, McuFits, At, McuRuns, Served, Boots, Finding
  <2>5. SessionFits'
    BY <1>1, <1>2, <1>3, <2>2 DEF LifeInv, SessionFits, At
  <2>6. QED
    BY <1>1, <1>2, <1>3, <2>2, <2>3, <2>4, <2>5, Types, StepFacts DEF PcT, Starting
<1>4. CASE \E m \in {mem, With(mem, "ptPool")} : FwAbandon(m, hw) /\ Fault /\ pte' = pte
  <2>1. PICK m \in {mem, With(mem, "ptPool")} : FwAbandon(m, hw) /\ Fault /\ pte' = pte
    BY <1>4
  <2>2. /\ Good(m) /\ m.ptr \subseteq Blocks /\ m.ptr \ Fw = mem.ptr \ Fw
        /\ m.ptr \cap Fw \subseteq {"fwCtx", "image", "sections", "ptPool"}
    BY <1>1, <1>2, Types DEF Good, MemT
  <2>3. m.ptr \cap QueueBlocks = {}
    BY <2>2 DEF Fw, FwBlocks, QueueBlocks
  <2>4. QED
    BY <1>1, <2>1, <2>2, <2>3, AbandonInv
<1>5. QED
  BY <1>3, <1>4 DEF FwBuildTables, Allocate, Goto

(* The MCU is started in an AS that obeys; one that was left is not found.  *)
LEMMA FwStartMcuInv ==
  ASSUME LifeInv, FwStartMcu
  PROVE  LifeInv'
<1>1. /\ pc = "mcu" /\ mem.ptr \cap Fw = Loaded /\ "fwCtx" \in mem.ptr
      /\ "mcuBound" \notin flags /\ "boot" \notin flags
      /\ UNCHANGED <<session, pte, inUse, vms>>
  BY DEF LifeInv, FirmwareFits, FlagsFit, FwStartMcu, vmVars, At, Loaded, McuRuns, Served, Boots
<1>2. CASE McuAs \in hw.stuck
  <2>1. mem.ptr \cap QueueBlocks = {} /\ mem.ptr \subseteq Blocks
    BY <1>1, Types DEF Loaded, Fw, FwBlocks, QueueBlocks, Good, MemT
  <2>2. FwAbandon(mem, hw) /\ Fault /\ UNCHANGED flags
    BY <1>2 DEF FwStartMcu
  <2>3. QED
    BY <1>1, <2>1, <2>2, Types, AbandonInv
<1>3. CASE McuAs \notin hw.stuck
  <2>1. /\ hw' = [Enabled(hw, McuAs) EXCEPT !.mcu = IF @ = "off" THEN "booting" ELSE @,
                                            !.raised = FALSE]
        /\ flags' = flags \cup {"mcuBound"} /\ pc' = "poll" /\ UNCHANGED <<mem, env>>
    BY <1>3 DEF FwStartMcu, Goto
  <2>2. /\ hw' \in HwT /\ hw'.on = hw.on \cup {McuAs} /\ hw'.stuck = hw.stuck
        /\ hw'.mcu = (IF hw.mcu = "off" THEN "booting" ELSE hw.mcu)
        /\ hw'.csg = hw.csg /\ hw'.l2 = hw.l2 /\ hw'.version = hw.version
    BY <2>1, Types DEF Enabled, HwT
  <2>3. hw.mcu \notin {"booting", "up"}
    BY <1>1, <1>3 DEF LifeInv, McuFits
  <2>4. AdapterFits' /\ FirmwareFits'
    BY <1>1, <2>1, <2>2, Types
    DEF LifeInv, AdapterFits, FirmwareFits, At, NoMmu, NoFw, Served
  <2>5. FlagsFit'
    BY <1>1, <2>1, <2>2 DEF LifeInv, FlagsFit, At, McuRuns, Served, Boots
  <2>6. McuFits'
    BY <1>1, <2>1, <2>2, <2>3 DEF LifeInv, McuFits, Served, Boots, Finding
  <2>7. SessionFits'
    BY <1>1, <2>1, <2>2 DEF LifeInv, SessionFits, At
  <2>8. QED
    BY <1>1, <2>1, <2>2, <2>4, <2>5, <2>6, <2>7, Types, StepFacts
    DEF PcT, PteT, Starting, Flags
<1>4. QED
  BY <1>2, <1>3

LEMMA McuBootsInv ==
  ASSUME LifeInv, McuBoots
  PROVE  LifeInv'
<1>1. /\ hw.mcu = "booting" /\ hw.csg = "idle" /\ hw' \in HwT /\ hw'.mcu = "up" /\ hw'.version
      /\ hw'.on = hw.on /\ hw'.stuck = hw.stuck /\ hw'.csg = hw.csg /\ hw'.l2 = hw.l2
      /\ UNCHANGED <<pc, session, mem, flags, pte, env, inUse, vms>>
  BY Types DEF LifeInv, McuFits, McuBoots, vmVars, HwT
<1>2. AdapterFits' /\ FirmwareFits'
  BY <1>1 DEF LifeInv, AdapterFits, FirmwareFits, At
<1>3. FlagsFit' /\ McuFits'
  BY <1>1 DEF LifeInv, FlagsFit, McuFits, At
<1>4. SessionFits'
  BY <1>1 DEF LifeInv, SessionFits, McuFits, At, Finding
<1>5. QED
  BY <1>1, <1>2, <1>3, <1>4, Types, StepFacts DEF LifeInv, TypeOK, PcT, PteT

LEMMA InterruptRoutineInv ==
  ASSUME LifeInv, InterruptRoutine
  PROVE  LifeInv'
<1>1. /\ hw' \in HwT /\ hw'.mcu = hw.mcu /\ hw'.version = hw.version
      /\ hw'.on = hw.on /\ hw'.stuck = hw.stuck /\ hw'.csg = hw.csg /\ hw'.l2 = hw.l2
      /\ UNCHANGED <<pc, session, mem, flags, pte, env, inUse, vms>>
  BY Types DEF InterruptRoutine, vmVars, HwT
<1>2. AdapterFits' /\ FirmwareFits'
  BY <1>1 DEF LifeInv, AdapterFits, FirmwareFits, At
<1>3. FlagsFit' /\ McuFits'
  BY <1>1 DEF LifeInv, FlagsFit, McuFits, At
<1>4. SessionFits'
  BY <1>1 DEF LifeInv, SessionFits, At
<1>5. QED
  BY <1>1, <1>2, <1>3, <1>4, Types, StepFacts DEF LifeInv, TypeOK, PcT, PteT

(* A boot that failed takes the MCU's address space away.                   *)
LEMMA BootFailedInv ==
  ASSUME LifeInv, pc \in {"poll", "ifaces"}, BootFailed, env' \in EnvT,
         UNCHANGED <<env.unacked, env.foundLost, env.survived>>,
         env.faulted => env'.faulted, env'.faulted \/ env.foundLost,
         UNCHANGED <<session, pte, inUse, vms>>
  PROVE  LifeInv'
<1>1. /\ mem.ptr \cap Fw = Loaded /\ "boot" \notin flags /\ "alive" \notin flags
  BY DEF LifeInv, FirmwareFits, FlagsFit, Served
<1>2. /\ Good(mem') /\ mem'.ptr = mem.ptr \ Fw
      /\ pc' = "sched" /\ flags' = flags \ {"mcuBound"}
  <2>1. mem.ptr \cap QueueBlocks = {}
    BY <1>1 DEF Loaded, Fw, FwBlocks, QueueBlocks
  <2>2. QED
    BY <2>1, Types, CtxFreedFacts DEF BootFailed, FwAbandon, Goto
<1>3. /\ "fwCtx" \notin mem'.ptr /\ mem'.ptr \cap Fw = {}
      /\ AdapterBlocks \subseteq mem.ptr => AdapterBlocks \subseteq mem'.ptr
  BY <1>2 DEF Fw, FwBlocks, QueueBlocks, AdapterBlocks
<1>4. /\ hw' \in HwT /\ hw'.stuck = hw.stuck /\ hw'.csg = hw.csg /\ ~hw'.l2
      /\ McuAs \in hw.stuck => hw'.on = hw.on /\ hw'.mcu = hw.mcu
      /\ McuAs \notin hw.stuck => /\ hw'.on = hw.on \ {McuAs}
                                  /\ hw'.mcu = IF hw.mcu # "off" THEN "lost" ELSE "off"
  BY DisabledFacts DEF BootFailed, FwAbandon, L2Off, HwT
<1>5. AdapterFits' /\ FirmwareFits'
  BY <1>2, <1>3, <1>4, Types DEF LifeInv, AdapterFits, FirmwareFits, At, NoMmu, NoFw, Served
<1>6. FlagsFit'
  BY <1>1, <1>2, <1>3, <1>4 DEF LifeInv, FlagsFit, At, McuRuns, Served, Boots
<1>7. McuFits'
  BY <1>2, <1>3, <1>4 DEF LifeInv, McuFits, Served, Boots, Finding
<1>8. SessionFits'
  BY <1>2, <1>3, <1>4 DEF LifeInv, SessionFits, At
<1>9. QED
  BY <1>1, <1>2, <1>4, <1>5, <1>6, <1>7, <1>8, Types, StepFacts DEF PcT, PteT, Starting

(* When nothing was found lost a boot that is over is seen.                 *)
LEMMA FwBootPollInv ==
  ASSUME LifeInv, FwBootPoll
  PROVE  LifeInv'
<1>1. pc = "poll" /\ UNCHANGED <<session, pte, inUse, vms>>
  BY DEF FwBootPoll, vmVars, At
<1>2. CASE Booted
  <2>1. /\ hw' \in HwT /\ hw'.mcu = hw.mcu /\ hw'.version = hw.version
        /\ hw'.on = hw.on /\ hw'.stuck = hw.stuck /\ hw'.csg = hw.csg /\ hw'.l2 = hw.l2
        /\ pc' = "ifaces" /\ UNCHANGED <<mem, flags, env>>
    BY <1>2, Types DEF FwBootPoll, Goto, HwT
  <2>2. AdapterFits' /\ FirmwareFits'
    BY <1>1, <2>1 DEF LifeInv, AdapterFits, FirmwareFits, At, NoMmu, NoFw, Served
  <2>3. FlagsFit' /\ McuFits'
    BY <1>1, <2>1 DEF LifeInv, FlagsFit, McuFits, At, McuRuns, Served, Boots, Finding
  <2>4. SessionFits'
    BY <1>1, <2>1 DEF LifeInv, SessionFits, At
  <2>5. QED
    BY <1>1, <2>1, <2>2, <2>3, <2>4, Types, StepFacts DEF PcT, PteT, Starting
<1>3. CASE ~Booted
  <2>1. PICK f \in BOOLEAN : f = (env.faulted \/ hw.mcu # "up")
    OBVIOUS
  <2>2. BootFailed /\ env' = [env EXCEPT !.faulted = f]
    BY <1>3, <2>1 DEF FwBootPoll
  <2>3. f \/ env.foundLost
    BY <1>1, <1>3, <2>1 DEF LifeInv, McuFits, Booted
  <2>4. /\ env' \in EnvT /\ env'.faulted = f
        /\ UNCHANGED <<env.unacked, env.foundLost, env.survived>>
    BY <2>2, Types DEF EnvT
  <2>5. env.faulted => env'.faulted
    BY <2>1, <2>4
  <2>6. QED
    BY <1>1, <2>2, <2>3, <2>4, <2>5, BootFailedInv
<1>4. QED
  BY <1>2, <1>3

LEMMA FwInitIfacesInv ==
  ASSUME LifeInv, FwInitIfaces
  PROVE  LifeInv'
<1>1. /\ pc = "ifaces" /\ UNCHANGED <<session, pte, inUse, vms>>
      /\ mem.ptr \cap Fw = Loaded /\ "boot" \notin flags
  BY DEF LifeInv, FirmwareFits, FlagsFit, FwInitIfaces, vmVars, At, Served
<1>2. CASE /\ hw.version /\ pc' = IF "mmuBound" \in flags THEN "boot1" ELSE "publish"
           /\ UNCHANGED <<mem, flags, hw, env>>
  <2>1. hw.mcu = "up" /\ "fwCtx" \in mem.ptr
    BY <1>1, <1>2 DEF LifeInv, McuFits, Loaded
  <2>2. mem.ptr \cap {"ring", "sync", "shader", "qif", "suspend", "protm"} = {}
    BY <1>1 DEF Loaded, Fw, FwBlocks, QueueBlocks
  <2>3. AdapterFits' /\ FirmwareFits'
    BY <1>1, <1>2, <2>1 DEF LifeInv, AdapterFits, FirmwareFits, At, NoMmu, NoFw, Served
  <2>4. FlagsFit'
    BY <1>1, <1>2, <2>1, <2>2 DEF LifeInv, FlagsFit, At, McuRuns, Served, Boots
  <2>5. McuFits'
    BY <1>1, <1>2, <2>1 DEF LifeInv, McuFits, Served, Boots, Finding
  <2>6. SessionFits'
    BY <1>1, <1>2 DEF LifeInv, SessionFits, At
  <2>7. QED
    BY <1>1, <1>2, <2>3, <2>4, <2>5, <2>6, Types, StepFacts DEF PcT, PteT, Starting, Boots
<1>3. CASE BootFailed /\ Fault
  BY <1>1, <1>3, FaultFacts, BootFailedInv
<1>4. QED
  BY <1>2, <1>3 DEF FwInitIfaces, Goto, BootPc

-----------------------------------------------------------------------------
(* The kernel queue. *)

LEMMA CsfTeardownFacts ==
  ASSUME LifeInv, NEW m, Good(m), CsfTeardown(m)
  PROVE  /\ Good(mem') /\ mem'.ptr = m.ptr \ QueueBlocks /\ pte' \in PteT
         /\ flags' = flags \ {"boot", "jobs"}
  BY Types, WithoutFacts DEF CsfTeardown, PteT

(* Bootstrap_ gives up: the queue's memory goes, the rest stays.            *)
LEMMA GiveUpInv ==
  ASSUME LifeInv, pc \in Boots \cup {"startCsg"}, NEW m, Good(m), CsfTeardown(m),
         m.ptr \ QueueBlocks = mem.ptr \ QueueBlocks, pc' = "publish",
         hw' \in HwT, UNCHANGED <<hw.mcu, hw.on, hw.stuck, hw.l2, hw.version>>,
         env' \in EnvT, env'.faulted, UNCHANGED <<env.foundLost, env.survived>>,
         hw'.csg = hw.csg \/ env'.unacked, env.unacked => env'.unacked,
         UNCHANGED <<session, inUse, vms>>
  PROVE  LifeInv'
<1>1. /\ Good(mem') /\ mem'.ptr = mem.ptr \ QueueBlocks /\ pte' \in PteT
      /\ flags' = flags \ {"boot", "jobs"}
  BY CsfTeardownFacts
<1>2. /\ hw.mcu = "up" /\ "mmuBound" \in flags /\ Loaded \subseteq mem.ptr /\ "alive" \notin flags
  BY DEF LifeInv, FirmwareFits, FlagsFit, McuFits, Boots, Loaded, At, Fw, FwBlocks, Served
<1>3. /\ mem'.ptr \cap Fw = Loaded /\ "fwCtx" \in mem'.ptr /\ "fwCtx" \in mem.ptr
      /\ AdapterBlocks \subseteq mem.ptr => AdapterBlocks \subseteq mem'.ptr
  BY <1>1, <1>2 DEF Fw, FwBlocks, QueueBlocks, Loaded, AdapterBlocks
<1>4. AdapterFits' /\ FirmwareFits'
  BY <1>1, <1>2, <1>3
  DEF LifeInv, AdapterFits, FirmwareFits, At, NoMmu, NoFw, Served
<1>5. FlagsFit'
  BY <1>1, <1>2, <1>3 DEF LifeInv, FlagsFit, At, McuRuns, Served, Boots
<1>6. McuFits'
  BY <1>1, <1>2, <1>3 DEF LifeInv, McuFits, Served, Boots, Finding
<1>7. SessionFits'
  BY DEF SessionFits, At
<1>8. QED
  BY <1>1, <1>4, <1>5, <1>6, <1>7, Types, StepFacts DEF PcT, Starting, Boots

LEMMA BootBlocks ==
  ASSUME NEW i \in 1..Len(BootSteps)
  PROVE  /\ Len(BootSteps) = 6 /\ i \in 1..6
         /\ BootSteps[i][1] \in QueueBlocks /\ BootSteps[i][2] \in {McuAs, BringupAs}
         /\ BootPc[i] \in Boots
         /\ i = 1 => BootPc[i] = "boot1" /\ BootSteps[i] = <<"ring", BringupAs>>
         /\ i = 2 => BootPc[i] = "boot2" /\ BootSteps[i] = <<"qif", McuAs>>
         /\ i = 3 => BootPc[i] = "boot3" /\ BootSteps[i] = <<"sync", BringupAs>>
         /\ i = 4 => BootPc[i] = "boot4" /\ BootSteps[i] = <<"suspend", McuAs>>
         /\ i = 5 => BootPc[i] = "boot5" /\ BootSteps[i] = <<"protm", McuAs>>
         /\ i = 6 => BootPc[i] = "boot6" /\ BootSteps[i] = <<"shader", BringupAs>>
         /\ i < 6 => BootPc[i + 1] = (IF i = 1 THEN "boot2" ELSE IF i = 2 THEN "boot3"
              ELSE IF i = 3 THEN "boot4" ELSE IF i = 4 THEN "boot5" ELSE "boot6")
<1>1. Len(BootSteps) = 6 /\ i \in {1, 2, 3, 4, 5, 6}
  BY DEF BootSteps
<1>2. QED
  BY <1>1 DEF BootSteps, BootPc, Boots, QueueBlocks

LEMMA CsfBootstrapInv ==
  ASSUME LifeInv, NEW i \in 1..Len(BootSteps), CsfBootstrap(i)
  PROVE  LifeInv'
<1> DEFINE block == BootSteps[i][1]
           as    == BootSteps[i][2]
<1>1. /\ pc = BootPc[i] /\ pc \in Boots /\ block \in QueueBlocks /\ as \in {McuAs, BringupAs}
      /\ block \in Blocks /\ i \in {1, 2, 3, 4, 5, 6} /\ Len(BootSteps) = 6
      /\ UNCHANGED <<session, hw, inUse, vms>>
  BY BootBlocks DEF CsfBootstrap, At, vmVars, Blocks, FwBlocks
<1>2. block \notin mem.ptr
  BY <1>1, BootBlocks DEF LifeInv, FirmwareFits, At, Fw, FwBlocks, QueueBlocks, Loaded
<1>3. Good(With(mem, block)) /\ With(mem, block).ptr = mem.ptr \cup {block}
  BY <1>1, <1>2, Types, WithFacts
<1>4. CASE /\ mem' = With(mem, block) /\ pte' = [pte EXCEPT ![as] = @ \cup {block}]
           /\ pc' = IF i < Len(BootSteps) THEN BootPc[i + 1] ELSE "startCsg"
           /\ UNCHANGED <<flags, env>>
  <2>1. /\ pte' \in PteT /\ pte'[as] = pte[as] \cup {block}
        /\ \A a \in {McuAs, BringupAs} \ {as} : pte'[a] = pte[a]
    BY <1>1, <1>4, Types DEF PteT
  <2>2. /\ hw.mcu = "up" /\ "mmuBound" \in flags /\ "mcuBound" \in flags /\ "boot" \notin flags
        /\ "alive" \notin flags /\ "worker" \notin flags /\ "fwCtx" \in mem.ptr
        /\ "fwCtx" \in mem'.ptr
    <3>1. "fwCtx" \in mem.ptr
      BY <1>1 DEF LifeInv, FirmwareFits, At, Boots, Loaded, Fw
    <3>2. "fwCtx" \in mem'.ptr
      BY <1>3, <1>4, <3>1
    <3>3. pc \in McuRuns /\ pc \notin Served \cup {"stopMcu", "stopAs0"} /\ pc # "up"
      BY <1>1 DEF McuRuns, Served, Boots
    <3>4. QED
      BY <1>1, <3>1, <3>2, <3>3 DEF LifeInv, FlagsFit, McuFits, At
  <2>3. pc' \in Boots \cup {"startCsg"}
    BY <1>1, <1>4, BootBlocks DEF Boots
  <2>4. AdapterFits'
    BY <1>1, <1>3, <1>4, <2>3 DEF LifeInv, AdapterFits, At, NoMmu, Boots
  <2>5. FirmwareFits'
    <3>1. mem'.ptr = mem.ptr \cup {block}
      BY <1>3, <1>4
    <3>2. CASE i = 1
      BY <1>1, <1>4, <3>1, <3>2, BootBlocks
      DEF LifeInv, FirmwareFits, At, NoFw, Served, Loaded, Fw, FwBlocks, QueueBlocks
    <3>3. CASE i = 2
      BY <1>1, <1>4, <3>1, <3>3, BootBlocks
      DEF LifeInv, FirmwareFits, At, NoFw, Served, Loaded, Fw, FwBlocks, QueueBlocks
    <3>4. CASE i = 3
      BY <1>1, <1>4, <3>1, <3>4, BootBlocks
      DEF LifeInv, FirmwareFits, At, NoFw, Served, Loaded, Fw, FwBlocks, QueueBlocks
    <3>5. CASE i = 4
      BY <1>1, <1>4, <3>1, <3>5, BootBlocks
      DEF LifeInv, FirmwareFits, At, NoFw, Served, Loaded, Fw, FwBlocks, QueueBlocks
    <3>6. CASE i = 5
      BY <1>1, <1>4, <3>1, <3>6, BootBlocks
      DEF LifeInv, FirmwareFits, At, NoFw, Served, Loaded, Fw, FwBlocks, QueueBlocks
    <3>7. CASE i = 6
      BY <1>1, <1>4, <3>1, <3>7, BootBlocks
      DEF LifeInv, FirmwareFits, At, NoFw, Served, Loaded, Fw, FwBlocks, QueueBlocks
    <3>8. QED
      BY <1>1, <3>2, <3>3, <3>4, <3>5, <3>6, <3>7
  <2>6. FlagsFit'
    <3>1. /\ mem'.ptr \cap {"ring", "sync", "shader"} \subseteq pte'[BringupAs]
          /\ mem'.ptr \cap {"qif", "suspend", "protm"} \subseteq pte'[McuAs]
      <4>1. /\ mem.ptr \cap {"ring", "sync", "shader"} \subseteq pte[BringupAs]
            /\ mem.ptr \cap {"qif", "suspend", "protm"} \subseteq pte[McuAs]
        BY <1>1 DEF LifeInv, FlagsFit
      <4>2. /\ block \in {"ring", "sync", "shader"} => as = BringupAs
            /\ block \in {"qif", "suspend", "protm"} => as = McuAs
        BY <1>1, BootBlocks
      <4>3. QED
        BY <1>1, <1>3, <1>4, <2>1, <4>1, <4>2, Types
    <3>2. QED
      BY <1>1, <1>4, <2>2, <2>3, <3>1 DEF LifeInv, FlagsFit, At, McuRuns, Served, Boots
  <2>7. McuFits'
    BY <1>1, <1>4, <2>2, <2>3 DEF LifeInv, McuFits, Served, Boots, Finding
  <2>8. SessionFits'
    BY <2>3 DEF SessionFits, At, Boots
  <2>9. QED
    BY <1>1, <1>3, <1>4, <2>1, <2>3, <2>4, <2>5, <2>6, <2>7, <2>8, Types, StepFacts
    DEF PcT, Starting, Boots
<1>5. CASE /\ \E m \in {mem} \cup (IF as = McuAs THEN {With(mem, block)} ELSE {}) : CsfTeardown(m)
           /\ pc' = "publish" /\ Fault
  <2>1. PICK m \in {mem, With(mem, block)} : CsfTeardown(m)
    BY <1>5
  <2>2. Good(m) /\ m.ptr \ QueueBlocks = mem.ptr \ QueueBlocks
    BY <1>1, <1>3, Types
  <2>3. QED
    BY <1>1, <1>5, <2>1, <2>2, Types, FaultFacts, GiveUpInv
<1>6. QED
  BY <1>4, <1>5 DEF CsfBootstrap, Allocate, Goto

LEMMA CsfStartCsgInv ==
  ASSUME LifeInv, CsfStartCsg
  PROVE  LifeInv'
<1>1. /\ pc = "startCsg" /\ pc' = "publish" /\ Fw \subseteq mem.ptr
      /\ hw.mcu = "up" /\ "mmuBound" \in flags /\ "fwCtx" \in mem.ptr
      /\ UNCHANGED <<session, inUse, vms>>
  BY DEF LifeInv, FirmwareFits, FlagsFit, McuFits, CsfStartCsg, Goto, At, vmVars, Fw
<1>2. CASE /\ hw' = [hw EXCEPT !.csg = "started"] /\ flags' = flags \cup {"boot", "jobs"}
           /\ UNCHANGED <<mem, pte, env>>
  <2>1. /\ hw' \in HwT /\ hw'.mcu = hw.mcu /\ hw'.version = hw.version
        /\ hw'.on = hw.on /\ hw'.stuck = hw.stuck /\ hw'.csg = "started" /\ hw'.l2 = hw.l2
    BY <1>2, Types DEF HwT
  <2>2. AdapterFits' /\ FirmwareFits'
    BY <1>1, <1>2, <2>1 DEF LifeInv, AdapterFits, FirmwareFits, At, NoMmu, NoFw, Served, Fw
  <2>3. FlagsFit' /\ McuFits'
    BY <1>1, <1>2, <2>1 DEF LifeInv, FlagsFit, McuFits, At, McuRuns, Served, Boots, Finding
  <2>4. SessionFits'
    BY <1>1, <1>2, <2>1 DEF LifeInv, SessionFits, At
  <2>5. QED
    BY <1>1, <1>2, <2>1, <2>2, <2>3, <2>4, Types, StepFacts DEF PcT, PteT, Starting, Flags
<1>3. CASE /\ hw' = [hw EXCEPT !.csg = "asked"] /\ CsfTeardown(mem)
           /\ env' = [env EXCEPT !.faulted = TRUE, !.unacked = TRUE]
  <2>1. /\ hw' \in HwT /\ UNCHANGED <<hw.mcu, hw.on, hw.stuck, hw.l2, hw.version>>
        /\ env' \in EnvT /\ env'.faulted /\ env'.unacked
        /\ UNCHANGED <<env.foundLost, env.survived>>
    BY <1>3, Types DEF HwT, EnvT
  <2>2. QED
    BY <1>1, <1>3, <2>1, Types, GiveUpInv
<1>4. QED
  BY <1>2, <1>3 DEF CsfStartCsg

LEMMA FwPublishInv ==
  ASSUME LifeInv, FwPublish
  PROVE  LifeInv'
<1>1. /\ pc = "publish" /\ pc' = "selftest" /\ flags' = flags \cup {"alive"}
      /\ "fwCtx" \in mem.ptr /\ UNCHANGED <<session, mem, hw, pte, env, inUse, vms>>
  BY DEF LifeInv, FirmwareFits, FwPublish, Goto, At, vmVars
<1>2. AdapterFits' /\ FirmwareFits'
  BY <1>1 DEF LifeInv, AdapterFits, FirmwareFits, At, NoMmu, NoFw, Served
<1>3. FlagsFit' /\ McuFits'
  BY <1>1 DEF LifeInv, FlagsFit, McuFits, At, McuRuns, Served, Boots, Finding
<1>4. SessionFits'
  BY <1>1 DEF LifeInv, SessionFits, At
<1>5. QED
  BY <1>1, <1>2, <1>3, <1>4, Types, StepFacts DEF PcT, PteT, Starting, Flags

LEMMA FwSelfTestInv ==
  ASSUME LifeInv, FwSelfTest
  PROVE  LifeInv'
<1>1. /\ pc = "selftest" /\ pc' = "sched" /\ "fwCtx" \in mem.ptr
      /\ flags' \in {flags, flags \ {"jobs"}}
      /\ env' \in EnvT /\ env'.survived = env.survived /\ env'.foundLost = env.foundLost
      /\ env'.unacked = env.unacked
      /\ (flags' = flags /\ env' = env) \/ env'.faulted
      /\ UNCHANGED <<session, mem, hw, pte, inUse, vms>>
  BY Types, FaultFacts DEF LifeInv, FirmwareFits, FwSelfTest, Goto, At, vmVars
<1>2. AdapterFits' /\ FirmwareFits'
  BY <1>1 DEF LifeInv, AdapterFits, FirmwareFits, At, NoMmu, NoFw, Served
<1>3. FlagsFit' /\ McuFits'
  BY <1>1 DEF LifeInv, FlagsFit, McuFits, At, McuRuns, Served, Boots, Finding
<1>4. SessionFits'
  <2>1. "mcuBound" \in flags
    BY <1>1 DEF LifeInv, FlagsFit, McuRuns, Served
  <2>2. QED
    BY <1>1, <2>1 DEF LifeInv, SessionFits, At, Flags
<1>5. QED
  BY <1>1, <1>2, <1>3, <1>4, Types, StepFacts DEF PcT, PteT, Starting

LEMMA SchedInitInv ==
  ASSUME LifeInv, SchedInit
  PROVE  LifeInv'
<1>1. /\ pc = "sched" /\ pc' = "up"
      /\ env' \in EnvT /\ env'.survived = env.survived /\ env'.foundLost = env.foundLost
      /\ env'.unacked = env.unacked
      /\ \/ flags' = flags \cup {"worker"} /\ env' = env
         \/ flags' = flags /\ env'.faulted
      /\ UNCHANGED <<session, mem, hw, pte, inUse, vms>>
  BY Types, FaultFacts DEF SchedInit, Goto, At, vmVars
<1>2. AdapterFits' /\ FirmwareFits'
  BY <1>1 DEF LifeInv, AdapterFits, FirmwareFits, At, NoMmu, NoFw, Served
<1>3. FlagsFit' /\ McuFits'
  BY <1>1 DEF LifeInv, FlagsFit, McuFits, At, McuRuns, Served, Boots, Finding
<1>4. SessionFits'
  BY <1>1, Types DEF LifeInv, SessionFits, At, Flags
<1>5. QED
  BY <1>1, <1>2, <1>3, <1>4, Types, StepFacts DEF PcT, PteT, Starting, Flags

-----------------------------------------------------------------------------
(* StopDevice and RemoveDevice. *)

LEMMA StopDeviceInv ==
  ASSUME LifeInv, StopDevice
  PROVE  LifeInv'
<1>1. /\ pc = "up" /\ pc' = "stopFw" /\ flags' = flags \ {"worker"}
      /\ UNCHANGED <<session, mem, hw, pte, env, inUse, vms>>
  BY DEF StopDevice, At, Goto, vmVars
<1>2. AdapterFits' /\ FirmwareFits'
  BY <1>1 DEF LifeInv, AdapterFits, FirmwareFits, At, NoMmu, NoFw, Served
<1>3. FlagsFit' /\ McuFits'
  BY <1>1 DEF LifeInv, FlagsFit, McuFits, At, McuRuns, Served, Boots, Finding
<1>4. SessionFits'
  <2>1. ~env.faulted /\ ~env.foundLost => "fwCtx" \in mem.ptr
    BY <1>1 DEF LifeInv, SessionFits, FlagsFit, At, Flags
  <2>2. QED
    BY <1>1, <2>1 DEF LifeInv, SessionFits, At
<1>5. QED
  BY <1>1, <1>2, <1>3, <1>4, Types, StepFacts DEF PcT, PteT, Starting, Stopping, Boots

(* The MCU still runs, and so do the slot and the ASes: what was freed is   *)
(* in their reach until FwStopMcu.                                          *)
LEMMA FwTeardownInv ==
  ASSUME LifeInv, FwTeardown
  PROVE  LifeInv'
<1>1. pc = "stopFw" /\ UNCHANGED <<session, hw, env, inUse, vms>>
  BY DEF FwTeardown, At, vmVars
<1>2. CASE "fwCtx" \in mem.ptr /\ CsfTeardown(mem) /\ pc' = "stopMcu"
  <2>1. /\ Good(mem') /\ mem'.ptr = mem.ptr \ QueueBlocks /\ pte' \in PteT
        /\ flags' = flags \ {"boot", "jobs"}
    BY <1>2, Types, CsfTeardownFacts
  <2>2. mem.ptr \cap Fw \in {Fw, Loaded} /\ hw.mcu = "up"
    BY <1>1, <1>2 DEF LifeInv, FirmwareFits, McuFits, Served
  <2>3. /\ mem'.ptr \cap Fw = Loaded /\ "fwCtx" \in mem'.ptr
        /\ AdapterBlocks \subseteq mem.ptr => AdapterBlocks \subseteq mem'.ptr
    BY <2>1, <2>2 DEF Fw, FwBlocks, QueueBlocks, Loaded, AdapterBlocks
  <2>4. AdapterFits' /\ FirmwareFits'
    BY <1>1, <1>2, <2>1, <2>3
    DEF LifeInv, AdapterFits, FirmwareFits, At, NoMmu, NoFw, Served
  <2>5. FlagsFit'
    BY <1>1, <1>2, <2>1, <2>3 DEF LifeInv, FlagsFit, At, McuRuns, Served, Boots
  <2>6. McuFits'
    BY <1>1, <1>2, <2>1, <2>2 DEF LifeInv, McuFits, Served, Boots, Finding
  <2>7. SessionFits'
    BY <1>1, <1>2 DEF LifeInv, SessionFits, At
  <2>8. QED
    BY <1>1, <1>2, <2>1, <2>4, <2>5, <2>6, <2>7, Types, StepFacts
    DEF PcT, Starting, Stopping, Boots
<1>3. CASE "fwCtx" \notin mem.ptr /\ pc' = "stopMmu" /\ UNCHANGED <<mem, pte, flags>>
  <2>1. mem.ptr \cap Fw = {} /\ "boot" \notin flags /\ "mcuBound" \notin flags
    BY <1>1, <1>3 DEF LifeInv, FirmwareFits, FlagsFit, Served
  <2>2. AdapterFits' /\ FirmwareFits'
    BY <1>1, <1>3, <2>1 DEF LifeInv, AdapterFits, FirmwareFits, At, NoMmu, NoFw, Served
  <2>3. FlagsFit' /\ McuFits'
    BY <1>1, <1>3, <2>1 DEF LifeInv, FlagsFit, McuFits, At, McuRuns, Served, Boots, Finding
  <2>4. SessionFits'
    BY <1>1, <1>3 DEF LifeInv, SessionFits, At
  <2>5. QED
    BY <1>1, <1>3, <2>2, <2>3, <2>4, Types, StepFacts DEF PcT, PteT, Starting, Stopping, Boots
<1>4. QED
  BY <1>2, <1>3 DEF FwTeardown, Goto

LEMMA FwStopMcuInv ==
  ASSUME LifeInv, FwStopMcu
  PROVE  LifeInv'
<1>1. /\ pc = "stopMcu" /\ pc' = "stopAs0" /\ UNCHANGED <<session, mem, flags, pte, inUse, vms>>
  BY DEF FwStopMcu, At, Goto, vmVars
<1>2. /\ hw' \in HwT /\ hw'.on = hw.on /\ hw'.stuck = hw.stuck /\ hw'.l2 = hw.l2
      /\ hw'.version = hw.version
      /\ env' \in EnvT /\ UNCHANGED <<env.unacked, env.foundLost, env.survived>>
      /\ \/ hw'.mcu = "off" /\ hw'.csg = "idle" /\ env' = env
         \/ hw' = hw /\ env'.faulted
  <2>1. CASE hw' = [hw EXCEPT !.mcu = "off", !.csg = "idle", !.raised = FALSE] /\ env' = env
    BY <2>1, Types DEF HwT
  <2>2. CASE Fault /\ hw' = hw
    BY <2>2, Types, FaultFacts
  <2>3. QED
    BY <2>1, <2>2 DEF FwStopMcu
<1>3. AdapterFits' /\ FirmwareFits'
  BY <1>1, <1>2 DEF LifeInv, AdapterFits, FirmwareFits, At, NoMmu, NoFw, Served
<1>4. "boot" \notin flags /\ "jobs" \notin flags /\ "worker" \notin flags
  BY <1>1 DEF LifeInv, FlagsFit, At, Served
<1>5. FlagsFit'
  BY <1>1, <1>2, <1>4 DEF LifeInv, FlagsFit, At, McuRuns, Served, Boots
<1>6. McuFits'
  BY <1>1, <1>2 DEF LifeInv, McuFits, Served, Boots, Finding
<1>7. SessionFits'
  BY <1>1, <1>2 DEF LifeInv, SessionFits, At
<1>8. QED
  BY <1>1, <1>2, <1>3, <1>5, <1>6, <1>7, Types, StepFacts
  DEF PcT, PteT, Starting, Stopping, Boots

LEMMA FwStopAsInv ==
  ASSUME LifeInv, FwStopAs
  PROVE  LifeInv'
<1>1. /\ pc = "stopAs0" /\ pc' = "stopMmu" /\ flags' = flags \ {"mcuBound", "alive"}
      /\ UNCHANGED <<session, env, inUse, vms>>
  BY DEF FwStopAs, At, Goto, vmVars
<1>2. /\ mem.ptr \cap Fw = Loaded /\ "fwCtx" \in mem.ptr /\ "mcuBound" \in flags
      /\ "boot" \notin flags /\ "jobs" \notin flags /\ "worker" \notin flags
  <2>1. mem.ptr \cap Fw = Loaded
    BY <1>1 DEF LifeInv, FirmwareFits
  <2>2. QED
    BY <1>1, <2>1 DEF LifeInv, FlagsFit, At, Served, McuRuns, Loaded
<1>3. mem.ptr \cap QueueBlocks = {}
  BY <1>2 DEF Loaded, Fw, FwBlocks, QueueBlocks
<1>4. Good(mem') /\ mem'.ptr = mem.ptr \ Fw
  BY <1>3, Types, CtxFreedFacts DEF FwStopAs
<1>5. /\ "fwCtx" \notin mem'.ptr /\ mem'.ptr \cap Fw = {}
      /\ AdapterBlocks \subseteq mem.ptr => AdapterBlocks \subseteq mem'.ptr
  BY <1>4 DEF Fw, FwBlocks, QueueBlocks, AdapterBlocks
<1>6. pte' \in PteT
  BY Types DEF FwStopAs, PteT
<1>7. /\ hw' \in HwT /\ ~hw'.l2 /\ hw'.stuck = hw.stuck /\ hw'.csg = hw.csg
      /\ McuAs \in hw.stuck => hw'.on = hw.on /\ hw'.mcu = hw.mcu
      /\ McuAs \notin hw.stuck =>
            hw'.on = hw.on \ {McuAs} /\ hw'.mcu = IF hw.mcu = "off" THEN "off" ELSE "lost"
  <2>1. hw' = L2Off(Disabled(hw, McuAs))
    BY <1>2 DEF FwStopAs
  <2>2. QED
    BY <2>1, DisabledFacts DEF L2Off, HwT
<1>8. AdapterFits' /\ FirmwareFits'
  BY <1>1, <1>2, <1>4, <1>5, <1>7, Types
  DEF LifeInv, AdapterFits, FirmwareFits, At, NoMmu, NoFw, Served
<1>9. FlagsFit'
  BY <1>1, <1>2, <1>5, <1>7 DEF LifeInv, FlagsFit, At, McuRuns, Served, Boots
<1>10. McuFits'
  BY <1>1, <1>2, <1>5, <1>7 DEF LifeInv, McuFits, Served, Boots, Finding
<1>11. SessionFits'
  BY <1>1, <1>7 DEF LifeInv, SessionFits, At
<1>12. QED
  BY <1>1, <1>4, <1>6, <1>7, <1>8, <1>9, <1>10, <1>11, Types, StepFacts
  DEF PcT, Starting, Stopping, Boots

LEMMA StopRestInv ==
  ASSUME LifeInv, StopRest
  PROVE  LifeInv'
<1>1. /\ pc = "stopMmu" /\ pc' = "added" /\ flags' = flags \ {"mmuBound"} /\ inUse' = {}
      /\ UNCHANGED <<session, env, vms>>
  BY DEF StopRest, At, Goto
<1>2. Good(mem') /\ mem'.ptr = mem.ptr \ AdapterBlocks
  BY Types, WithoutFacts DEF StopRest
<1>3. pte' \in PteT
  BY Types DEF StopRest, PteT
<1>4. /\ mem.ptr \cap Fw = {} /\ "fwCtx" \notin mem.ptr
      /\ "mcuBound" \notin flags /\ "boot" \notin flags /\ "jobs" \notin flags
      /\ "alive" \notin flags /\ "worker" \notin flags
  <2>1. mem.ptr \cap Fw = {}
    BY <1>1 DEF LifeInv, FirmwareFits, NoFw
  <2>2. QED
    BY <1>1, <2>1 DEF LifeInv, FlagsFit, At, Fw
<1>5. mem'.ptr = {}
  BY <1>2, <1>4, Types DEF Good, MemT, Blocks, Fw, FwBlocks, QueueBlocks, AdapterBlocks
<1>6. /\ hw' \in HwT /\ hw'.l2 = hw.l2 /\ hw'.stuck = hw.stuck /\ hw'.csg = hw.csg
      /\ hw'.mcu = hw.mcu
      /\ hw'.on \subseteq hw.on /\ (BringupAs \in hw'.on \ hw'.stuck => FALSE)
  BY DisabledFacts, Types DEF StopRest, LifeInv, AdapterFits
<1>7. AdapterFits' /\ FirmwareFits'
  BY <1>1, <1>5, <1>6 DEF AdapterFits, FirmwareFits, At, NoMmu, NoFw, Served, Boots
<1>8. FlagsFit'
  BY <1>1, <1>4, <1>5, <1>6 DEF LifeInv, FlagsFit, At, McuRuns, Served, Boots
<1>9. McuFits'
  BY <1>1, <1>4, <1>5, <1>6 DEF LifeInv, McuFits, Served, Boots, Finding
<1>10. SessionFits'
  BY <1>1, <1>4, <1>6 DEF LifeInv, SessionFits, At
<1>11. QED
  BY <1>1, <1>2, <1>3, <1>6, <1>7, <1>8, <1>9, <1>10, Types, StepFacts
  DEF PcT, Starting, Stopping, Boots

LEMMA RemoveDeviceInv ==
  ASSUME LifeInv, RemoveDevice
  PROVE  LifeInv'
<1>1. /\ pc = "added" /\ pc' = "absent" /\ flags' = {} /\ inUse' = {}
      /\ vms' = [v \in Vms |-> NoVm] /\ UNCHANGED <<session, mem, hw, pte>>
  BY DEF RemoveDevice, At, Goto
<1>2. env' \in EnvT /\ UNCHANGED <<env.faulted, env.unacked, env.foundLost>>
  BY Types DEF RemoveDevice, EnvT
<1>3. /\ mem.ptr \cap Fw = {} /\ "fwCtx" \notin mem.ptr
      /\ "mcuBound" \notin flags /\ "mmuBound" \notin flags
  <2>1. mem.ptr \cap Fw = {}
    BY <1>1 DEF LifeInv, FirmwareFits, NoFw
  <2>2. QED
    BY <1>1, <2>1 DEF LifeInv, FlagsFit, AdapterFits, At, Fw, NoMmu
<1>4. AdapterFits' /\ FirmwareFits'
  BY <1>1, <1>3 DEF LifeInv, AdapterFits, FirmwareFits, At, NoMmu, NoFw, Served, Boots
<1>5. FlagsFit'
  BY <1>1, <1>3 DEF LifeInv, FlagsFit, At, McuRuns, Served, Boots
<1>6. McuFits'
  BY <1>1, <1>2, <1>3 DEF LifeInv, McuFits, Served, Boots, Finding
<1>7. SessionFits'
  BY <1>1, <1>2 DEF LifeInv, SessionFits, At
<1>8. VmsFit'
  BY <1>1 DEF VmsFit, At, Starting, Boots
<1>9. TypeOK' /\ Counted'
  <2>1. vms' \in [Vms -> [slot: VmSlots \cup {0}, made: 0..MaxSessions, ring: 0..MaxSessions]]
    BY <1>1, Types DEF NoVm
  <2>2. QED
    BY <1>1, <1>2, <2>1 DEF LifeInv, TypeOK, Counted, EnvT
<1>10. QED
  BY <1>4, <1>5, <1>6, <1>7, <1>8, <1>9 DEF LifeInv

-----------------------------------------------------------------------------
(* The VMs of escapes, and the hardware. *)

(* The first of the free slots is one of them.                              *)
LEMMA FirstFree ==
  ASSUME NEW S, S \subseteq Nat, S # {}
  PROVE  Min(S) \in S
<1> DEFINE R == OpToRel(<, Nat)
<1>1. IsWellFoundedOn(R, Nat)
  BY NatLessThanWellFounded
<1>2. \A x, y \in Nat : x < y => <<x, y>> \in R
  BY DEF OpToRel
<1> HIDE DEF R
<1>3. PICK x \in S : \A y \in S : ~(<<y, x>> \in R)
  BY <1>1, WFMin, Zenon
<1>4. \A y \in S : x <= y
  <2> TAKE y \in S
  <2>1. x \in Nat /\ y \in Nat
    OBVIOUS
  <2>2. ~(y < x)
    BY <2>1, <1>2, <1>3, Zenon
  <2>3. QED
    BY <2>1, <2>2
<1>5. QED
  BY <1>4, Zenon DEF Min

(* What only VMs change leaves the adapter as it is.                        *)
LEMMA VmStep ==
  ASSUME LifeInv, UNCHANGED <<pc, session, mem, flags, hw, pte, env>>, pc = "up",
         inUse' \subseteq VmSlots,
         vms' \in [Vms -> [slot: VmSlots \cup {0}, made: 0..MaxSessions, ring: 0..MaxSessions]],
         VmsFit'
  PROVE  LifeInv'
<1>1. TypeOK' /\ Counted'
  BY DEF LifeInv, TypeOK, Counted
<1>2. AdapterFits' /\ FirmwareFits'
  BY DEF LifeInv, AdapterFits, FirmwareFits, At
<1>3. FlagsFit' /\ McuFits' /\ SessionFits'
  BY DEF LifeInv, FlagsFit, McuFits, SessionFits, At
<1>4. QED
  BY <1>1, <1>2, <1>3 DEF LifeInv

LEMMA VmCreateInv ==
  ASSUME LifeInv, NEW v \in Vms, VmCreate(v)
  PROVE  LifeInv'
<1>1. PICK slot \in VmSlots \ inUse, ring \in {0, session} :
        /\ pc = "up" /\ vms[v] = NoVm /\ inUse' = inUse \cup {slot}
        /\ vms' = [vms EXCEPT ![v] = [slot |-> slot, made |-> session, ring |-> ring]]
        /\ ring # 0 => "boot" \in flags
        /\ UNCHANGED <<pc, session, mem, flags, hw, pte, env>>
  <2>1. Min(VmSlots \ inUse) \in VmSlots \ inUse
    BY Types, FirstFree DEF VmCreate
  <2>2. (IF "boot" \in flags THEN session ELSE 0) \in {0, session}
    OBVIOUS
  <2>3. (IF "boot" \in flags THEN session ELSE 0) # 0 => "boot" \in flags
    OBVIOUS
  <2>4. QED
    BY <2>1, <2>2, <2>3 DEF VmCreate, At
<1>2. vms \in [Vms -> [slot: VmSlots \cup {0}, made: 0..MaxSessions, ring: 0..MaxSessions]]
      /\ inUse \subseteq VmSlots /\ slot # 0 /\ ring \in 0..MaxSessions
  BY Types DEF LifeInv, TypeOK
<1>3. /\ vms'[v] = [slot |-> slot, made |-> session, ring |-> ring]
      /\ \A w \in Vms \ {v} : vms'[w] = vms[w]
      /\ vms' \in [Vms -> [slot: VmSlots \cup {0}, made: 0..MaxSessions, ring: 0..MaxSessions]]
  BY <1>1, <1>2, Types
<1>4. VmsFit'
  <2>1. \A w \in Vms : vms'[w].slot = 0 => vms'[w] = NoVm
    BY <1>2, <1>3 DEF LifeInv, VmsFit
  <2>2. ASSUME ~env.survived
        PROVE  /\ \A w \in Vms : vms'[w] # NoVm =>
                     /\ vms'[w].slot \in inUse'
                     /\ vms'[w].ring # 0 => vms'[w].ring = session' /\ "boot" \in flags'
               /\ \A u, w \in Vms : u # w /\ vms'[u].slot = vms'[w].slot => vms'[u] = NoVm
    <3>1. /\ \A w \in Vms : vms[w] # NoVm =>
                /\ vms[w].slot \in inUse
                /\ vms[w].ring # 0 => vms[w].ring = session /\ "boot" \in flags
          /\ \A u, w \in Vms : u # w /\ vms[u].slot = vms[w].slot => vms[u] = NoVm
      BY <1>1, <2>2 DEF LifeInv, VmsFit, At
    <3>2. \A w \in Vms \ {v} : vms'[w].slot # slot
      BY <1>1, <1>2, <1>3, <3>1 DEF NoVm
    <3>3. \A w \in Vms : vms'[w] # NoVm =>
             /\ vms'[w].slot \in inUse'
             /\ vms'[w].ring # 0 => vms'[w].ring = session' /\ "boot" \in flags'
      BY <1>1, <1>3, <3>1
    <3>4. \A u, w \in Vms : u # w /\ vms'[u].slot = vms'[w].slot => vms'[u] = NoVm
      BY <1>3, <3>1, <3>2
    <3>5. QED
      BY <3>3, <3>4
  <2>3. QED
    BY <1>1, <2>1, <2>2 DEF VmsFit, At, Starting, Boots
<1>5. QED
  BY <1>1, <1>2, <1>3, <1>4, VmStep

LEMMA VmDestroyInv ==
  ASSUME LifeInv, NEW v \in Vms, VmDestroy(v)
  PROVE  LifeInv'
<1>1. /\ pc = "up" /\ vms[v] # NoVm /\ inUse' = inUse \ {vms[v].slot}
      /\ vms' = [vms EXCEPT ![v] = NoVm]
      /\ UNCHANGED <<pc, session, mem, flags, hw, pte, env>>
  BY DEF VmDestroy, At
<1>2. vms \in [Vms -> [slot: VmSlots \cup {0}, made: 0..MaxSessions, ring: 0..MaxSessions]]
      /\ inUse \subseteq VmSlots
  BY Types DEF LifeInv, TypeOK
<1>3. /\ vms'[v] = NoVm /\ \A w \in Vms \ {v} : vms'[w] = vms[w]
      /\ vms' \in [Vms -> [slot: VmSlots \cup {0}, made: 0..MaxSessions, ring: 0..MaxSessions]]
  BY <1>1, <1>2, Types DEF NoVm
<1>4. VmsFit'
  <2>1. \A w \in Vms : vms'[w].slot = 0 => vms'[w] = NoVm
    BY <1>3 DEF LifeInv, VmsFit
  <2>2. ASSUME ~env.survived
        PROVE  /\ \A w \in Vms : vms'[w] # NoVm =>
                     /\ vms'[w].slot \in inUse'
                     /\ vms'[w].ring # 0 => vms'[w].ring = session' /\ "boot" \in flags'
               /\ \A u, w \in Vms : u # w /\ vms'[u].slot = vms'[w].slot => vms'[u] = NoVm
    <3>1. /\ \A w \in Vms : vms[w] # NoVm =>
                /\ vms[w].slot \in inUse
                /\ vms[w].ring # 0 => vms[w].ring = session /\ "boot" \in flags
          /\ \A u, w \in Vms : u # w /\ vms[u].slot = vms[w].slot => vms[u] = NoVm
          /\ \A w \in Vms : vms[w].slot = 0 => vms[w] = NoVm
      BY <1>1, <2>2 DEF LifeInv, VmsFit, At
    <3>2. \A w \in Vms \ {v} : vms[w] # NoVm => vms[w].slot # vms[v].slot
      BY <3>1
    <3>3. QED
      BY <1>1, <1>3, <3>1, <3>2 DEF NoVm
  <2>3. QED
    BY <1>1, <2>1, <2>2 DEF VmsFit, At, Starting, Boots
<1>5. QED
  BY <1>1, <1>2, <1>3, <1>4, VmStep

LEMMA StickInv ==
  ASSUME LifeInv, NEW as \in {McuAs, BringupAs}, Stick(as)
  PROVE  LifeInv'
<1>1. UNCHANGED <<pc, session, mem, flags, pte, env, inUse, vms>>
  BY DEF Stick, vmVars
<1>2. /\ hw' \in HwT /\ hw'.stuck = hw.stuck \cup {as} /\ hw'.on = hw.on /\ hw'.mcu = hw.mcu
      /\ hw'.csg = hw.csg /\ hw'.l2 = hw.l2 /\ hw'.version = hw.version
  BY Types DEF Stick, HwT
<1>3. AdapterFits' /\ FirmwareFits'
  <2>1. AdapterFits'
    BY <1>1, <1>2 DEF LifeInv, AdapterFits, At
  <2>2. FirmwareFits'
    BY <1>1 DEF LifeInv, FirmwareFits, At
  <2>3. QED
    BY <2>1, <2>2
<1>4. FlagsFit' /\ McuFits' /\ SessionFits'
  <2>1. FlagsFit'
    BY <1>1, <1>2 DEF LifeInv, FlagsFit, At
  <2>2. McuFits'
    BY <1>1, <1>2 DEF LifeInv, McuFits, At
  <2>3. SessionFits'
    BY <1>1, <1>2 DEF LifeInv, SessionFits, At
  <2>4. QED
    BY <2>1, <2>2, <2>3
<1>5. pc \in PcT
  BY DEF LifeInv, TypeOK, PcT
<1>6. QED
  BY <1>1, <1>2, <1>3, <1>4, <1>5, Types, StepFacts DEF PteT, Starting, Boots, PcT, Stopping

-----------------------------------------------------------------------------
(* The invariant, and what follows from it. *)

LEMMA InitInv ==
  ASSUME Init
  PROVE  LifeInv
<1>1. /\ pc = "absent" /\ mem.ptr = {} /\ \A b \in Blocks : mem.held[b] = 0
      /\ flags = {} /\ hw.mcu = "off" /\ hw.csg = "idle" /\ hw.on = {} /\ ~hw.l2
      /\ \A v \in Vms : vms[v] = NoVm
  BY DEF Init, NoMemory
<1>2. TypeOK
  BY LifeAssumption DEF Init, TypeOK, NoMemory, NoVm, Calm
<1>3. Counted /\ AdapterFits /\ FirmwareFits
  BY <1>1 DEF Counted, AdapterFits, FirmwareFits, At, Served, Boots
<1>4. FlagsFit /\ McuFits /\ SessionFits /\ VmsFit
  BY <1>1 DEF FlagsFit, McuFits, SessionFits, VmsFit, At, Served, Boots, McuRuns, Starting
<1>5. QED
  BY <1>2, <1>3, <1>4 DEF LifeInv

LEMMA StepInv ==
  ASSUME LifeInv, [Next]_vars
  PROVE  LifeInv'
<1>1. CASE \/ AddDevice \/ StartDevice \/ ParseResources \/ BringupHardware
           \/ MmuInitScratch \/ MmuInitDma \/ MmuInitAperture \/ MmuInitEnable
           \/ VidmmAllocateSegment
  BY <1>1, AddDeviceInv, StartDeviceInv, ParseResourcesInv, BringupHardwareInv,
     MmuInitScratchInv, MmuInitDmaInv, MmuInitApertureInv, MmuInitEnableInv,
     VidmmAllocateSegmentInv
<1>2. CASE \/ FwInit \/ FwReadFileImage \/ FwParseImage \/ FwBuildTables \/ FwStartMcu
           \/ FwBootPoll \/ FwInitIfaces \/ McuBoots \/ InterruptRoutine
  BY <1>2, FwInitInv, FwReadFileImageInv, FwParseImageInv, FwBuildTablesInv, FwStartMcuInv,
     FwBootPollInv, FwInitIfacesInv, McuBootsInv, InterruptRoutineInv
<1>3. CASE \E i \in 1..Len(BootSteps) : CsfBootstrap(i)
  BY <1>3, CsfBootstrapInv
<1>4. CASE CsfStartCsg \/ FwPublish \/ FwSelfTest \/ SchedInit
  BY <1>4, CsfStartCsgInv, FwPublishInv, FwSelfTestInv, SchedInitInv
<1>5. CASE \/ StopDevice \/ FwTeardown \/ FwStopMcu \/ FwStopAs \/ StopRest \/ RemoveDevice
  BY <1>5, StopDeviceInv, FwTeardownInv, FwStopMcuInv, FwStopAsInv, StopRestInv,
     RemoveDeviceInv
<1>6. CASE \E as \in {McuAs, BringupAs} : Stick(as)
  BY <1>6, StickInv
<1>7. CASE \E v \in Vms : VmCreate(v) \/ VmDestroy(v)
  BY <1>7, VmCreateInv, VmDestroyInv
<1>8. CASE UNCHANGED vars
  <2>1. UNCHANGED <<pc, session, mem, flags, hw, pte, env, inUse, vms>>
    BY <1>8 DEF vars
  <2>2. TypeOK' /\ Counted' /\ VmsFit'
    BY <2>1 DEF LifeInv, TypeOK, Counted, VmsFit, At
  <2>3. AdapterFits' /\ FirmwareFits'
    BY <2>1 DEF LifeInv, AdapterFits, FirmwareFits, At
  <2>4. FlagsFit' /\ McuFits'
    BY <2>1 DEF LifeInv, FlagsFit, McuFits, At
  <2>5. SessionFits'
    BY <2>1 DEF LifeInv, SessionFits, At
  <2>6. QED
    BY <2>2, <2>3, <2>4, <2>5 DEF LifeInv
<1>9. QED
  BY <1>1, <1>2, <1>3, <1>4, <1>5, <1>6, <1>7, <1>8 DEF Next

(* The lifecycle holds at every step what its program counter says it does. *)
THEOREM LifeInvHolds == Spec => []LifeInv
<1>1. Init => LifeInv
  BY InitInv
<1>2. LifeInv /\ [Next]_vars => LifeInv'
  BY StepInv
<1>3. QED
  BY <1>1, <1>2, PTL DEF Spec

(* Whatever step of StartDevice fails, every block is pointed to or freed,  *)
(* once; a stopped device holds none, translates nothing, and has the L2    *)
(* and the MCU off unless something failed (the failure paths of MmuInit    *)
(* and FwInit, CsfTeardown_, and the MmuTeardown that begins MmuInit).      *)
THEOREM LeavesNothingHolds == Spec => []LeavesNothing
<1>1. LifeInv => LeavesNothing
  <2> SUFFICES ASSUME LifeInv PROVE LeavesNothing
    OBVIOUS
  <2>1. NothingLeaked
    BY DEF LifeInv, Counted, AdapterFits, NothingLeaked
  <2>2. StoppedIsOff
    <3> SUFFICES ASSUME pc = "added", hw.stuck = {}
                 PROVE  /\ hw.on = {}
                        /\ hw.l2 => env.faulted
                        /\ hw.mcu = "off" \/ env.faulted \/ env.foundLost
      BY DEF StoppedIsOff, At
    <3>1. mem.ptr = {}
      BY DEF LifeInv, AdapterFits
    <3>2. "mmuBound" \notin flags /\ "mcuBound" \notin flags
      BY <3>1 DEF LifeInv, AdapterFits, FlagsFit, NoMmu
    <3>3. hw.on = {}
      BY <3>2, Types DEF LifeInv, AdapterFits, FlagsFit, HwT
    <3>4. QED
      BY <3>1, <3>3 DEF LifeInv, SessionFits
  <2>3. QED
    BY <2>1, <2>2 DEF LeavesNothing, LifeInv
<1>2. QED
  BY <1>1, LifeInvHolds, PTL

(* While calls can come, CSF_JOBS promises all that SubmitStreamCall_       *)
(* touches: the queue's memory, mapped where the firmware looks for it,     *)
(* the tables behind both ASes, and a started slot on a running MCU.        *)
THEOREM JobsReadyHolds == Spec => []JobsReady
<1>1. LifeInv => JobsReady
  <2> SUFFICES ASSUME LifeInv, pc \in {"up", "selftest"}, "jobs" \in flags
               PROVE  /\ Blocks \subseteq mem.ptr
                      /\ hw.mcu = "up" /\ hw.csg = "started" /\ hw.l2
                      /\ hw.on = {McuAs, BringupAs}
                      /\ \A i \in 1..Len(BootSteps) : BootSteps[i][1] \in pte[BootSteps[i][2]]
    BY DEF JobsReady, At
  <2>1. /\ "boot" \in flags /\ "fwCtx" \in mem.ptr /\ "mmuBound" \in flags
        /\ hw.csg = "started" /\ hw.l2 /\ pc \in Served
    BY DEF LifeInv, FlagsFit, Served
  <2>2. "mcuBound" \in flags /\ hw.mcu = "up"
    BY <2>1 DEF LifeInv, FlagsFit, McuFits, McuRuns
  <2>3. Fw \subseteq mem.ptr /\ AdapterBlocks \subseteq mem.ptr
    BY <2>1 DEF LifeInv, FirmwareFits, AdapterFits
  <2>4. Blocks \subseteq mem.ptr
    BY <2>3 DEF Blocks, Fw
  <2>5. hw.on = {McuAs, BringupAs}
    BY <2>1, <2>2, Types DEF LifeInv, FlagsFit, AdapterFits, HwT
  <2>6. /\ {"ring", "sync", "shader"} \subseteq pte[BringupAs]
        /\ {"qif", "suspend", "protm"} \subseteq pte[McuAs]
    <3>1. QueueBlocks \subseteq mem.ptr
      BY <2>4 DEF Blocks, FwBlocks
    <3>2. QED
      BY <2>1, <3>1 DEF LifeInv, FlagsFit, QueueBlocks
  <2>7. ASSUME NEW i \in 1..Len(BootSteps)
        PROVE  BootSteps[i][1] \in pte[BootSteps[i][2]]
    BY <2>6, BootBlocks
  <2>8. QED
    BY <2>1, <2>2, <2>4, <2>5, <2>7
<1>2. QED
  BY <1>1, LifeInvHolds, PTL

(* Freed memory is within the firmware's reach only between the free and    *)
(* the MCU_CONTROL=DISABLE of FwTeardown, after a START that CsfBootstrap_  *)
(* gave up waiting for, or when the hardware does not obey.                 *)
THEOREM MemoryUnderGpuHolds == Spec => []MemoryUnderGpu
<1>1. LifeInv => MemoryUnderGpu
  <2> SUFFICES ASSUME LifeInv, pc # "stopMcu", ~env.unacked, hw.stuck = {},
                      ~(pc = "stopAs0" /\ env.faulted), NEW b \in Reach
               PROVE  b \in mem.ptr
    BY DEF MemoryUnderGpu, At
  <2>1. /\ hw.mcu \in {"booting", "up"} /\ "mcuBound" \in flags
        /\ pc \in McuRuns /\ "fwCtx" \in mem.ptr
    BY Types DEF Reach, HwT, LifeInv, McuFits, FlagsFit
  <2>2. /\ pc \in {"poll", "ifaces", "startCsg"} \cup Boots => hw.csg = "idle"
        /\ pc \in Served => hw.csg = "idle" \/ "boot" \in flags
    BY <2>1 DEF LifeInv, McuFits
  <2>3. {"sections", "ptPool"} \subseteq mem.ptr /\ pc # "stopAs0"
    <3>1. pc # "stopAs0"
      BY <2>1 DEF LifeInv, SessionFits, At
    <3>2. Loaded \subseteq mem.ptr
      BY <2>1, <3>1
      DEF LifeInv, FirmwareFits, At, McuRuns, Served, Boots, Loaded, Fw, FwBlocks
    <3>3. QED
      BY <3>1, <3>2 DEF Loaded
  <2>4. CASE hw.csg = "idle"
    BY <2>1, <2>3, <2>4 DEF Reach
  <2>5. CASE hw.csg # "idle"
    <3>1. "boot" \in flags /\ "mmuBound" \in flags
      BY <2>1, <2>2, <2>3, <2>5 DEF McuRuns, LifeInv, FlagsFit
    <3>2. Fw \subseteq mem.ptr /\ AdapterBlocks \subseteq mem.ptr
      BY <2>1, <3>1 DEF LifeInv, FirmwareFits, AdapterFits, FlagsFit
    <3>3. Blocks \subseteq mem.ptr
      BY <3>2 DEF Blocks, Fw
    <3>4. b \in Blocks
      <4>1. pte[McuAs] \subseteq QueueBlocks /\ pte[BringupAs] \subseteq QueueBlocks
        BY Types
      <4>2. b \in {"sections", "ptPool", "scratch"} \cup QueueBlocks
        BY <2>1, <4>1 DEF Reach
      <4>3. QED
        BY <4>2 DEF Blocks, AdapterBlocks, FwBlocks
    <3>5. QED
      BY <3>3, <3>4
  <2>6. QED
    BY <2>4, <2>5
<1>2. QED
  BY <1>1, LifeInvHolds, PTL

(* A start in which nothing fails ends with everything up, whatever failed  *)
(* in the sessions before it, unless it found an MCU that an earlier start  *)
(* had left without its address space.                                      *)
THEOREM CleanStartHolds == Spec => []CleanStart
<1>1. LifeInv => CleanStart
  BY DEF LifeInv, SessionFits, CleanStart
<1>2. QED
  BY <1>1, LifeInvHolds, PTL

(* Two VMs share an AS slot only when a VM outlived a restart, and only     *)
(* such a VM may translate the ring's addresses to another session's        *)
(* memory (InitAsAllocator forgets the slots; VmDestroy frees by number).   *)
THEOREM VmsApartHolds == Spec => []VmsApart
<1>1. LifeInv => VmsApart
  <2> SUFFICES ASSUME LifeInv, ~env.survived, At("up")
               PROVE  /\ \A v, w \in Vms : v # w /\ vms[v].slot = vms[w].slot => vms[v] = NoVm
                      /\ \A v \in Vms : vms[v].ring # 0 =>
                            vms[v].ring = session /\ "boot" \in flags
    BY DEF VmsApart
  <2>1. /\ \A v \in Vms : vms[v] # NoVm =>
              (vms[v].ring # 0 => vms[v].ring = session /\ "boot" \in flags)
        /\ \A v, w \in Vms : v # w /\ vms[v].slot = vms[w].slot => vms[v] = NoVm
    BY DEF LifeInv, VmsFit
  <2>2. QED
    BY <2>1 DEF NoVm
<1>2. QED
  BY <1>1, LifeInvHolds, PTL
=============================================================================
