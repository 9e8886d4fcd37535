----------------------------- MODULE DeviceLife -----------------------------
(***************************************************************************)
(* The life of the adapter: AddDevice, StartDevice, StopDevice and         *)
(* RemoveDevice (KMD/WinMaliDriver.c) with everything they bring up and    *)
(* take down: resources and registers (WinMaliBringup.c, hw/WinMaliHw.c),  *)
(* the bring-up AS and the memory behind it (WinMaliMmu.c), the memory     *)
(* segment (WinMaliVidmm.c), the firmware, its tables and the kernel queue *)
(* (WinMaliFw.c), and the VMs that escapes make while the device runs.     *)
(* dxgkrnl serialises these calls, so one program counter walks through    *)
(* them, one step per resource; beside it the MCU boots and the interrupt  *)
(* routine runs.  Every step that can fail may fail.                       *)
(*                                                                         *)
(* The hardware: an AS that is stuck obeys no command until the power goes *)
(* (see AsSlots).  An MCU whose address space was taken away while         *)
(* MCU_CONTROL is AUTO is lost: only MCU_CONTROL=DISABLE gets it back.     *)
(***************************************************************************)
EXTENDS Integers, FiniteSets, Sequences, FiniteSetsExt

CONSTANTS
    Vms,         \* identities of the VMs that escapes make
    VmSlots,     \* the slots of GPU_AS_PRESENT that are not the driver's own
    MaxSessions  \* bound: calls of StartDevice

ASSUME LifeAssumption == VmSlots \subseteq Nat \ {0, 1} /\ MaxSessions \in Nat

McuAs == 0                              \* WINMALI_MMU_MCU_AS
BringupAs == 1                          \* WINMALI_MMU_BRINGUP_AS

VARIABLES
    pc,       \* where the lifecycle call is
    session,  \* how many times the device was started
    mem,      \* blocks: how many are allocated, and which the driver points to
    flags,    \* GpuMmuAsBound, FwMcuAsBound, CSF_JOBS, MCU_ALIVE, CsfBootValid, the worker
    hw,       \* the MCU, CSG slot 0, the two ASes, L2, what the MCU published
    pte,      \* the blocks the tables of AS0 and AS1 translate to
    env,      \* what went wrong in this session, and the MCU it found
    inUse,    \* AsSlotInUseMask, for the slots of VMs
    vms       \* each VM: its slot, the session it was made in, the ring it maps

vars == <<pc, session, mem, flags, hw, pte, env, inUse, vms>>
vmVars == <<inUse, vms>>

AdapterBlocks == {"regs", "dma", "scratch", "aperL3"}
QueueBlocks   == {"ring", "qif", "sync", "suspend", "protm", "shader"}
FwBlocks      == {"image", "sections", "ptPool"} \cup QueueBlocks
Blocks        == AdapterBlocks \cup {"fwCtx"} \cup FwBlocks
Flags         == {"mmuBound", "mcuBound", "jobs", "alive", "boot", "worker"}

\* Bootstrap_ allocates and maps in this order: the block and the AS it is mapped in.
BootSteps == << <<"ring", BringupAs>>, <<"qif", McuAs>>, <<"sync", BringupAs>>,
                <<"suspend", McuAs>>, <<"protm", McuAs>>, <<"shader", BringupAs>> >>
Boots == {"boot1", "boot2", "boot3", "boot4", "boot5", "boot6"}
BootPc == <<"boot1", "boot2", "boot3", "boot4", "boot5", "boot6">>
Starting == {"parse", "bringup", "scratch", "dma", "aperture", "enable", "segment",
             "fw", "image", "sections", "ptPool", "mcu", "poll", "ifaces",
             "startCsg", "publish", "selftest", "sched"} \cup Boots
Stopping == {"stopFw", "stopMcu", "stopAs0", "stopMmu"}

NoVm == [slot |-> 0, made |-> 0, ring |-> 0]
NoMemory == [held |-> [b \in Blocks |-> 0], ptr |-> {}]
Calm == [faulted |-> FALSE, unacked |-> FALSE, foundLost |-> FALSE, survived |-> FALSE]

TypeOK ==
    /\ pc \in {"absent", "added", "up"} \cup Starting \cup Stopping
    /\ session \in 0..MaxSessions
    /\ mem \in [held: [Blocks -> Nat], ptr: SUBSET Blocks]
    /\ flags \subseteq Flags
    /\ hw \in [mcu: {"off", "booting", "up", "lost"}, csg: {"idle", "asked", "started"},
               on: SUBSET {McuAs, BringupAs}, stuck: SUBSET {McuAs, BringupAs},
               l2: BOOLEAN, version: BOOLEAN, raised: BOOLEAN]
    /\ pte \in [{McuAs, BringupAs} -> SUBSET QueueBlocks]
    /\ env \in [faulted: BOOLEAN, unacked: BOOLEAN, foundLost: BOOLEAN, survived: BOOLEAN]
    /\ inUse \subseteq VmSlots
    /\ vms \in [Vms -> [slot: VmSlots \cup {0}, made: 0..MaxSessions,
                        ring: 0..MaxSessions]]
    /\ "boot" \in flags => "fwCtx" \in mem.ptr

Init ==
    /\ pc = "absent" /\ session = 0
    /\ mem = NoMemory /\ flags = {}
    /\ hw = [mcu |-> "off", csg |-> "idle", on |-> {}, stuck |-> {},
             l2 |-> FALSE, version |-> FALSE, raised |-> FALSE]
    /\ pte = [a \in {McuAs, BringupAs} |-> {}]
    /\ env = Calm
    /\ inUse = {} /\ vms = [v \in Vms |-> NoVm]

-----------------------------------------------------------------------------
(* Memory and hardware. *)

With(m, b) == [held |-> [m.held EXCEPT ![b] = @ + 1], ptr |-> m.ptr \cup {b}]
Without(m, B) ==
    [held |-> [b \in Blocks |-> m.held[b] - (IF b \in B \cap m.ptr THEN 1 ELSE 0)],
     ptr |-> m.ptr \ B]

\* Freeing the firmware context forgets the pointers in it.
CtxFreed(m) == [Without(m, {"fwCtx"}) EXCEPT !.ptr = @ \ FwBlocks]

\* ReleaseResources_ frees what loading the image took.
ReleaseResources(m) == Without(m, {"sections", "ptPool", "image"})

Allocate(b) == mem' = With(mem, b)
Fault == env' = [env EXCEPT !.faulted = TRUE]
Goto(next) == pc' = next
At(step) == pc = step

L2On(h)  == [h EXCEPT !.l2 = TRUE]
L2Off(h) == [h EXCEPT !.l2 = FALSE]
InitAsAllocator == inUse' = {}
Enabled(h, as) == [h EXCEPT !.on = @ \cup {as}]
\* AsDisable: a stuck AS keeps translating.  An MCU without its AS is lost.
Disabled(h, as) ==
    IF as \in h.stuck THEN h
    ELSE [h EXCEPT !.on = @ \ {as},
                   !.mcu = IF as = McuAs /\ @ # "off" THEN "lost" ELSE @]

-----------------------------------------------------------------------------
(* AddDevice, and StartDevice up to the registers. *)

AddDevice ==
    /\ At("absent") /\ Goto("added")
    /\ UNCHANGED <<session, mem, flags, hw, pte, env, vmVars>>

StartDevice ==
    /\ At("added") /\ session < MaxSessions /\ Goto("parse")
    /\ session' = session + 1
    /\ env' = [Calm EXCEPT !.foundLost = hw.mcu # "off",
                           !.survived = env.survived \/ \E v \in Vms : vms[v] # NoVm]
    /\ UNCHANGED <<mem, flags, hw, pte, vmVars>>

\* No usable memory resource: StartDevice returns success, with nothing up.
ParseResources ==
    /\ At("parse")
    /\ \/ Goto("bringup") /\ UNCHANGED env
       \/ Goto("up") /\ Fault
    /\ UNCHANGED <<session, mem, flags, hw, pte, vmVars>>

BringupHardware ==
    /\ At("bringup")
    /\ \/ Goto("scratch") /\ (IF "regs" \in mem.ptr THEN UNCHANGED mem ELSE Allocate("regs"))
          /\ UNCHANGED env
          /\ InitAsAllocator
       \/ "regs" \notin mem.ptr /\ Goto("up") /\ Fault /\ UNCHANGED <<mem, inUse>>
    /\ UNCHANGED <<session, flags, hw, pte, vms>>

-----------------------------------------------------------------------------
(* WinMaliMmuInit and the memory segment. *)

\* MmuTeardown frees what points to something; the slots VMs have bound are released.
MmuTeardown ==
    /\ hw' = IF "mmuBound" \in flags THEN Disabled(hw, BringupAs) ELSE hw
    /\ flags' = flags \ {"mmuBound"}
    /\ mem' = Without(mem, {"aperL3", "scratch", "dma"})
    /\ pte' = [pte EXCEPT ![BringupAs] = {}]
    /\ inUse' = {}

MmuInitScratch ==
    /\ At("scratch")
    /\ \/ /\ hw' = IF "mmuBound" \in flags THEN Disabled(hw, BringupAs) ELSE hw
          /\ flags' = flags \ {"mmuBound"}
          /\ mem' = With(Without(mem, {"aperL3", "scratch", "dma"}), "scratch")
          /\ pte' = [pte EXCEPT ![BringupAs] = {}]
          /\ inUse' = {}
          /\ Goto("dma") /\ UNCHANGED env
       \/ MmuTeardown /\ Goto("segment") /\ Fault
    /\ UNCHANGED <<session, vms>>

\* Halved from 128 MiB down to 16 MiB before it gives up.
MmuInitDma ==
    /\ At("dma")
    /\ \/ Allocate("dma") /\ Goto("aperture") /\ UNCHANGED env
       \/ mem' = Without(mem, {"scratch"}) /\ Goto("segment") /\ Fault
    /\ UNCHANGED <<session, flags, hw, pte, vmVars>>

MmuInitAperture ==
    /\ At("aperture")
    /\ \/ Allocate("aperL3") /\ Goto("enable") /\ UNCHANGED env
       \/ mem' = Without(mem, {"dma", "scratch"}) /\ Goto("segment") /\ Fault
    /\ UNCHANGED <<session, flags, hw, pte, vmVars>>

MmuInitEnable ==
    /\ At("enable") /\ Goto("segment")
    /\ IF BringupAs \in hw.stuck
       THEN MmuTeardown /\ Fault
       ELSE /\ hw' = Enabled(hw, BringupAs)
            /\ flags' = flags \cup {"mmuBound"}
            /\ UNCHANGED <<mem, pte, env, inUse>>
    /\ UNCHANGED <<session, vms>>

\* ConnectInterrupt, then the segment, when MmuInit has not left one.
VidmmAllocateSegment ==
    /\ At("segment") /\ Goto("fw")
    /\ \/ "dma" \in mem.ptr /\ UNCHANGED <<mem, env>>
       \/ "dma" \notin mem.ptr /\ Allocate("dma") /\ UNCHANGED env
       \/ "dma" \notin mem.ptr /\ Fault /\ UNCHANGED mem
    /\ UNCHANGED <<session, flags, hw, pte, vmVars>>

-----------------------------------------------------------------------------
(* WinMaliFwInit: loading the firmware and booting the MCU. *)

\* Mutant: the context is freed and what it points to is not.
FwAbandon_Leaks(m, h) ==
    /\ mem' = CtxFreed(m)
    /\ hw' = L2Off(h)
    /\ Goto("sched")

\* Every failure releases what was taken and ends FwInit; StartDevice goes on.
FwAbandon(m, h) ==
    /\ mem' = CtxFreed(ReleaseResources(m))
    /\ hw' = L2Off(h)
    /\ Goto("sched")

\* An L2 that is slow to power on is not powered off again.
FwInit ==
    /\ At("fw")
    /\ IF "fwCtx" \in mem.ptr THEN Goto("sched") /\ UNCHANGED <<mem, hw, env>>
       ELSE \/ /\ Allocate("fwCtx") /\ hw' = L2On(hw)
               /\ Goto("image") /\ UNCHANGED env
            \/ /\ hw' \in {hw, L2On(hw)}
               /\ Goto("sched") /\ Fault /\ UNCHANGED mem
    /\ UNCHANGED <<session, flags, pte, vmVars>>

FwReadFileImage ==
    /\ At("image")
    /\ \/ Allocate("image") /\ Goto("sections") /\ UNCHANGED <<hw, env>>
       \/ FwAbandon(mem, hw) /\ Fault
    /\ UNCHANGED <<session, flags, pte, vmVars>>

\* A parse may fail with some sections already loaded.
FwParseImage ==
    /\ At("sections")
    /\ \/ Allocate("sections") /\ Goto("ptPool") /\ UNCHANGED <<hw, env>>
       \/ \E m \in {mem, With(mem, "sections")} : FwAbandon(m, hw) /\ Fault
    /\ UNCHANGED <<session, flags, pte, vmVars>>

FwBuildTables ==
    /\ At("ptPool")
    /\ \/ /\ Allocate("ptPool") /\ Goto("mcu")
          /\ hw' = [hw EXCEPT !.version = FALSE]
          /\ pte' = [pte EXCEPT ![McuAs] = {}]
          /\ UNCHANGED env
       \/ \E m \in {mem, With(mem, "ptPool")} : FwAbandon(m, hw) /\ Fault /\ UNCHANGED pte
    /\ UNCHANGED <<session, flags, vmVars>>

\* AS0, the stale interrupts cleared, and MCU_CONTROL=AUTO without a DISABLE first.
FwStartMcu ==
    /\ At("mcu")
    /\ IF McuAs \in hw.stuck
       THEN FwAbandon(mem, hw) /\ Fault /\ UNCHANGED flags
       ELSE /\ hw' = [Enabled(hw, McuAs) EXCEPT
                        !.mcu = IF @ = "off" THEN "booting" ELSE @,
                        !.raised = FALSE]
            /\ flags' = flags \cup {"mcuBound"}
            /\ Goto("poll") /\ UNCHANGED <<mem, env>>
    /\ UNCHANGED <<session, pte, vmVars>>

\* The firmware writes its version, then raises GLOBAL_IF.
McuBoots ==
    /\ hw.mcu = "booting" /\ hw.l2 /\ McuAs \in hw.on
    /\ hw' = [hw EXCEPT !.mcu = "up", !.version = TRUE, !.raised = TRUE]
    /\ UNCHANGED <<pc, session, mem, flags, pte, env, vmVars>>

\* It clears whatever is raised, also what a poll is waiting for.
InterruptRoutine ==
    /\ hw.raised /\ "regs" \in mem.ptr
    /\ hw' = [hw EXCEPT !.raised = FALSE]
    /\ UNCHANGED <<pc, session, mem, flags, pte, env, vmVars>>

\* Mutant: the interrupt alone, as the poll first was.
Booted_RawstatOnly == hw.raised

Booted == hw.raised \/ hw.version

BootFailed ==
    /\ FwAbandon(mem, Disabled(hw, McuAs))
    /\ flags' = flags \ {"mcuBound"}

\* A second of polling: it times out only when there was nothing to see.
FwBootPoll ==
    /\ At("poll")
    /\ IF Booted
       THEN /\ hw' = [hw EXCEPT !.raised = FALSE]
            /\ Goto("ifaces") /\ UNCHANGED <<mem, flags, env>>
       ELSE BootFailed /\ env' = [env EXCEPT !.faulted = @ \/ hw.mcu # "up"]
    /\ UNCHANGED <<session, pte, vmVars>>

\* PollSharedFwVersion, SetupGlbIface, InitCsfIfaces, InitGlobalIface.
FwInitIfaces ==
    /\ At("ifaces")
    /\ \/ /\ hw.version
          /\ Goto(IF "mmuBound" \in flags THEN BootPc[1] ELSE "publish")
          /\ UNCHANGED <<mem, flags, hw, env>>
       \/ BootFailed /\ Fault
    /\ UNCHANGED <<session, pte, vmVars>>

-----------------------------------------------------------------------------
(* The kernel queue: Bootstrap_ and its way back. *)

\* Mutant: CSF_JOBS survives the session.
CsfTeardown_JobsStay(m) ==
    /\ mem' = Without(m, QueueBlocks)
    /\ pte' = [pte EXCEPT ![BringupAs] = {}]
    /\ flags' = flags \ {"boot"}

\* The tables of AS0 have no unmap: what was mapped there stays.
CsfTeardown(m) ==
    /\ mem' = Without(m, QueueBlocks)
    /\ pte' = [pte EXCEPT ![BringupAs] = {}]
    /\ flags' = flags \ {"boot", "jobs"}

CsfBootstrap(i) ==
    LET block == BootSteps[i][1]
        as    == BootSteps[i][2]
        \* only the pool of AS0's tables can run out
        Failed == {mem} \cup (IF as = McuAs THEN {With(mem, block)} ELSE {})
    IN /\ At(BootPc[i])
       /\ \/ /\ Allocate(block)
             /\ pte' = [pte EXCEPT ![as] = @ \cup {block}]
             /\ Goto(IF i < Len(BootSteps) THEN BootPc[i + 1] ELSE "startCsg")
             /\ UNCHANGED <<flags, env>>
          \/ \E m \in Failed : CsfTeardown(m) /\ Goto("publish") /\ Fault
       /\ UNCHANGED <<session, hw, vmVars>>

\* A START that is not acknowledged in time may still be carried out.
CsfStartCsg ==
    /\ At("startCsg") /\ Goto("publish")
    /\ \/ /\ hw' = [hw EXCEPT !.csg = "started"]
          /\ flags' = flags \cup {"boot", "jobs"}
          /\ UNCHANGED <<mem, pte, env>>
       \/ /\ hw' = [hw EXCEPT !.csg = "asked"]
          /\ CsfTeardown(mem)
          /\ env' = [env EXCEPT !.faulted = TRUE, !.unacked = TRUE]
    /\ UNCHANGED <<session, vmVars>>

FwPublish ==
    /\ At("publish") /\ Goto("selftest")
    /\ flags' = flags \cup {"alive"}
    /\ UNCHANGED <<session, mem, hw, pte, env, vmVars>>

\* The NOP job; when it fails the queue stays but takes no jobs.
FwSelfTest ==
    /\ At("selftest") /\ Goto("sched")
    /\ \/ UNCHANGED <<flags, env>>
       \/ "jobs" \in flags /\ flags' = flags \ {"jobs"} /\ Fault
    /\ UNCHANGED <<session, mem, hw, pte, vmVars>>

SchedInit ==
    /\ At("sched") /\ Goto("up")
    /\ \/ flags' = flags \cup {"worker"} /\ UNCHANGED env
       \/ Fault /\ UNCHANGED flags
    /\ UNCHANGED <<session, mem, hw, pte, vmVars>>

-----------------------------------------------------------------------------
(* StopDevice and RemoveDevice. *)

\* SchedTeardown waits for the worker.
StopDevice ==
    /\ At("up") /\ Goto("stopFw")
    /\ flags' = flags \ {"worker"}
    /\ UNCHANGED <<session, mem, hw, pte, env, vmVars>>

\* The queue's memory is freed while the firmware still runs.
FwTeardown ==
    /\ At("stopFw")
    /\ IF "fwCtx" \in mem.ptr
       THEN CsfTeardown(mem) /\ Goto("stopMcu")
       ELSE Goto("stopMmu") /\ UNCHANGED <<mem, pte, flags>>
    /\ UNCHANGED <<session, hw, env, vmVars>>

\* Mutant: the firmware is left running.
FwStopMcu_Skipped ==
    /\ At("stopMcu") /\ Goto("stopAs0")
    /\ UNCHANGED <<session, mem, flags, hw, pte, env, vmVars>>

FwStopMcu ==
    /\ At("stopMcu") /\ Goto("stopAs0")
    /\ \/ hw' = [hw EXCEPT !.mcu = "off", !.csg = "idle", !.raised = FALSE] /\ UNCHANGED env
       \/ Fault /\ UNCHANGED hw
    /\ UNCHANGED <<session, mem, flags, pte, vmVars>>

FwStopAs ==
    /\ At("stopAs0") /\ Goto("stopMmu")
    /\ hw' = L2Off(IF "mcuBound" \in flags THEN Disabled(hw, McuAs) ELSE hw)
    /\ flags' = flags \ {"mcuBound", "alive"}
    /\ mem' = CtxFreed(ReleaseResources(mem))
    /\ pte' = [pte EXCEPT ![McuAs] = {}]
    /\ UNCHANGED <<session, env, vmVars>>

\* DisconnectInterrupt, MmuTeardown, VidmmFreeSegment, TeardownHardware.
StopRest ==
    /\ At("stopMmu") /\ Goto("added")
    /\ hw' = IF "mmuBound" \in flags THEN Disabled(hw, BringupAs) ELSE hw
    /\ flags' = flags \ {"mmuBound"}
    /\ mem' = Without(mem, AdapterBlocks)
    /\ pte' = [pte EXCEPT ![BringupAs] = {}]
    /\ inUse' = {}
    /\ UNCHANGED <<session, env, vms>>

\* The tables are torn down with the adapter, and so are its flags.
RemoveDevice ==
    /\ At("added") /\ Goto("absent")
    /\ vms' = [v \in Vms |-> NoVm]
    /\ inUse' = {} /\ flags' = {}
    /\ env' = [env EXCEPT !.survived = FALSE]
    /\ UNCHANGED <<session, mem, hw, pte>>

-----------------------------------------------------------------------------
(* The VMs of escapes, and the hardware. *)

\* Mutant: the slot is taken without being marked.
VmCreate_NotMarked(v) ==
    /\ At("up") /\ vms[v] = NoVm
    /\ "regs" \in mem.ptr /\ VmSlots \ inUse # {}
    /\ vms' = [vms EXCEPT ![v] =
          [slot |-> Min(VmSlots \ inUse), made |-> session,
           ring |-> IF "boot" \in flags THEN session ELSE 0]]
    /\ UNCHANGED <<pc, session, mem, flags, hw, pte, env, inUse>>

\* VmInit takes the first free slot; CsfMapIntoVm maps the ring there is.
VmCreate(v) ==
    /\ At("up") /\ vms[v] = NoVm
    /\ "regs" \in mem.ptr /\ VmSlots \ inUse # {}
    /\ LET slot == Min(VmSlots \ inUse)
       IN /\ inUse' = inUse \cup {slot}
          /\ vms' = [vms EXCEPT ![v] =
                [slot |-> slot, made |-> session,
                 ring |-> IF "boot" \in flags THEN session ELSE 0]]
    /\ UNCHANGED <<pc, session, mem, flags, hw, pte, env>>

VmDestroy(v) ==
    /\ At("up") /\ vms[v] # NoVm
    /\ inUse' = inUse \ {vms[v].slot}
    /\ vms' = [vms EXCEPT ![v] = NoVm]
    /\ UNCHANGED <<pc, session, mem, flags, hw, pte, env>>

Stick(as) ==
    /\ as \in hw.on \ hw.stuck
    /\ hw' = [hw EXCEPT !.stuck = @ \cup {as}]
    /\ UNCHANGED <<pc, session, mem, flags, pte, env, vmVars>>

Next ==
    \/ AddDevice \/ StartDevice \/ ParseResources \/ BringupHardware
    \/ MmuInitScratch \/ MmuInitDma \/ MmuInitAperture \/ MmuInitEnable
    \/ VidmmAllocateSegment
    \/ FwInit \/ FwReadFileImage \/ FwParseImage \/ FwBuildTables \/ FwStartMcu
    \/ FwBootPoll \/ FwInitIfaces \/ (\E i \in 1..Len(BootSteps) : CsfBootstrap(i))
    \/ CsfStartCsg \/ FwPublish \/ FwSelfTest \/ SchedInit
    \/ StopDevice \/ FwTeardown \/ FwStopMcu \/ FwStopAs \/ StopRest \/ RemoveDevice
    \/ McuBoots \/ InterruptRoutine \/ (\E as \in {McuAs, BringupAs} : Stick(as))
    \/ \E v \in Vms : VmCreate(v) \/ VmDestroy(v)

Spec == Init /\ [][Next]_vars

-----------------------------------------------------------------------------
(* Properties. *)

\* Whatever step of StartDevice fails, every block is either pointed to or
\* freed, once; a stopped device holds none (the failure paths of MmuInit and
\* FwInit, CsfTeardown_, and the MmuTeardown that begins MmuInit).
NothingLeaked ==
    /\ \A b \in Blocks : mem.held[b] = (IF b \in mem.ptr THEN 1 ELSE 0)
    /\ pc \in {"absent", "added"} => mem.ptr = {}

\* While calls can come, CSF_JOBS promises all that SubmitStreamCall_ touches:
\* the queue's memory, mapped where the firmware looks for it, the tables
\* behind both ASes, a started slot on a running MCU.
JobsReady ==
    At("up") \/ At("selftest") =>
        ("jobs" \in flags =>
            /\ Blocks \subseteq mem.ptr
            /\ hw.mcu = "up" /\ hw.csg = "started" /\ hw.l2
            /\ hw.on = {McuAs, BringupAs}
            /\ \A i \in 1..Len(BootSteps) : BootSteps[i][1] \in pte[BootSteps[i][2]])

\* What the firmware may read or write.
Reach ==
    IF hw.mcu \in {"off", "lost"} THEN {}
    ELSE (IF McuAs \in hw.on
          THEN {"sections", "ptPool"} \cup (IF hw.csg = "idle" THEN {} ELSE pte[McuAs])
          ELSE {})
         \cup (IF BringupAs \in hw.on /\ hw.csg # "idle"
               THEN {"scratch"} \cup pte[BringupAs] ELSE {})

\* Freed memory is within the firmware's reach only between the free and the
\* MCU_CONTROL=DISABLE of FwTeardown, after a START that CsfBootstrap_ gave up
\* waiting for, or when the hardware does not obey.
MemoryUnderGpu ==
    \/ Reach \subseteq mem.ptr
    \/ At("stopMcu")
    \/ env.unacked
    \/ At("stopAs0") /\ env.faulted
    \/ hw.stuck # {}

\* A start in which nothing fails ends with everything up, whatever failed in
\* the sessions before it: nothing they left makes FwInit or MmuInit skip their
\* work, and the interrupt routine cannot hide that the MCU booted.  An MCU
\* that an earlier start left without its address space is the exception:
\* FwInit never writes DISABLE first.
CleanStart ==
    At("up") /\ ~env.faulted /\ ~env.foundLost => flags = Flags

\* A stopped device translates nothing.  Unless something failed the L2 is off,
\* and so is the MCU, unless an earlier start had left it.
StoppedIsOff ==
    At("added") /\ hw.stuck = {} =>
        /\ hw.on = {}
        /\ hw.l2 => env.faulted
        /\ hw.mcu = "off" \/ env.faulted \/ env.foundLost

\* Types, and what failed starts and StopDevice leave behind: no block without
\* a pointer, no translation, no powered block that was not lost to a failure.
LeavesNothing == TypeOK /\ NothingLeaked /\ StoppedIsOff

\* Two VMs share an AS slot only when a VM outlived a restart (InitAsAllocator
\* forgets its slot, VmDestroy then frees a slot that is another's), and only
\* such a VM may translate the ring's addresses to another session's memory.
VmsApart ==
    \/ env.survived
    \/ ~At("up")
    \/ /\ \A v, w \in Vms : v # w /\ vms[v].slot = vms[w].slot => vms[v] = NoVm
       /\ \A v \in Vms : vms[v].ring # 0 => vms[v].ring = session /\ "boot" \in flags
=============================================================================
