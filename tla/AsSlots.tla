------------------------------ MODULE AsSlots ------------------------------
(***************************************************************************)
(* The address spaces of the GPU (KMD/WinMaliMmu.c): AsSlotInUseMask and   *)
(* AsBindings under AsSlotLock, the AS registers they describe, and the    *)
(* paths that bind, use and release a slot: DxgkDdiSetRootPageTable and    *)
(* DestroyContext, VmCreate and VmDestroy, the streams of GroupSubmit and  *)
(* SubmitCommandVirtual with the recovery of a faulted AS, and             *)
(* MmuTeardown.  AsSlotLock is held for one step at a time; the register   *)
(* sequences of AsEnable and AsDisable run outside it, one step each.      *)
(*                                                                         *)
(* The hardware: an AS translates through the root of the last UPDATE it   *)
(* accepted.  An AS whose AS_ACTIVE bit is stuck accepts no command any    *)
(* more; AsEnable and AsDisable then time out and change nothing.          *)
(***************************************************************************)
EXTENDS Integers, FiniteSets, FiniteSetsExt

CONSTANTS
    Threads,     \* threads of dxgkrnl and of escape callers
    Ctxs,        \* addresses CreateContext's pool allocation may return
    Vms,         \* VMs VmCreate may make, each with its own root page
    AsSlotMax,   \* WINMALI_AS_SLOT_MAX
    AsPresent,   \* the slots in GPU_AS_PRESENT
    Versions,    \* root tables dxgk makes for a context, one after another
    NULL, Off, Idle

ASSUME AsAssumption ==
    /\ AsSlotMax \in Nat /\ AsSlotMax > 2
    /\ AsPresent \subseteq 0..AsSlotMax - 1
    /\ NULL \notin Ctxs

VARIABLES
    regs,      \* GpuRegsMapped
    inUse,     \* AsSlotInUseMask
    bindings,  \* AsBindings: bound, the owner's hContext, RootPtPa
    hw,        \* the root each AS translates through
    stuck,     \* slots whose AS_ACTIVE bit is stuck
    ctxs,      \* contexts that exist
    vms,       \* VMs: where they are in their life, and Pt.AsSlot
    th         \* what each thread is doing, to whom, on which slot

vars == <<regs, inUse, bindings, hw, stuck, ctxs, vms, th>>

Slots     == 0..AsSlotMax - 1
McuAs     == 0                        \* WINMALI_MMU_MCU_AS
BringupAs == 1                        \* WINMALI_MMU_BRINGUP_AS
NoSlot    == AsSlotMax

\* InitAsAllocator puts the driver's own slots in whatever the GPU reports.
Present == (IF AsPresent = {} THEN Slots ELSE AsPresent) \cup {McuAs, BringupAs}

VmRoot(v)     == <<"vm", v>>
CtxRoot(c, k) == <<"ctx", c, k>>
Roots == {VmRoot(v) : v \in Vms} \cup {CtxRoot(c, k) : c \in Ctxs, k \in Versions}
Hardware == {<<"fw">>, <<"bringup">>}

\* Contexts have two names: the driver's (its own address) and dxgkrnl's.
RtHandle(c) == <<"rt", c>>

ASSUME NamesApart ==
    /\ \A c \in Ctxs : RtHandle(c) \notin Ctxs \cup {NULL}
    /\ Ctxs \cap Vms = {} /\ Idle \notin Ctxs \cup Vms

Unbound == [bound |-> FALSE, owner |-> NULL, root |-> NULL]
Resting == [pc |-> "idle", who |-> Idle, slot |-> NoSlot, root |-> NULL, reused |-> FALSE]

TypeOK ==
    /\ regs \in BOOLEAN /\ inUse \subseteq Slots /\ stuck \subseteq Slots
    /\ bindings \in [Slots -> [bound: BOOLEAN, owner: Ctxs \cup {NULL},
                               root: Roots \cup {NULL}]]
    /\ hw \in [Slots -> Roots \cup Hardware \cup {Off}]
    /\ ctxs \subseteq Ctxs
    /\ vms \in [Vms -> [at: {"none", "making", "listed", "going", "gone"},
                        slot: 0..NoSlot]]
    /\ \A t \in Threads : th[t].slot \in 0..NoSlot
    /\ \A v \in Vms : vms[v].at = "listed" /\ regs => vms[v].slot \in inUse

Init ==
    /\ regs = TRUE
    /\ inUse = {McuAs, BringupAs}
    /\ bindings = [s \in Slots |-> Unbound]
    /\ hw = [s \in Slots |-> CASE s = McuAs -> <<"fw">>
                               [] s = BringupAs -> <<"bringup">>
                               [] OTHER -> Off]
    /\ stuck = {} /\ ctxs = {}
    /\ vms = [v \in Vms |-> [at |-> "none", slot |-> NoSlot]]
    /\ th = [t \in Threads |-> Resting]

-----------------------------------------------------------------------------
(* The allocator, as its callers use it under the lock. *)

Lowest(S) == IF S = {} THEN NoSlot ELSE Min(S)

FindAsForContext(h) ==
    Lowest({s \in Slots : bindings[s].bound /\ bindings[s].owner = h})

PickFreeAs == Lowest(Present \ inUse)

\* AsEnable and AsDisable: their outcome and what it leaves in the registers.
Accepts(s) == s \notin stuck
AsWrite(s, root) == hw' = IF Accepts(s) THEN [hw EXCEPT ![s] = root] ELSE hw
AsEnable(s, root) == AsWrite(s, root)
AsDisable(s) == AsWrite(s, Off)

Bind(s, owner, root) ==
    bindings' = [bindings EXCEPT ![s] = [bound |-> TRUE, owner |-> owner, root |-> root]]
Clear(s) == bindings' = [bindings EXCEPT ![s] = Unbound]

Goto(t, pc) == th' = [th EXCEPT ![t].pc = pc]
Return(t)   == th' = [th EXCEPT ![t] = Resting]
Call(t, pc, who, slot, root, reused) ==
    th' = [th EXCEPT ![t] = [pc |-> pc, who |-> who, slot |-> slot,
                             root |-> root, reused |-> reused]]

Busy(who) == \E t \in Threads : th[t].who = who

-----------------------------------------------------------------------------
(* Contexts.  dxgkrnl serializes the calls on one context. *)

CreateContext(c) ==
    /\ regs /\ c \notin ctxs /\ ~Busy(c)
    /\ ctxs' = ctxs \cup {c}
    /\ UNCHANGED <<regs, inUse, bindings, hw, stuck, vms, th>>

\* SetRootPageTable with a table in the segment: BindContextRootPt takes the
\* context's slot or a free one and records the binding under the lock.
BindContextRootPt(t, c, k) ==
    LET mine == FindAsForContext(c)
        s    == IF mine # NoSlot THEN mine ELSE PickFreeAs IN
    /\ regs /\ th[t] = Resting /\ c \in ctxs /\ ~Busy(c)
    /\ s # NoSlot
    /\ inUse' = inUse \cup {s}
    /\ Bind(s, c, CtxRoot(c, k))
    /\ Call(t, "bind", c, s, CtxRoot(c, k), mine # NoSlot)
    /\ UNCHANGED <<regs, hw, stuck, ctxs, vms>>

BindEnable(t) ==
    /\ th[t].pc = "bind"
    /\ AsEnable(th[t].slot, th[t].root)
    /\ IF Accepts(th[t].slot) THEN Return(t) ELSE Goto(t, "bindfail")
    /\ UNCHANGED <<regs, inUse, bindings, stuck, ctxs, vms>>

\* The failed bind: a reused slot keeps its bit in AsSlotInUseMask.
BindFailed(t) ==
    /\ th[t].pc = "bindfail"
    /\ Clear(th[t].slot)
    /\ inUse' = IF th[t].reused THEN inUse ELSE inUse \ {th[t].slot}
    /\ Return(t)
    /\ UNCHANGED <<regs, hw, stuck, ctxs, vms>>

\* UnbindContext's locked part: the slot is free again before it is disabled.
UnbindSlot(t, h, who) ==
    LET s == FindAsForContext(h) IN
    /\ inUse' = inUse \ {s}
    /\ IF s = NoSlot
         THEN bindings' = bindings /\ Return(t)
         ELSE Clear(s) /\ Call(t, "unbind", who, s, NULL, FALSE)

\* SetRootPageTable with no table is an unbind.
UnbindRoot(t, c) ==
    /\ regs /\ th[t] = Resting /\ c \in ctxs /\ ~Busy(c)
    /\ UnbindSlot(t, c, c)
    /\ UNCHANGED <<regs, hw, stuck, ctxs, vms>>

UnbindDisable(t) ==
    /\ th[t].pc = "unbind"
    /\ IF regs THEN AsDisable(th[t].slot) ELSE hw' = hw
    /\ Return(t)
    /\ UNCHANGED <<regs, inUse, bindings, stuck, ctxs, vms>>

\* DestroyContext unbinds the name dxgkrnl gave the context, not its own.
DestroyContext(t, c) ==
    /\ th[t] = Resting /\ c \in ctxs /\ ~Busy(c)
    /\ UnbindSlot(t, RtHandle(c), c)
    /\ ctxs' = ctxs \ {c}
    /\ UNCHANGED <<regs, hw, stuck, vms>>

-----------------------------------------------------------------------------
(* VMs. *)

SetVm(v, at, slot) == vms' = [vms EXCEPT ![v] = [at |-> at, slot |-> slot]]

\* VmInit: a root page, then VmPickAs under the lock.  The slot is bound to
\* no context and to no root yet.  Without a free slot VmCreate fails.
VmPickAs_NotMarked(t, v) ==
    LET s == PickFreeAs IN
    /\ regs /\ th[t] = Resting /\ vms[v].at = "none" /\ s # NoSlot
    /\ Bind(s, NULL, NULL)
    /\ SetVm(v, "making", s)
    /\ Call(t, "make", v, s, VmRoot(v), FALSE)
    /\ UNCHANGED <<regs, inUse, hw, stuck, ctxs>>
VmPickAs(t, v) ==
    LET s == PickFreeAs IN
    /\ regs /\ th[t] = Resting /\ vms[v].at = "none" /\ s # NoSlot
    /\ inUse' = inUse \cup {s}
    /\ Bind(s, NULL, NULL)
    /\ SetVm(v, "making", s)
    /\ Call(t, "make", v, s, VmRoot(v), FALSE)
    /\ UNCHANGED <<regs, hw, stuck, ctxs>>

VmEnable(t) ==
    /\ th[t].pc = "make"
    /\ AsEnable(th[t].slot, th[t].root)
    /\ Goto(t, IF Accepts(th[t].slot) THEN "record" ELSE "makefail")
    /\ UNCHANGED <<regs, inUse, bindings, stuck, ctxs, vms>>

\* VmInit's end and VmCreate's insertion into VmTable.
VmRecord(t) ==
    /\ th[t].pc = "record"
    /\ bindings' = [bindings EXCEPT ![th[t].slot].root = th[t].root]
    /\ SetVm(th[t].who, "listed", th[t].slot)
    /\ Return(t)
    /\ UNCHANGED <<regs, inUse, hw, stuck, ctxs>>

VmReleaseAs(s) == Clear(s) /\ inUse' = inUse \ {s}

VmInitFailed(t) ==
    /\ th[t].pc = "makefail"
    /\ VmReleaseAs(th[t].slot)
    /\ SetVm(th[t].who, "gone", NoSlot)
    /\ Return(t)
    /\ UNCHANGED <<regs, hw, stuck, ctxs>>

\* VmDestroy, or the rundown of the owner: taken off VmTable, then VmTeardown.
VmDestroy(t, v) ==
    /\ th[t] = Resting /\ vms[v].at = "listed"
    /\ SetVm(v, "going", vms[v].slot)
    /\ Call(t, "disable", v, vms[v].slot, NULL, FALSE)
    /\ UNCHANGED <<regs, inUse, bindings, hw, stuck, ctxs>>

VmDisable(t) ==
    /\ th[t].pc = "disable"
    /\ IF regs THEN AsDisable(th[t].slot) ELSE hw' = hw
    /\ Goto(t, "release")
    /\ UNCHANGED <<regs, inUse, bindings, stuck, ctxs, vms>>

VmRelease(t) ==
    /\ th[t].pc = "release"
    /\ VmReleaseAs(th[t].slot)
    /\ Goto(t, "freepages")
    /\ UNCHANGED <<regs, hw, stuck, ctxs, vms>>

VmFreePages(t) ==
    /\ th[t].pc = "freepages"
    /\ SetVm(th[t].who, "gone", NoSlot)
    /\ Return(t)
    /\ UNCHANGED <<regs, inUse, bindings, hw, stuck, ctxs>>

-----------------------------------------------------------------------------
(* Streams.  Both paths read a slot first and wait for SubmitLock after; a  *)
(* VM's reference is dropped in between.                                    *)

Locked == {"run", "rootread", "redisable", "reenable"}
LockFree == \A t \in Threads : th[t].pc \notin Locked

GroupSubmit(t, v) ==
    /\ regs /\ th[t] = Resting /\ vms[v].at = "listed"
    /\ Call(t, "wait", v, vms[v].slot, NULL, FALSE)
    /\ UNCHANGED <<regs, inUse, bindings, hw, stuck, ctxs, vms>>

\* A CS descriptor marked DXGK_ADDR runs in the context's own AS, or in the
\* VM it names when SetRootPageTable bound none.
SubmitCommandVirtual(t, c, v) ==
    LET mine == FindAsForContext(c) IN
    /\ regs /\ th[t] = Resting /\ c \in ctxs /\ ~Busy(c)
    /\ \/ mine # NoSlot /\ Call(t, "wait", c, mine, NULL, FALSE)
       \/ mine = NoSlot /\ vms[v].at = "listed"
            /\ Call(t, "wait", v, vms[v].slot, NULL, FALSE)
    /\ UNCHANGED <<regs, inUse, bindings, hw, stuck, ctxs, vms>>

Acquire(t) ==
    /\ th[t].pc = "wait" /\ LockFree
    /\ Goto(t, "run")
    /\ UNCHANGED <<regs, inUse, bindings, hw, stuck, ctxs, vms>>

\* The stream ran in the slot's AS; a page fault leads to the recovery.
StreamDone(t) ==
    /\ th[t].pc = "run"
    /\ \/ Return(t)
       \/ Goto(t, "rootread")
    /\ UNCHANGED <<regs, inUse, bindings, hw, stuck, ctxs, vms>>

\* RecoverFaultedAs: the root under the lock, the registers after it.
RecoverRead(t) ==
    LET b == bindings[th[t].slot] IN
    /\ th[t].pc = "rootread"
    /\ th' = [th EXCEPT ![t].root = IF b.bound THEN b.root ELSE NULL,
                        ![t].pc = "redisable"]
    /\ UNCHANGED <<regs, inUse, bindings, hw, stuck, ctxs, vms>>

RecoverDisable(t) ==
    /\ th[t].pc = "redisable"
    /\ AsDisable(th[t].slot)
    /\ IF th[t].root = NULL THEN Return(t) ELSE Goto(t, "reenable")
    /\ UNCHANGED <<regs, inUse, bindings, stuck, ctxs, vms>>

RecoverEnable(t) ==
    /\ th[t].pc = "reenable"
    /\ AsEnable(th[t].slot, th[t].root)
    /\ Return(t)
    /\ UNCHANGED <<regs, inUse, bindings, stuck, ctxs, vms>>

-----------------------------------------------------------------------------
(* The device.  AS_ACTIVE may stick on any dynamic slot.  dxgkrnl stops the *)
(* adapter with no call into it running; the VMs are still there.           *)

Stick(s) ==
    /\ s \in Present \ {McuAs, BringupAs} /\ Accepts(s)
    /\ stuck' = stuck \cup {s}
    /\ UNCHANGED <<regs, inUse, bindings, hw, ctxs, vms, th>>

\* MmuTeardown releases and disables what is bound, the bring-up AS last;
\* FwTeardown disabled AS0 before it, TeardownHardware unmaps after it.
Leaked == {s \in Slots \ {McuAs, BringupAs} : bindings[s].bound}
MmuTeardown_ByMask ==
    /\ regs /\ \A t \in Threads : th[t] = Resting
    /\ regs' = FALSE
    /\ bindings' = [s \in Slots |-> IF s \in Leaked THEN Unbound ELSE bindings[s]]
    /\ inUse' = inUse \ Leaked
    /\ hw' = [s \in Slots |-> IF s \in {McuAs, BringupAs} THEN Off ELSE hw[s]]
    /\ UNCHANGED <<stuck, ctxs, vms, th>>
MmuTeardown ==
    /\ regs /\ \A t \in Threads : th[t] = Resting
    /\ regs' = FALSE
    /\ bindings' = [s \in Slots |-> IF s \in Leaked THEN Unbound ELSE bindings[s]]
    /\ inUse' = inUse \ Leaked
    /\ hw' = [s \in Slots |-> IF s \in Leaked \cup {McuAs, BringupAs} /\ Accepts(s)
                                THEN Off ELSE hw[s]]
    /\ UNCHANGED <<stuck, ctxs, vms, th>>

Next ==
    \/ \E c \in Ctxs : CreateContext(c)
    \/ \E t \in Threads, c \in Ctxs :
         \/ \E k \in Versions : BindContextRootPt(t, c, k)
         \/ UnbindRoot(t, c)
         \/ DestroyContext(t, c)
         \/ \E v \in Vms : SubmitCommandVirtual(t, c, v)
    \/ \E t \in Threads, v \in Vms :
         VmPickAs(t, v) \/ VmDestroy(t, v) \/ GroupSubmit(t, v)
    \/ \E t \in Threads :
         \/ BindEnable(t) \/ BindFailed(t) \/ UnbindDisable(t)
         \/ VmEnable(t) \/ VmRecord(t) \/ VmInitFailed(t)
         \/ VmDisable(t) \/ VmRelease(t) \/ VmFreePages(t)
         \/ Acquire(t) \/ StreamDone(t)
         \/ RecoverRead(t) \/ RecoverDisable(t) \/ RecoverEnable(t)
    \/ \E s \in Slots : Stick(s)
    \/ MmuTeardown

Spec == Init /\ [][Next]_vars

-----------------------------------------------------------------------------
(* Properties. *)

Alive(v) == vms[v].at \in {"making", "listed"}
OnSlot(t, s, pcs) == th[t].slot = s /\ th[t].pc \in pcs
Moved(t) == th'[t] # th[t]

\* A VM has its slot to itself from VmPickAs to VmDestroy: no context, no
\* other VM and none of the driver's own uses is bound to it, whatever binds
\* fail, unbinds and recoveries happen on the other slots.
SlotExclusive ==
    \A v \in Vms : regs /\ Alive(v) =>
        /\ vms[v].slot \in inUse \ {McuAs, BringupAs}
        /\ bindings[vms[v].slot].bound /\ bindings[vms[v].slot].owner = NULL
        /\ \A w \in Vms \ {v} : Alive(w) => vms[w].slot # vms[v].slot

\* The slot GroupSubmit read before it waited for SubmitLock is still the
\* slot of its VM when the stream runs, provided the VM was not destroyed.
RunsInOwnVm ==
    \A t \in Threads : th[t].pc = "run" /\ th[t].who \in Vms =>
        (vms[th[t].who].at = "listed" =>
            bindings[th[t].slot] = [bound |-> TRUE, owner |-> NULL,
                                    root |-> VmRoot(th[t].who)])

\* A slot that is in use is bound, or in the hands of a thread; only a slot
\* whose AS is stuck is lost, by a rebind that failed.
NoSlotLost ==
    \A s \in inUse \ {McuAs, BringupAs} :
        bindings[s].bound \/ s \in stuck

\* Types, a VM's own slot, and every slot accounted for, at every step.
SlotsSound == TypeOK /\ SlotExclusive /\ NoSlotLost

\* The root an AS translates through has an owner that still holds the slot,
\* or the slot is about to be reprogrammed by the thread that took it.
Backed(s) ==
    \/ hw[s] \in {Off} \cup Hardware \/ s \in stuck
    \/ \E v \in Vms : /\ vms[v].at # "gone" /\ vms[v].slot = s /\ hw[s] = VmRoot(v)
                      /\ \A t \in Threads : th[t].who = v => th[t].pc \notin {"release", "freepages"}
    \/ bindings[s].owner # NULL /\ hw[s] = bindings[s].root
    \/ \E t \in Threads : OnSlot(t, s, {"bind", "bindfail", "unbind", "make"})

\* No step but the re-enable of a fault recovery leaves an AS walking page
\* tables that are freed or were taken away: VmTeardown disables before it
\* frees, and MmuTeardown disables every slot it releases.
StrayOnlyByRecovery ==
    \A s \in Slots : Backed(s) /\ ~Backed(s)' =>
          \E t \in Threads : OnSlot(t, s, {"reenable"}) /\ Moved(t)

\* While a VM is listed and the device runs, its translation is taken away
\* by nothing but the late disable of an UnbindContext that had freed the
\* slot before, or a fault recovery on the slot.
TakenOnlyByLateDisable ==
    \A v \in Vms :
          LET s == vms[v].slot IN
          /\ vms[v].at = "listed" /\ vms'[v] = vms[v] /\ regs'
          /\ hw[s] = VmRoot(v) /\ hw'[s] # VmRoot(v)
          => \E t \in Threads :
                OnSlot(t, s, {"unbind", "redisable", "reenable"}) /\ Moved(t)

\* The two together: a translation is disturbed by the late disable and by the
\* re-enable of a recovery only, the two races UnbindContext and
\* CsfRecoverFaultedAs_ leave between the table and the hardware.
TranslationKept == [][StrayOnlyByRecovery /\ TakenOnlyByLateDisable]_vars

\* WinMaliDdi.c: DestroyContext shall "release the Mali AS slot bound to this
\* context (if SetRootPageTable ever ran)".
ContextSlotReleased ==
    \A s \in Slots : bindings[s].owner # NULL => bindings[s].owner \in ctxs
=============================================================================
