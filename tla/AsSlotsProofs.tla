---------------------------- MODULE AsSlotsProofs ----------------------------
(***************************************************************************)
(* Proofs about AsSlots: a VM has its slot to itself and its streams run   *)
(* in it, no slot is lost but a stuck one, and a translation is disturbed  *)
(* by nothing but the two races the module names; for every set of         *)
(* threads, contexts and VMs and every number of slots.                    *)
(***************************************************************************)
EXTENDS AsSlots, WellFoundedInduction, TLAPS

Places  == {"none", "making", "listed", "going", "gone"}
CtxWork == {"bind", "bindfail", "unbind"}
VmWork  == {"make", "record", "makefail", "disable", "release", "freepages"}
Stream  == {"wait", "run", "rootread", "redisable", "reenable"}
PCs     == {"idle"} \cup CtxWork \cup VmWork \cup Stream

Binding == [bound: BOOLEAN, owner: Ctxs \cup {NULL}, root: Roots \cup {NULL}]
Frame   == [pc: PCs, who: Ctxs \cup Vms \cup {Idle}, slot: 0..NoSlot,
            root: Roots \cup {NULL}, reused: BOOLEAN]

Types ==
    /\ regs \in BOOLEAN /\ inUse \subseteq Slots /\ stuck \subseteq Slots
    /\ bindings \in [Slots -> Binding]
    /\ hw \in [Slots -> Roots \cup Hardware \cup {Off}]
    /\ ctxs \subseteq Ctxs
    /\ vms \in [Vms -> [at: Places, slot: 0..NoSlot]]
    /\ th \in [Threads -> Frame]

\* The mask and the bindings: a bound slot is in use, the driver's own slots
\* are in use and never bound, a slot in use is bound or stuck, and nothing is
\* bound after MmuTeardown.
Table ==
    /\ {McuAs, BringupAs} \subseteq inUse
    /\ \A s \in Slots :
         /\ s \in {McuAs, BringupAs} \/ ~regs => ~bindings[s].bound
         /\ bindings[s].bound => s \in inUse
         /\ ~bindings[s].bound => bindings[s] = Unbound
    /\ NoSlotLost

\* Between VmPickAs and VmRelease a VM holds its slot, with the root it runs
\* under once VmInit has ended.
Working(t, v, pcs) == th[t].who = v /\ th[t].pc \in pcs
Holding(v) ==
    \/ vms[v].at \in {"making", "listed"}
    \/ \E t \in Threads : Working(t, v, {"disable", "release"})
HeldRoot(v) == IF vms[v].at = "making" THEN NULL ELSE VmRoot(v)

VmSlots ==
    \A v \in Vms :
        /\ vms[v].at \in {"none", "gone"} => vms[v].slot = NoSlot
        /\ vms[v].at \in {"making", "listed", "going"} =>
              vms[v].slot \in Slots \ {McuAs, BringupAs}
        /\ regs /\ Holding(v) =>
              bindings[vms[v].slot] = [bound |-> TRUE, owner |-> NULL, root |-> HeldRoot(v)]

Apart ==
    \A v, w \in Vms :
        regs /\ Holding(v) /\ Holding(w) /\ vms[v].slot = vms[w].slot => v = w

\* A VM being made or destroyed is in the hands of one thread, and dxgkrnl has
\* one call at a time on a context.
Hands ==
    /\ \A v \in Vms : vms[v].at \in {"making", "going"} =>
          \E t \in Threads : Working(t, v, VmWork)
    /\ \A t, u \in Threads :
          /\ th[t].who \in Ctxs /\ th[t].who = th[u].who => t = u
          /\ th[t].pc \in VmWork /\ th[u].pc \in VmWork /\ th[t].who = th[u].who => t = u

\* What a thread knows at each position.
Knows(t) ==
    LET pc == th[t].pc  who == th[t].who  s == th[t].slot IN
    /\ pc = "idle" => th[t] = Resting
    /\ pc \notin {"idle", "disable", "release", "freepages"} => regs /\ s \in Slots
    /\ pc \in CtxWork => who \in Ctxs
    /\ pc \in {"bind", "bindfail"} =>
          /\ th[t].root \in Roots
          /\ bindings[s] = [bound |-> TRUE, owner |-> who, root |-> th[t].root]
    /\ pc \in VmWork => who \in Vms /\ vms[who].slot = s
    /\ pc \in {"make", "record", "makefail"} =>
          vms[who].at = "making" /\ th[t].root = VmRoot(who)
    /\ pc \in {"disable", "release", "freepages"} => vms[who].at = "going"
    /\ pc \in {"bindfail", "makefail"} => s \in stuck
    /\ pc \in Stream /\ who \in Vms =>
          /\ vms[who].at \in {"listed", "going", "gone"}
          /\ vms[who].at = "listed" => vms[who].slot = s
    /\ pc \in Stream => who \in Vms \cup Ctxs
    /\ pc = "reenable" => th[t].root \in Roots

\* The VMs a stop leaves behind translate nothing any more.
Down == ~regs => \A v \in Vms : vms[v].at \in {"listed", "going"} =>
            hw[vms[v].slot] = Off \/ vms[v].slot \in stuck

AsInv ==
    /\ Types /\ Table /\ VmSlots /\ Apart /\ Hands
    /\ (\A t \in Threads : Knows(t)) /\ Down

-----------------------------------------------------------------------------
(* The slots as numbers.                                                    *)
LEMMA SlotFacts ==
  /\ Slots \subseteq Nat /\ Slots \subseteq 0..NoSlot
  /\ NoSlot \notin Slots /\ NoSlot \in 0..NoSlot
  /\ {McuAs, BringupAs} \subseteq Slots /\ McuAs # BringupAs
  BY AsAssumption DEF Slots, NoSlot, McuAs, BringupAs

(* Lowest finds a slot of the set when there is one, NoSlot otherwise.      *)
LEMMA LowestFacts ==
  ASSUME NEW S, S \subseteq Slots
  PROVE  /\ S = {} => Lowest(S) = NoSlot
         /\ S # {} => Lowest(S) \in S
<1> SUFFICES ASSUME S # {} PROVE Min(S) \in S
  BY DEF Lowest
<1> DEFINE R == OpToRel(<, Nat)
<1>1. S \subseteq Nat
  BY SlotFacts
<1>2. IsWellFoundedOn(R, Nat)
  BY NatLessThanWellFounded
<1>3. \A x, y \in Nat : x < y => <<x, y>> \in R
  BY DEF OpToRel
<1> HIDE DEF R
<1>4. PICK x \in S : \A y \in S : ~(<<y, x>> \in R)
  BY <1>1, <1>2, WFMin, Zenon
<1>5. \A y \in S : x <= y
  <2> TAKE y \in S
  <2>1. x \in Nat /\ y \in Nat
    BY <1>1
  <2>2. ~(y < x)
    BY <2>1, <1>3, <1>4, Zenon
  <2>3. QED
    BY <2>1, <2>2
<1>6. QED
  BY <1>5, Zenon DEF Min

(* FindAsForContext returns a slot bound to the name, if there is one.      *)
LEMMA FindFacts ==
  ASSUME NEW h, NEW s, s = FindAsForContext(h)
  PROVE  /\ s # NoSlot => s \in Slots /\ bindings[s].bound /\ bindings[s].owner = h
         /\ s = NoSlot => \A x \in Slots : ~(bindings[x].bound /\ bindings[x].owner = h)
<1> DEFINE S == {x \in Slots : bindings[x].bound /\ bindings[x].owner = h}
<1>1. s = Lowest(S) /\ S \subseteq Slots
  BY DEF FindAsForContext
<1>2. (S = {} => s = NoSlot) /\ (S # {} => s \in S)
  BY <1>1, LowestFacts
<1>3. QED
  BY <1>2, SlotFacts

(* PickFreeAs returns a slot that is not in use.                            *)
LEMMA PickFacts ==
  PickFreeAs # NoSlot => PickFreeAs \in Slots \ inUse
<1>1. Present \ inUse \subseteq Slots
  BY SlotFacts, AsAssumption DEF Present, Slots
<1>2. QED
  BY <1>1, LowestFacts DEF PickFreeAs

LEMMA RootFacts ==
  /\ \A v \in Vms : VmRoot(v) \in Roots
  /\ \A c \in Ctxs, k \in Versions : CtxRoot(c, k) \in Roots
  BY DEF Roots

(* Recording a root in a binding changes nothing else of it.                *)
LEMMA NewRoot ==
  ASSUME NEW b \in Binding, NEW x \in Roots, NEW y,
         b = [bound |-> TRUE, owner |-> NULL, root |-> y]
  PROVE  /\ [b EXCEPT !.root = x] \in Binding
         /\ [b EXCEPT !.root = x] = [bound |-> TRUE, owner |-> NULL, root |-> x]
<1> DEFINE c == [b EXCEPT !.root = x]
<1>1. c \in Binding /\ c.bound /\ c.owner = NULL /\ c.root = x
  BY DEF Binding
<1> HIDE DEF c
<1>2. c = [bound |-> TRUE, owner |-> NULL, root |-> x]
  BY <1>1 DEF Binding
<1>3. QED
  BY <1>1, <1>2 DEF c

(* A thread steps to another position, leaves a call or begins one.         *)
LEMMA ThreadFacts ==
  ASSUME Types, NEW t \in Threads
  PROVE  /\ \A p \in PCs : Goto(t, p) =>
              /\ th' \in [Threads -> Frame]
              /\ th'[t].pc = p /\ th'[t].who = th[t].who /\ th'[t].slot = th[t].slot
              /\ th'[t].root = th[t].root /\ th'[t].reused = th[t].reused
              /\ \A u \in Threads \ {t} : th'[u] = th[u]
         /\ Return(t) =>
              /\ th' \in [Threads -> Frame] /\ th'[t] = Resting
              /\ \A u \in Threads \ {t} : th'[u] = th[u]
<1> USE DEF Types
<1>1. Resting \in Frame
  BY SlotFacts DEF Resting, Frame, PCs
<1>2. ASSUME NEW p \in PCs, Goto(t, p)
      PROVE  /\ th' \in [Threads -> Frame]
             /\ th'[t].pc = p /\ th'[t].who = th[t].who /\ th'[t].slot = th[t].slot
             /\ th'[t].root = th[t].root /\ th'[t].reused = th[t].reused
             /\ \A u \in Threads \ {t} : th'[u] = th[u]
  BY <1>2 DEF Goto, Frame
<1>3. ASSUME Return(t)
      PROVE  /\ th' \in [Threads -> Frame] /\ th'[t] = Resting
             /\ \A u \in Threads \ {t} : th'[u] = th[u]
  BY <1>1, <1>3 DEF Return
<1>4. QED
  BY <1>2, <1>3

(* The registers and the bindings keep their types.                         *)
LEMMA WriteFacts ==
  ASSUME Types, NEW s \in Slots
  PROVE  /\ \A r \in Roots \cup {Off} : AsWrite(s, r) =>
              hw' \in [Slots -> Roots \cup Hardware \cup {Off}]
         /\ Clear(s) => /\ bindings' \in [Slots -> Binding] /\ bindings'[s] = Unbound
                        /\ \A x \in Slots \ {s} : bindings'[x] = bindings[x]
         /\ \A o \in Ctxs \cup {NULL}, r \in Roots \cup {NULL} : Bind(s, o, r) =>
              /\ bindings' \in [Slots -> Binding]
              /\ bindings'[s] = [bound |-> TRUE, owner |-> o, root |-> r]
              /\ \A x \in Slots \ {s} : bindings'[x] = bindings[x]
<1> USE DEF Types
<1>1. \A r \in Roots \cup {Off} : AsWrite(s, r) =>
         hw' \in [Slots -> Roots \cup Hardware \cup {Off}]
  BY DEF AsWrite
<1>2. Clear(s) => /\ bindings' \in [Slots -> Binding] /\ bindings'[s] = Unbound
                  /\ \A x \in Slots \ {s} : bindings'[x] = bindings[x]
  BY DEF Clear, Binding, Unbound
<1>3. ASSUME NEW o \in Ctxs \cup {NULL}, NEW r \in Roots \cup {NULL}, Bind(s, o, r)
      PROVE  /\ bindings' \in [Slots -> Binding]
             /\ bindings'[s] = [bound |-> TRUE, owner |-> o, root |-> r]
             /\ \A x \in Slots \ {s} : bindings'[x] = bindings[x]
  BY <1>3 DEF Bind, Binding
<1>4. QED
  BY <1>1, <1>2, <1>3

(* What the threads know survives a step of one of them that changes one    *)
(* binding, or one VM, no other thread depends on.                          *)
LEMMA OthersKnow ==
  ASSUME AsInv, NEW t \in Threads, NEW s, NEW v,
         \A u \in Threads \ {t} : th'[u] = th[u],
         regs' = regs, stuck' = stuck,
         \A x \in Slots \ {s} : bindings'[x] = bindings[x],
         \A u \in Threads \ {t} : th[u].pc \in {"bind", "bindfail"} => th[u].slot # s,
         \A w \in Vms \ {v} : vms'[w] = vms[w],
         \A u \in Threads \ {t} : th[u].who = v =>
            /\ th[u].pc \notin VmWork
            /\ th[u].pc \in Stream =>
                 /\ vms'[v].at \in {"listed", "going", "gone"}
                 /\ vms'[v].at = "listed" => vms'[v].slot = th[u].slot
  PROVE  \A u \in Threads \ {t} : Knows(u)'
  BY DEF AsInv, Types, Knows, CtxWork, VmWork, Stream

LEMMA BindersKnow ==
  ASSUME AsInv, NEW t \in Threads, NEW s,
         \A u \in Threads \ {t} : th'[u] = th[u],
         UNCHANGED <<regs, stuck, vms>>,
         \A x \in Slots \ {s} : bindings'[x] = bindings[x],
         \A u \in Threads \ {t} : th[u].pc \in {"bind", "bindfail"} => th[u].slot # s
  PROVE  \A u \in Threads \ {t} : Knows(u)'
  BY DEF AsInv, Types, Knows, CtxWork, VmWork, Stream

(* Nobody else is at work on a context or a VM a thread has in its hands.   *)
LEMMA HandsFacts ==
  ASSUME AsInv, NEW t \in Threads, NEW u \in Threads \ {t}, th[u].who = th[t].who
  PROVE  /\ th[t].who \notin Ctxs
         /\ ~(th[t].pc \in VmWork /\ th[u].pc \in VmWork)
  BY DEF AsInv, Hands

(* Who holds which slot is the same after a step that changes no binding    *)
(* and no VM, and sends no thread to release one.                           *)
LEMMA HoldingFrame ==
  ASSUME AsInv, UNCHANGED <<regs, bindings, vms>>,
         \A u \in Threads, v \in Vms :
            Working(u, v, {"disable", "release"})' => Holding(v)
  PROVE  VmSlots' /\ Apart'
<1>1. \A v \in Vms : (Holding(v)' => Holding(v)) /\ HeldRoot(v)' = HeldRoot(v)
  BY DEF Holding, HeldRoot
<1>2. VmSlots'
  BY <1>1 DEF AsInv, VmSlots
<1>3. Apart'
  BY <1>1 DEF AsInv, Apart
<1>4. QED
  BY <1>2, <1>3

(* The hands that hold a VM or a context are the same after a step in which *)
(* a thread moves on with what it had.                                      *)
LEMMA HandsFrame ==
  ASSUME AsInv, NEW t \in Threads, UNCHANGED vms,
         \A u \in Threads \ {t} : th'[u] = th[u],
         \/ th'[t].who = th[t].who /\ (th'[t].pc \in VmWork <=> th[t].pc \in VmWork)
         \/ th'[t] = Resting /\ th[t].pc \notin VmWork
  PROVE  Hands'
  BY NamesApart DEF AsInv, Types, Hands, Working, Resting, VmWork

(* The table after a slot is bound, and after one is cleared.               *)
LEMMA BoundTable ==
  ASSUME AsInv, NEW s \in Slots \ {McuAs, BringupAs}, UNCHANGED <<regs, stuck>>, regs,
         bindings'[s].bound, \A x \in Slots \ {s} : bindings'[x] = bindings[x],
         inUse' = inUse \cup {s}
  PROVE  Table'
  BY SlotFacts DEF AsInv, Types, Table, NoSlotLost

LEMMA ClearedTable ==
  ASSUME AsInv, NEW s \in Slots \ {McuAs, BringupAs}, UNCHANGED <<regs, stuck>>,
         bindings'[s] = Unbound, \A x \in Slots \ {s} : bindings'[x] = bindings[x],
         \/ inUse' = inUse \ {s}
         \/ inUse' = inUse /\ s \in stuck
  PROVE  Table'
  BY SlotFacts DEF AsInv, Types, Table, NoSlotLost, Unbound

(* The VMs keep their slots when a binding changes that none of them holds. *)
LEMMA HeldFrame ==
  ASSUME AsInv, NEW s, UNCHANGED <<regs, vms>>,
         \A x \in Slots \ {s} : bindings'[x] = bindings[x],
         \A v \in Vms : regs /\ Holding(v)' => Holding(v) /\ vms[v].slot # s
  PROVE  VmSlots' /\ Apart'
<1>1. \A v \in Vms : HeldRoot(v)' = HeldRoot(v)
  BY DEF HeldRoot
<1>2. \A v \in Vms : Holding(v) => vms[v].slot \in Slots
  BY DEF AsInv, VmSlots, Holding, Working, Knows, VmWork
<1>3. VmSlots'
  BY <1>1, <1>2 DEF AsInv, VmSlots
<1>4. Apart'
  BY DEF AsInv, Apart
<1>5. QED
  BY <1>3, <1>4

(* The VMs keep their slots when one VM and its slot change.                *)
LEMMA OneVmFrame ==
  ASSUME AsInv, regs, NEW v \in Vms, NEW s \in Slots, regs' = regs,
         \A w \in Vms \ {v} : vms'[w] = vms[w],
         \A u \in Threads : th'[u].who # v => Working(u, th'[u].who, {"disable", "release"})
            \/ th'[u].pc \notin {"disable", "release"},
         \A x \in Slots \ {s} : bindings'[x] = bindings[x],
         \A w \in Vms \ {v} : Holding(w) => vms[w].slot # s /\ vms[w].slot \in Slots,
         vms'[v].at \in {"none", "gone"} => vms'[v].slot = NoSlot,
         vms'[v].at \in {"making", "listed", "going"} =>
            vms'[v].slot = s /\ s \in Slots \ {McuAs, BringupAs},
         Holding(v)' =>
            /\ vms'[v].slot = s
            /\ bindings'[s] = [bound |-> TRUE, owner |-> NULL,
                               root |-> IF vms'[v].at = "making" THEN NULL ELSE VmRoot(v)]
  PROVE  VmSlots' /\ Apart'
<1>1. \A w \in Vms \ {v} : (Holding(w)' => Holding(w)) /\ HeldRoot(w)' = HeldRoot(w)
  BY DEF Holding, Working, HeldRoot
<1>2. HeldRoot(v)' = IF vms'[v].at = "making" THEN NULL ELSE VmRoot(v)
  BY DEF HeldRoot
<1>3. ASSUME NEW w \in Vms
      PROVE  /\ vms'[w].at \in {"none", "gone"} => vms'[w].slot = NoSlot
             /\ vms'[w].at \in {"making", "listed", "going"} =>
                   vms'[w].slot \in Slots \ {McuAs, BringupAs}
             /\ Holding(w)' =>
                   bindings'[vms'[w].slot] =
                      [bound |-> TRUE, owner |-> NULL, root |-> HeldRoot(w)']
  <2>1. CASE w = v
    BY <1>2, <2>1
  <2>2. CASE w # v
    BY <1>1, <2>2 DEF AsInv, VmSlots
  <2>3. QED
    BY <2>1, <2>2
<1>4. VmSlots'
  BY <1>3 DEF VmSlots
<1>5. Apart'
  BY <1>1 DEF AsInv, Apart
<1>6. QED
  BY <1>4, <1>5

(* A slot a VM holds is bound to no context and is not free.                *)
LEMMA HeldSlot ==
  ASSUME AsInv, regs, NEW v \in Vms, Holding(v)
  PROVE  /\ vms[v].slot \in Slots /\ vms[v].slot \in inUse
         /\ bindings[vms[v].slot].bound /\ bindings[vms[v].slot].owner = NULL
         /\ vms[v].slot \notin {McuAs, BringupAs}
<1>1. vms[v].slot \in Slots \ {McuAs, BringupAs}
  BY DEF AsInv, VmSlots, Holding, Working, Knows, VmWork
<1>2. bindings[vms[v].slot].bound /\ bindings[vms[v].slot].owner = NULL
  <2>1. bindings[vms[v].slot] = [bound |-> TRUE, owner |-> NULL, root |-> HeldRoot(v)]
    BY DEF AsInv, VmSlots
  <2>2. QED
    BY <2>1
<1>3. QED
  BY <1>1, <1>2 DEF AsInv, Table

(* A thread that binds a slot for a context owns its binding.               *)
LEMMA BinderFacts ==
  ASSUME AsInv, NEW t \in Threads, th[t].pc \in {"bind", "bindfail"}
  PROVE  /\ regs /\ th[t].slot \in Slots \ {McuAs, BringupAs}
         /\ th[t].who \in Ctxs /\ th[t].pc \notin VmWork
         /\ bindings[th[t].slot].bound /\ bindings[th[t].slot].owner = th[t].who
<1>1. /\ regs /\ th[t].slot \in Slots /\ th[t].who \in Ctxs /\ th[t].pc \notin VmWork
      /\ bindings[th[t].slot] = [bound |-> TRUE, owner |-> th[t].who, root |-> th[t].root]
  BY DEF AsInv, Knows, CtxWork, VmWork
<1>2. bindings[th[t].slot].bound /\ bindings[th[t].slot].owner = th[t].who
  BY <1>1
<1>3. QED
  BY <1>1, <1>2 DEF AsInv, Table

(* A step that changes the registers and one thread's position only.        *)
LEMMA ThreadStep ==
  ASSUME AsInv, NEW t \in Threads, UNCHANGED <<regs, inUse, bindings, stuck, ctxs, vms>>,
         hw' \in [Slots -> Roots \cup Hardware \cup {Off}], th' \in [Threads -> Frame],
         \A u \in Threads \ {t} : th'[u] = th[u],
         \A v \in Vms : Working(t, v, {"disable", "release"})' => Holding(v),
         Knows(t)', Hands', Down'
  PROVE  AsInv'
<1>1. \A u \in Threads, v \in Vms : Working(u, v, {"disable", "release"})' => Holding(v)
  BY DEF Working, Holding
<1>2. VmSlots' /\ Apart'
  BY <1>1, HoldingFrame
<1>3. Types' /\ Table'
  BY DEF AsInv, Types, Table, NoSlotLost
<1>4. \A u \in Threads \ {t} : Knows(u)'
  BY DEF AsInv, Knows
<1>5. QED
  BY <1>2, <1>3, <1>4 DEF AsInv

(* Down, while the device runs.                                             *)
LEMMA UpIsNotDown == regs' => Down'
  BY DEF Down

(* A thread leaves a call, or moves on in it, with its registers written.   *)
LEMMA ReturnStep ==
  ASSUME AsInv, NEW t \in Threads, th[t].pc \notin VmWork, Return(t),
         UNCHANGED <<regs, inUse, bindings, stuck, ctxs, vms>>,
         hw' \in [Slots -> Roots \cup Hardware \cup {Off}], Down'
  PROVE  AsInv'
<1>1. th' \in [Threads -> Frame] /\ th'[t] = Resting /\ \A u \in Threads \ {t} : th'[u] = th[u]
  BY ThreadFacts DEF AsInv
<1>2. Hands'
  BY <1>1, HandsFrame
<1>3. Knows(t)'
  BY <1>1, NamesApart DEF Knows, Resting, CtxWork, VmWork, Stream
<1>4. QED
  BY <1>1, <1>2, <1>3, ThreadStep DEF Working, Resting

LEMMA MoveStep ==
  ASSUME AsInv, NEW t \in Threads, NEW p \in PCs, Goto(t, p),
         UNCHANGED <<regs, inUse, bindings, stuck, ctxs, vms>>,
         hw' \in [Slots -> Roots \cup Hardware \cup {Off}], Down', Knows(t)',
         p \in VmWork <=> th[t].pc \in VmWork,
         p \in {"disable", "release"} => th[t].pc \in {"disable", "release"}
  PROVE  AsInv'
<1>1. /\ th' \in [Threads -> Frame] /\ th'[t].pc = p /\ th'[t].who = th[t].who
      /\ \A u \in Threads \ {t} : th'[u] = th[u]
  BY ThreadFacts DEF AsInv
<1>2. Hands'
  BY <1>1, HandsFrame
<1>3. QED
  BY <1>1, <1>2, ThreadStep DEF Working, Holding

(* A thread begins a call that holds nothing.                               *)
LEMMA StreamStep ==
  ASSUME AsInv, NEW t \in Threads, NEW w \in Ctxs \cup Vms, NEW s \in Slots,
         th[t] = Resting, regs, Call(t, "wait", w, s, NULL, FALSE),
         w \in Ctxs => ~Busy(w),
         w \in Vms => vms[w].at = "listed" /\ vms[w].slot = s,
         UNCHANGED <<regs, inUse, bindings, hw, stuck, ctxs, vms>>
  PROVE  AsInv'
<1>1. /\ th' \in [Threads -> Frame] /\ th'[t].pc = "wait" /\ th'[t].who = w
      /\ th'[t].slot = s /\ \A u \in Threads \ {t} : th'[u] = th[u]
  <2>1. "wait" \in PCs /\ s \in 0..NoSlot
    BY SlotFacts DEF PCs, Stream
  <2>2. QED
    BY <2>1 DEF AsInv, Types, Call, Frame
<1>2. th[t].pc \notin VmWork /\ th[t].who \notin Ctxs /\ th'[t].pc \notin VmWork
  BY <1>1, NamesApart DEF Resting, VmWork
<1>3. Hands'
  BY <1>1, <1>2, NamesApart DEF AsInv, Types, Hands, Working, Busy
<1>4. Knows(t)'
  BY <1>1, NamesApart DEF Knows, CtxWork, VmWork, Stream
<1>5. QED
  BY <1>1, <1>3, <1>4, ThreadStep, UpIsNotDown DEF AsInv, Types, Working

-----------------------------------------------------------------------------
(* The inductive invariant, action by action.                               *)

LEMMA CreateContextInv ==
  ASSUME AsInv, NEW c \in Ctxs, CreateContext(c)
  PROVE  AsInv'
<1> USE DEF CreateContext
<1>1. VmSlots' /\ Apart'
  BY HoldingFrame DEF Working, Holding
<1>2. Types' /\ Table'
  BY DEF AsInv, Types, Table, NoSlotLost
<1>3. Hands' /\ Down' /\ \A u \in Threads : Knows(u)'
  BY DEF AsInv, Hands, Working, Down, Knows
<1>4. QED
  BY <1>1, <1>2, <1>3 DEF AsInv

LEMMA BindEnableInv ==
  ASSUME AsInv, NEW t \in Threads, BindEnable(t)
  PROVE  AsInv'
<1>1. /\ regs /\ th[t].slot \in Slots /\ th[t].who \in Ctxs /\ th[t].root \in Roots
      /\ bindings[th[t].slot] = [bound |-> TRUE, owner |-> th[t].who, root |-> th[t].root]
      /\ th[t].pc = "bind" /\ th[t].pc \notin VmWork
  BY DEF AsInv, Knows, CtxWork, VmWork, BindEnable
<1>2. /\ UNCHANGED <<regs, inUse, bindings, stuck, ctxs, vms>>
      /\ AsWrite(th[t].slot, th[t].root)
      /\ \/ Return(t)
         \/ th[t].slot \in stuck /\ Goto(t, "bindfail")
  BY DEF BindEnable, AsEnable, Accepts
<1>3. hw' \in [Slots -> Roots \cup Hardware \cup {Off}] /\ Down'
  BY <1>1, <1>2, WriteFacts, UpIsNotDown DEF AsInv
<1>4. CASE Return(t)
  BY <1>1, <1>2, <1>3, <1>4, ReturnStep
<1>5. CASE th[t].slot \in stuck /\ Goto(t, "bindfail")
  <2>1. "bindfail" \in PCs /\ "bindfail" \notin VmWork
    BY DEF PCs, CtxWork, VmWork
  <2>2. Knows(t)'
    BY <1>1, <1>2, <1>5, <2>1, ThreadFacts DEF AsInv, Knows, CtxWork, VmWork, Stream
  <2>3. QED
    BY <1>1, <1>2, <1>3, <1>5, <2>1, <2>2, MoveStep
<1>6. QED
  BY <1>2, <1>4, <1>5

LEMMA UnbindDisableInv ==
  ASSUME AsInv, NEW t \in Threads, UnbindDisable(t)
  PROVE  AsInv'
<1>1. regs /\ th[t].slot \in Slots /\ th[t].pc \notin VmWork
  BY DEF AsInv, Knows, CtxWork, VmWork, UnbindDisable
<1>2. hw' \in [Slots -> Roots \cup Hardware \cup {Off}] /\ Down'
  BY <1>1, WriteFacts, UpIsNotDown DEF AsInv, UnbindDisable, AsDisable
<1>3. QED
  BY <1>1, <1>2, ReturnStep DEF UnbindDisable

LEMMA VmEnableInv ==
  ASSUME AsInv, NEW t \in Threads, VmEnable(t)
  PROVE  AsInv'
<1>1. /\ regs /\ th[t].slot \in Slots /\ th[t].who \in Vms
      /\ vms[th[t].who].at = "making" /\ vms[th[t].who].slot = th[t].slot
      /\ th[t].root = VmRoot(th[t].who)
  BY DEF AsInv, Knows, VmWork, VmEnable
<1>2. hw' \in [Slots -> Roots \cup Hardware \cup {Off}] /\ Down'
  <2>1. th[t].root \in Roots
    BY <1>1 DEF Roots
  <2>2. QED
    BY <1>1, <2>1, WriteFacts, UpIsNotDown DEF AsInv, VmEnable, AsEnable
<1>3. PICK p \in {"record", "makefail"} : Goto(t, p) /\ (p = "makefail" => th[t].slot \in stuck)
  BY DEF VmEnable, Accepts
<1>4. p \in PCs /\ p \in VmWork /\ th[t].pc \in VmWork /\ p \notin {"disable", "release"}
  BY DEF PCs, VmWork, VmEnable
<1>5. Knows(t)'
  <2>1. /\ th'[t].pc = p /\ th'[t].who = th[t].who /\ th'[t].slot = th[t].slot
        /\ th'[t].root = th[t].root
    BY <1>3, <1>4, ThreadFacts DEF AsInv
  <2>2. QED
    BY <1>1, <1>3, <2>1, NamesApart DEF Knows, VmEnable, CtxWork, VmWork, Stream
<1>6. QED
  BY <1>2, <1>3, <1>4, <1>5, MoveStep DEF VmEnable

LEMMA VmDisableInv ==
  ASSUME AsInv, NEW t \in Threads, VmDisable(t)
  PROVE  AsInv'
<1>1. /\ th[t].who \in Vms /\ vms[th[t].who].at = "going"
      /\ vms[th[t].who].slot = th[t].slot /\ th[t].slot \in Slots
  BY DEF AsInv, Knows, VmSlots, VmWork, VmDisable
<1>2. hw' \in [Slots -> Roots \cup Hardware \cup {Off}]
  BY <1>1, WriteFacts DEF AsInv, Types, VmDisable, AsDisable
<1>3. Down'
  BY DEF AsInv, Down, VmDisable
<1>4. "release" \in PCs /\ "release" \in VmWork /\ th[t].pc \in VmWork
  BY DEF PCs, VmWork, VmDisable
<1>5. Knows(t)'
  <2>1. th'[t].pc = "release" /\ th'[t].who = th[t].who /\ th'[t].slot = th[t].slot
    BY <1>4, ThreadFacts DEF AsInv, VmDisable
  <2>2. QED
    BY <1>1, <2>1, NamesApart DEF Knows, VmDisable, CtxWork, VmWork, Stream
<1>6. QED
  BY <1>2, <1>3, <1>4, <1>5, MoveStep DEF VmDisable

LEMMA GroupSubmitInv ==
  ASSUME AsInv, NEW t \in Threads, NEW v \in Vms, GroupSubmit(t, v)
  PROVE  AsInv'
  BY StreamStep, NamesApart DEF AsInv, VmSlots, GroupSubmit

LEMMA SubmitCommandVirtualInv ==
  ASSUME AsInv, NEW t \in Threads, NEW c \in Ctxs, NEW v \in Vms,
         SubmitCommandVirtual(t, c, v)
  PROVE  AsInv'
<1>1. /\ regs /\ th[t] = Resting /\ ~Busy(c)
      /\ UNCHANGED <<regs, inUse, bindings, hw, stuck, ctxs, vms>>
  BY DEF SubmitCommandVirtual
<1>2. CASE FindAsForContext(c) # NoSlot
           /\ Call(t, "wait", c, FindAsForContext(c), NULL, FALSE)
  BY <1>1, <1>2, FindFacts, StreamStep, NamesApart
<1>3. CASE vms[v].at = "listed" /\ Call(t, "wait", v, vms[v].slot, NULL, FALSE)
  BY <1>1, <1>3, StreamStep, NamesApart DEF AsInv, VmSlots
<1>4. QED
  BY <1>2, <1>3 DEF SubmitCommandVirtual

(* What a stream's thread knows, and keeps while it stays in the stream.    *)
LEMMA StreamFacts ==
  ASSUME AsInv, NEW t \in Threads, th[t].pc \in Stream
  PROVE  /\ regs /\ th[t].slot \in Slots /\ th[t].pc \notin VmWork
         /\ \A p \in Stream :
               /\ p \in PCs /\ p \notin VmWork
               /\ /\ th'[t].pc = p /\ th'[t].who = th[t].who /\ th'[t].slot = th[t].slot
                  /\ UNCHANGED <<regs, vms>> /\ (p = "reenable" => th'[t].root \in Roots)
                  => Knows(t)'
<1>1. /\ regs /\ th[t].slot \in Slots /\ th[t].pc \notin VmWork
      /\ th[t].who \in Vms \cup Ctxs
      /\ th[t].who \in Vms =>
           /\ vms[th[t].who].at \in {"listed", "going", "gone"}
           /\ vms[th[t].who].at = "listed" => vms[th[t].who].slot = th[t].slot
  BY DEF AsInv, Knows, Stream, VmWork
<1>2. ASSUME NEW p \in Stream
      PROVE  p \in PCs /\ p \notin VmWork
  BY DEF Stream, PCs, VmWork
<1>3. ASSUME NEW p \in Stream, th'[t].pc = p, th'[t].who = th[t].who,
             th'[t].slot = th[t].slot, UNCHANGED <<regs, vms>>,
             p = "reenable" => th'[t].root \in Roots
      PROVE  Knows(t)'
  BY <1>1, <1>3 DEF Knows, CtxWork, VmWork, Stream
<1>4. QED
  BY <1>1, <1>2, <1>3

LEMMA AcquireInv ==
  ASSUME AsInv, NEW t \in Threads, Acquire(t)
  PROVE  AsInv'
<1>1. th[t].pc \in Stream /\ "run" \in Stream
  BY DEF Acquire, Stream
<1>2. Knows(t)'
  BY <1>1, StreamFacts, ThreadFacts DEF AsInv, Acquire
<1>3. QED
  BY <1>1, <1>2, StreamFacts, MoveStep, UpIsNotDown DEF AsInv, Types, Acquire

LEMMA StreamDoneInv ==
  ASSUME AsInv, NEW t \in Threads, StreamDone(t)
  PROVE  AsInv'
<1>1. th[t].pc \in Stream /\ "rootread" \in Stream
  BY DEF StreamDone, Stream
<1>2. /\ UNCHANGED <<regs, inUse, bindings, hw, stuck, ctxs, vms>>
      /\ hw' \in [Slots -> Roots \cup Hardware \cup {Off}] /\ Down'
  BY <1>1, StreamFacts, UpIsNotDown DEF AsInv, Types, StreamDone
<1>3. CASE Return(t)
  BY <1>1, <1>2, <1>3, StreamFacts, ReturnStep
<1>4. CASE Goto(t, "rootread")
  <2>1. Knows(t)'
    BY <1>1, <1>2, <1>4, StreamFacts, ThreadFacts DEF AsInv
  <2>2. QED
    BY <1>1, <1>2, <1>4, <2>1, StreamFacts, MoveStep
<1>5. QED
  BY <1>3, <1>4 DEF StreamDone

LEMMA RecoverReadInv ==
  ASSUME AsInv, NEW t \in Threads, RecoverRead(t)
  PROVE  AsInv'
<1>1. /\ th[t].pc \in Stream /\ "redisable" \in Stream
      /\ UNCHANGED <<regs, inUse, bindings, hw, stuck, ctxs, vms>>
  BY DEF RecoverRead, Stream
<1>2. regs /\ th[t].slot \in Slots
  BY <1>1, StreamFacts
<1>3. /\ th' \in [Threads -> Frame] /\ th'[t].pc = "redisable"
      /\ th'[t].who = th[t].who /\ th'[t].slot = th[t].slot
      /\ \A u \in Threads \ {t} : th'[u] = th[u]
  <2>1. (IF bindings[th[t].slot].bound THEN bindings[th[t].slot].root ELSE NULL)
           \in Roots \cup {NULL}
    BY <1>2 DEF AsInv, Types, Binding
  <2>2. QED
    BY <1>1, <2>1, StreamFacts DEF AsInv, Types, Frame, RecoverRead
<1>4. Knows(t)' /\ Hands'
  BY <1>1, <1>3, StreamFacts, HandsFrame
<1>5. QED
  BY <1>1, <1>2, <1>3, <1>4, StreamFacts, ThreadStep, UpIsNotDown DEF AsInv, Types, Working

LEMMA RecoverDisableInv ==
  ASSUME AsInv, NEW t \in Threads, RecoverDisable(t)
  PROVE  AsInv'
<1>1. /\ th[t].pc \in Stream /\ "reenable" \in Stream
      /\ UNCHANGED <<regs, inUse, bindings, stuck, ctxs, vms>>
  BY DEF RecoverDisable, Stream
<1>2. hw' \in [Slots -> Roots \cup Hardware \cup {Off}] /\ Down'
  BY <1>1, StreamFacts, WriteFacts, UpIsNotDown DEF AsInv, RecoverDisable, AsDisable
<1>3. CASE Return(t)
  BY <1>1, <1>2, <1>3, StreamFacts, ReturnStep
<1>4. CASE th[t].root # NULL /\ Goto(t, "reenable")
  <2>1. th[t].root \in Roots
    BY <1>4 DEF AsInv, Types, Frame
  <2>2. Knows(t)'
    BY <1>1, <1>4, <2>1, StreamFacts, ThreadFacts DEF AsInv
  <2>3. QED
    BY <1>1, <1>2, <1>4, <2>2, StreamFacts, MoveStep
<1>5. QED
  BY <1>3, <1>4 DEF RecoverDisable

LEMMA RecoverEnableInv ==
  ASSUME AsInv, NEW t \in Threads, RecoverEnable(t)
  PROVE  AsInv'
<1>1. th[t].pc \in Stream /\ th[t].root \in Roots
  BY DEF AsInv, Knows, RecoverEnable, Stream
<1>2. hw' \in [Slots -> Roots \cup Hardware \cup {Off}] /\ Down'
  BY <1>1, StreamFacts, WriteFacts, UpIsNotDown DEF AsInv, RecoverEnable, AsEnable
<1>3. QED
  BY <1>1, <1>2, StreamFacts, ReturnStep DEF RecoverEnable

LEMMA BindContextRootPtInv ==
  ASSUME AsInv, NEW t \in Threads, NEW c \in Ctxs, NEW k \in Versions,
         BindContextRootPt(t, c, k)
  PROVE  AsInv'
<1>1. PICK s \in Slots \ {McuAs, BringupAs}, b \in BOOLEAN :
        /\ inUse' = inUse \cup {s} /\ Bind(s, c, CtxRoot(c, k))
        /\ Call(t, "bind", c, s, CtxRoot(c, k), b)
        /\ s \notin inUse \/ bindings[s].owner = c
  <2> DEFINE mine == FindAsForContext(c)
             s    == IF mine # NoSlot THEN mine ELSE PickFreeAs
  <2>1. s \in Slots /\ (s \notin inUse \/ (bindings[s].bound /\ bindings[s].owner = c))
    BY FindFacts, PickFacts DEF BindContextRootPt
  <2>2. s \notin {McuAs, BringupAs}
    BY <2>1 DEF AsInv, Table
  <2>3. QED
    BY <2>1, <2>2 DEF BindContextRootPt
<1>2. /\ regs /\ th[t] = Resting /\ ~Busy(c) /\ UNCHANGED <<regs, hw, stuck, ctxs, vms>>
      /\ CtxRoot(c, k) \in Roots
  BY DEF BindContextRootPt, Roots
<1>3. /\ bindings' \in [Slots -> Binding]
      /\ bindings'[s] = [bound |-> TRUE, owner |-> c, root |-> CtxRoot(c, k)]
      /\ \A x \in Slots \ {s} : bindings'[x] = bindings[x]
  BY <1>1, <1>2, WriteFacts DEF AsInv
<1>4. /\ th' \in [Threads -> Frame] /\ th'[t].pc = "bind" /\ th'[t].who = c
      /\ th'[t].slot = s /\ th'[t].root = CtxRoot(c, k)
      /\ \A u \in Threads \ {t} : th'[u] = th[u]
  <2>1. "bind" \in PCs /\ s \in 0..NoSlot
    BY SlotFacts DEF PCs, CtxWork
  <2>2. QED
    BY <1>1, <1>2, <2>1 DEF AsInv, Types, Call, Frame
<1>5. Types' /\ Table'
  <2>1. Types'
    BY <1>1, <1>2, <1>3, <1>4 DEF AsInv, Types
  <2>2. QED
    BY <1>1, <1>2, <1>3, <2>1, BoundTable
<1>6. VmSlots' /\ Apart'
  <2>1. \A v \in Vms : Holding(v)' => Holding(v)
    BY <1>2, <1>4 DEF Holding, Working
  <2>2. \A v \in Vms : Holding(v) => vms[v].slot # s
    BY <1>1, <1>2, HeldSlot, AsAssumption
  <2>3. QED
    BY <1>2, <1>3, <2>1, <2>2, HeldFrame
<1>7. Hands'
  BY <1>2, <1>4, NamesApart DEF AsInv, Types, Hands, Working, Busy, Resting, VmWork
<1>8. Knows(t)'
  BY <1>2, <1>3, <1>4, NamesApart DEF Knows, CtxWork, VmWork, Stream
<1>9. \A u \in Threads \ {t} : Knows(u)'
  <2>1. \A u \in Threads \ {t} : th[u].pc \in {"bind", "bindfail"} => th[u].slot # s
    BY <1>1, <1>2, BinderFacts DEF AsInv, Table, Busy
  <2>2. QED
    BY <1>2, <1>3, <1>4, <2>1, BindersKnow
<1>10. QED
  BY <1>2, <1>5, <1>6, <1>7, <1>8, <1>9, UpIsNotDown DEF AsInv

LEMMA BindFailedInv ==
  ASSUME AsInv, NEW t \in Threads, BindFailed(t)
  PROVE  AsInv'
<1> DEFINE s == th[t].slot
<1>1. /\ regs /\ s \in Slots \ {McuAs, BringupAs} /\ th[t].who \in Ctxs
      /\ bindings[s].bound /\ bindings[s].owner = th[t].who
      /\ th[t].pc \notin VmWork
  BY BinderFacts DEF BindFailed
<1>2. s \in stuck
  BY DEF AsInv, Knows, BindFailed
<1>3. /\ Clear(s) /\ Return(t) /\ UNCHANGED <<regs, hw, stuck, ctxs, vms>>
      /\ inUse' = inUse \ {s} \/ inUse' = inUse
  BY DEF BindFailed
<1>4. /\ bindings' \in [Slots -> Binding] /\ bindings'[s] = Unbound
      /\ \A x \in Slots \ {s} : bindings'[x] = bindings[x]
  BY <1>1, <1>3, WriteFacts DEF AsInv
<1>5. th' \in [Threads -> Frame] /\ th'[t] = Resting /\ \A u \in Threads \ {t} : th'[u] = th[u]
  BY <1>3, ThreadFacts DEF AsInv
<1>6. Types' /\ Table'
  <2>1. Types'
    BY <1>3, <1>4, <1>5 DEF AsInv, Types
  <2>2. QED
    BY <1>1, <1>2, <1>3, <1>4, <2>1, ClearedTable
<1>7. VmSlots' /\ Apart'
  <2>1. \A v \in Vms : Holding(v)' => Holding(v)
    BY <1>3, <1>5 DEF Holding, Working, Resting
  <2>2. \A v \in Vms : Holding(v) => vms[v].slot # s
    BY <1>1, HeldSlot, NamesApart, AsAssumption
  <2>3. QED
    BY <1>3, <1>4, <2>1, <2>2, HeldFrame
<1>8. Hands'
  BY <1>1, <1>3, <1>5, HandsFrame
<1>9. Knows(t)'
  BY <1>5, NamesApart DEF Knows, Resting, CtxWork, VmWork, Stream
<1>10. \A u \in Threads \ {t} : Knows(u)'
  <2>1. \A u \in Threads \ {t} : th[u].pc \in {"bind", "bindfail"} => th[u].slot # s
    BY <1>1, BinderFacts, HandsFacts
  <2>2. QED
    BY <1>3, <1>4, <1>5, <2>1, BindersKnow
<1>11. QED
  BY <1>1, <1>3, <1>6, <1>7, <1>8, <1>9, <1>10, UpIsNotDown DEF AsInv

LEMMA UnbindRootInv ==
  ASSUME AsInv, NEW t \in Threads, NEW c \in Ctxs, UnbindRoot(t, c)
  PROVE  AsInv'
<1> DEFINE s == FindAsForContext(c)
<1>1. /\ regs /\ th[t] = Resting /\ ~Busy(c) /\ UNCHANGED <<regs, hw, stuck, ctxs, vms>>
      /\ inUse' = inUse \ {s} /\ th[t].pc \notin VmWork
  BY DEF UnbindRoot, UnbindSlot, Resting, VmWork
<1>2. CASE s = NoSlot
  <2>1. bindings' = bindings /\ Return(t) /\ inUse' = inUse
    BY <1>1, <1>2, SlotFacts DEF AsInv, Types, UnbindRoot, UnbindSlot
  <2>2. QED
    BY <1>1, <2>1, ReturnStep, UpIsNotDown DEF AsInv, Types
<1>3. CASE s # NoSlot
  <2>1. s \in Slots \ {McuAs, BringupAs} /\ bindings[s].bound /\ bindings[s].owner = c
    BY <1>3, FindFacts DEF AsInv, Table
  <2>2. Clear(s) /\ Call(t, "unbind", c, s, NULL, FALSE)
    BY <1>3 DEF UnbindRoot, UnbindSlot
  <2>3. /\ bindings' \in [Slots -> Binding] /\ bindings'[s] = Unbound
        /\ \A x \in Slots \ {s} : bindings'[x] = bindings[x]
    BY <2>1, <2>2, WriteFacts DEF AsInv
  <2>4. /\ th' \in [Threads -> Frame] /\ th'[t].pc = "unbind" /\ th'[t].who = c
        /\ th'[t].slot = s /\ \A u \in Threads \ {t} : th'[u] = th[u]
    <3>1. "unbind" \in PCs /\ s \in 0..NoSlot
      BY <2>1, SlotFacts DEF PCs, CtxWork
    <3>2. QED
      BY <2>2, <3>1 DEF AsInv, Types, Call, Frame
  <2>5. Types' /\ Table'
    <3>1. Types'
      BY <1>1, <2>3, <2>4 DEF AsInv, Types
    <3>2. QED
      BY <1>1, <2>1, <2>3, <3>1, ClearedTable
  <2>6. VmSlots' /\ Apart'
    <3>1. \A v \in Vms : Holding(v)' => Holding(v)
      BY <1>1, <2>4 DEF Holding, Working
    <3>2. \A v \in Vms : Holding(v) => vms[v].slot # s
      BY <1>1, <2>1, HeldSlot, AsAssumption
    <3>3. QED
      BY <1>1, <2>3, <3>1, <3>2, HeldFrame
  <2>7. Hands'
    BY <1>1, <2>4, NamesApart DEF AsInv, Types, Hands, Working, Busy, Resting, VmWork
  <2>8. Knows(t)'
    BY <1>1, <2>1, <2>4, NamesApart DEF Knows, CtxWork, VmWork, Stream
  <2>9. \A u \in Threads \ {t} : Knows(u)'
    <3>1. \A u \in Threads \ {t} : th[u].pc \in {"bind", "bindfail"} => th[u].slot # s
      BY <1>1, <2>1, BinderFacts DEF Busy
    <3>2. QED
      BY <1>1, <2>3, <2>4, <3>1, BindersKnow
  <2>10. QED
    BY <1>1, <2>5, <2>6, <2>7, <2>8, <2>9, UpIsNotDown DEF AsInv
<1>4. QED
  BY <1>2, <1>3

LEMMA DestroyContextInv ==
  ASSUME AsInv, NEW t \in Threads, NEW c \in Ctxs, DestroyContext(t, c)
  PROVE  AsInv'
<1>1. FindAsForContext(RtHandle(c)) = NoSlot
  BY FindFacts, NamesApart DEF AsInv, Types, Binding
<1>2. /\ bindings' = bindings /\ inUse' = inUse /\ Return(t) /\ th[t] = Resting
      /\ ctxs' \subseteq ctxs /\ UNCHANGED <<regs, hw, stuck, vms>>
  BY <1>1, SlotFacts DEF AsInv, Types, DestroyContext, UnbindSlot
<1>3. th' = th
  BY <1>2, ThreadFacts DEF AsInv, Types
<1>4. VmSlots' /\ Apart'
  BY <1>2, <1>3, HoldingFrame DEF Working, Holding
<1>5. Types' /\ Table'
  BY <1>2, <1>3 DEF AsInv, Types, Table, NoSlotLost
<1>6. Hands' /\ Down' /\ \A u \in Threads : Knows(u)'
  BY <1>2, <1>3 DEF AsInv, Hands, Working, Down, Knows
<1>7. QED
  BY <1>4, <1>5, <1>6 DEF AsInv

LEMMA VmPickAsInv ==
  ASSUME AsInv, NEW t \in Threads, NEW v \in Vms, VmPickAs(t, v)
  PROVE  AsInv'
<1> DEFINE s == PickFreeAs
<1>1. /\ regs /\ th[t] = Resting /\ vms[v].at = "none" /\ UNCHANGED <<regs, hw, stuck, ctxs>>
      /\ inUse' = inUse \cup {s} /\ Bind(s, NULL, NULL) /\ SetVm(v, "making", s)
      /\ Call(t, "make", v, s, VmRoot(v), FALSE)
      /\ VmRoot(v) \in Roots
  BY RootFacts DEF VmPickAs
<1>2. s \in Slots \ {McuAs, BringupAs} /\ s \notin inUse /\ ~bindings[s].bound
  BY PickFacts DEF AsInv, Table, VmPickAs
<1> HIDE DEF s
<1>3. /\ bindings' \in [Slots -> Binding]
      /\ bindings'[s] = [bound |-> TRUE, owner |-> NULL, root |-> NULL]
      /\ \A x \in Slots \ {s} : bindings'[x] = bindings[x]
  BY <1>1, <1>2, WriteFacts DEF AsInv
<1>4. /\ vms' \in [Vms -> [at: Places, slot: 0..NoSlot]]
      /\ vms'[v].at = "making" /\ vms'[v].slot = s
      /\ \A w \in Vms \ {v} : vms'[w] = vms[w]
  BY <1>1, <1>2, SlotFacts DEF AsInv, Types, SetVm, Places
<1>5. /\ th' \in [Threads -> Frame] /\ th'[t].pc = "make" /\ th'[t].who = v
      /\ th'[t].slot = s /\ th'[t].root = VmRoot(v)
      /\ \A u \in Threads \ {t} : th'[u] = th[u]
  <2>1. "make" \in PCs /\ s \in 0..NoSlot
    BY <1>2, SlotFacts DEF PCs, VmWork
  <2>2. QED
    BY <1>1, <2>1 DEF AsInv, Types, Call, Frame
<1>6. Types' /\ Table'
  <2>1. Types'
    BY <1>1, <1>2, <1>3, <1>4, <1>5 DEF AsInv, Types
  <2>2. QED
    BY <1>1, <1>2, <1>3, <2>1, BoundTable
<1>7. \A u \in Threads : th[u].who = v => th[u].pc \notin VmWork /\ th[u].pc \notin Stream
  BY <1>1, NamesApart DEF AsInv, Knows, VmWork, Stream
<1>8. VmSlots' /\ Apart'
  <2>1. \A u \in Threads : th'[u].who # v =>
           \/ Working(u, th'[u].who, {"disable", "release"})
           \/ th'[u].pc \notin {"disable", "release"}
    BY <1>5 DEF Working
  <2>2. \A w \in Vms : Holding(w) => vms[w].slot # s /\ vms[w].slot \in Slots
    BY <1>1, <1>2, HeldSlot
  <2>3. QED
    BY <1>1, <1>2, <1>3, <1>4, <2>1, <2>2, OneVmFrame
<1>9. Hands'
  <2>1. \A w \in Vms : vms'[w].at \in {"making", "going"} => \E u \in Threads : Working(u, w, VmWork)'
    BY <1>1, <1>4, <1>5 DEF AsInv, Hands, Working, VmWork, Resting
  <2>2. th'[t].who \notin Ctxs /\ th'[t].who = v
    BY <1>5, NamesApart
  <2>3. QED
    BY <1>5, <1>7, <2>1, <2>2 DEF AsInv, Hands
<1>10. Knows(t)'
  BY <1>1, <1>2, <1>4, <1>5 DEF Knows, CtxWork, VmWork, Stream
<1>11. \A u \in Threads \ {t} : Knows(u)'
  <2>1. \A u \in Threads \ {t} : th[u].pc \in {"bind", "bindfail"} => th[u].slot # s
    BY <1>1, <1>2, BinderFacts
  <2>2. QED
    BY <1>1, <1>3, <1>4, <1>5, <1>7, <2>1, OthersKnow
<1>12. QED
  BY <1>1, <1>6, <1>8, <1>9, <1>10, <1>11, UpIsNotDown DEF AsInv

(* A thread at work on a VM: what it has in its hands.                      *)
LEMMA WorkerFacts ==
  ASSUME AsInv, NEW t \in Threads, th[t].pc \in VmWork
  PROVE  /\ th[t].who \in Vms /\ th[t].who \notin Ctxs
         /\ vms[th[t].who].slot = th[t].slot
         /\ th[t].slot \in Slots \ {McuAs, BringupAs}
         /\ \A u \in Threads \ {t} : th[u].who = th[t].who => th[u].pc \notin VmWork
         /\ th[t].pc \in {"make", "record", "makefail"} => vms[th[t].who].at = "making" /\ regs
         /\ th[t].pc \in {"disable", "release", "freepages"} => vms[th[t].who].at = "going"
<1>1. /\ th[t].who \in Vms /\ vms[th[t].who].slot = th[t].slot
      /\ th[t].pc \in {"make", "record", "makefail"} => vms[th[t].who].at = "making" /\ regs
      /\ th[t].pc \in {"disable", "release", "freepages"} => vms[th[t].who].at = "going"
  BY DEF AsInv, Knows, VmWork
<1>2. th[t].slot \in Slots \ {McuAs, BringupAs}
  BY <1>1 DEF AsInv, VmSlots, VmWork
<1>3. th[t].who \notin Ctxs /\ \A u \in Threads \ {t} : th[u].who = th[t].who => th[u].pc \notin VmWork
  BY <1>1, NamesApart DEF AsInv, Hands
<1>4. QED
  BY <1>1, <1>2, <1>3

(* The end of a call on a VM: nobody else had the VM in hand.               *)
LEMMA WorkerReturn ==
  ASSUME AsInv, NEW t \in Threads, th[t].pc \in VmWork, th'[t] = Resting,
         \A u \in Threads \ {t} : th'[u] = th[u],
         vms'[th[t].who].at \in {"listed", "gone"},
         \A w \in Vms \ {th[t].who} : vms'[w] = vms[w]
  PROVE  Hands' /\ Knows(t)'
<1>1. \A w \in Vms : vms'[w].at \in {"making", "going"} => \E u \in Threads : Working(u, w, VmWork)'
  BY WorkerFacts DEF AsInv, Hands, Working
<1>2. Resting.pc \notin VmWork /\ Resting.who \notin Ctxs \cup Vms
  BY NamesApart DEF Resting, VmWork
<1>3. Hands'
  BY <1>1, <1>2 DEF AsInv, Hands
<1>4. Knows(t)'
  BY NamesApart DEF Knows, Resting, CtxWork, VmWork, Stream
<1>5. QED
  BY <1>3, <1>4

LEMMA VmRecordInv ==
  ASSUME AsInv, NEW t \in Threads, VmRecord(t)
  PROVE  AsInv'
<1>0. PICK v \in Vms, s \in Slots \ {McuAs, BringupAs} : v = th[t].who /\ s = th[t].slot
  BY WorkerFacts DEF VmRecord, VmWork
<1>1. /\ v \notin Ctxs /\ regs /\ vms[v].slot = s /\ vms[v].at = "making"
      /\ th[t].pc \in VmWork
      /\ \A u \in Threads \ {t} : th[u].who = v => th[u].pc \notin VmWork
  BY <1>0, WorkerFacts DEF VmRecord, VmWork
<1>2. th[t].root = VmRoot(v) /\ VmRoot(v) \in Roots
  BY <1>0, RootFacts DEF AsInv, Knows, VmRecord
<1>3. /\ bindings' = [bindings EXCEPT ![s].root = th[t].root]
      /\ SetVm(v, "listed", s) /\ Return(t) /\ UNCHANGED <<regs, inUse, hw, stuck, ctxs>>
  BY <1>0 DEF VmRecord
<1>4. Holding(v) /\ bindings[s] = [bound |-> TRUE, owner |-> NULL, root |-> NULL]
  BY <1>1 DEF AsInv, VmSlots, Holding, HeldRoot
<1>5. /\ bindings' \in [Slots -> Binding]
      /\ bindings'[s] = [bound |-> TRUE, owner |-> NULL, root |-> VmRoot(v)]
      /\ \A x \in Slots \ {s} : bindings'[x] = bindings[x]
  <2>1. bindings[s] \in Binding
    BY DEF AsInv, Types
  <2>2. PICK b \in Binding : /\ b = [bindings[s] EXCEPT !.root = VmRoot(v)]
                             /\ b = [bound |-> TRUE, owner |-> NULL, root |-> VmRoot(v)]
    BY <1>2, <1>4, <2>1, NewRoot
  <2>3. bindings' = [bindings EXCEPT ![s] = b]
    BY <1>2, <1>3, <2>2
  <2>4. QED
    BY <2>2, <2>3 DEF AsInv, Types
<1>6. /\ vms' \in [Vms -> [at: Places, slot: 0..NoSlot]]
      /\ vms'[v].at = "listed" /\ vms'[v].slot = s
      /\ \A w \in Vms \ {v} : vms'[w] = vms[w]
  BY <1>1, <1>3, SlotFacts DEF AsInv, Types, SetVm, Places
<1>7. th' \in [Threads -> Frame] /\ th'[t] = Resting /\ \A u \in Threads \ {t} : th'[u] = th[u]
  BY <1>3, ThreadFacts DEF AsInv
<1>8. Types' /\ Table'
  <2>1. Types'
    BY <1>3, <1>5, <1>6, <1>7 DEF AsInv, Types
  <2>2. s \in inUse
    BY <1>1, <1>4 DEF AsInv, Table
  <2>3. inUse' = inUse \cup {s}
    BY <1>3, <2>2
  <2>4. QED
    BY <1>1, <1>3, <1>5, <2>1, <2>3, BoundTable
<1>9. VmSlots' /\ Apart'
  <2>1. \A u \in Threads : th'[u].who # v =>
           \/ Working(u, th'[u].who, {"disable", "release"})
           \/ th'[u].pc \notin {"disable", "release"}
    BY <1>7 DEF Working, Resting
  <2>2. \A w \in Vms \ {v} : Holding(w) => vms[w].slot # s /\ vms[w].slot \in Slots
    BY <1>1, <1>4, HeldSlot DEF AsInv, Apart
  <2>3. QED
    BY <1>1, <1>3, <1>5, <1>6, <2>1, <2>2, OneVmFrame
<1>10. Hands' /\ Knows(t)'
  BY <1>0, <1>1, <1>6, <1>7, WorkerReturn
<1>11. \A u \in Threads \ {t} : Knows(u)'
  <2>1. \A u \in Threads \ {t} : th[u].pc \in {"bind", "bindfail"} => th[u].slot # s
    BY <1>4, <1>1, BinderFacts, AsAssumption
  <2>2. \A u \in Threads \ {t} : th[u].who = v =>
           /\ th[u].pc \notin VmWork
           /\ th[u].pc \in Stream =>
                /\ vms'[v].at \in {"listed", "going", "gone"}
                /\ vms'[v].at = "listed" => vms'[v].slot = th[u].slot
    BY <1>1 DEF AsInv, Knows
  <2>3. /\ regs' = regs /\ stuck' = stuck /\ \A u \in Threads \ {t} : th'[u] = th[u]
        /\ \A x \in Slots \ {s} : bindings'[x] = bindings[x]
        /\ \A w \in Vms \ {v} : vms'[w] = vms[w]
    BY <1>3, <1>5, <1>6, <1>7
  <2>4. QED
    BY <2>1, <2>2, <2>3, OthersKnow, Zenon
<1>12. QED
  BY <1>1, <1>3, <1>8, <1>9, <1>10, <1>11, UpIsNotDown DEF AsInv

LEMMA VmInitFailedInv ==
  ASSUME AsInv, NEW t \in Threads, VmInitFailed(t)
  PROVE  AsInv'
<1>0. PICK v \in Vms, s \in Slots \ {McuAs, BringupAs} : v = th[t].who /\ s = th[t].slot
  BY WorkerFacts DEF VmInitFailed, VmWork
<1>1. /\ v \notin Ctxs /\ regs /\ vms[v].slot = s /\ vms[v].at = "making"
      /\ th[t].pc \in VmWork
      /\ \A u \in Threads \ {t} : th[u].who = v => th[u].pc \notin VmWork
  BY <1>0, WorkerFacts DEF VmInitFailed, VmWork
<1>2. /\ Clear(s) /\ inUse' = inUse \ {s} /\ SetVm(v, "gone", NoSlot) /\ Return(t)
      /\ UNCHANGED <<regs, hw, stuck, ctxs>>
  BY <1>0 DEF VmInitFailed, VmReleaseAs
<1>3. /\ bindings' \in [Slots -> Binding] /\ bindings'[s] = Unbound
      /\ \A x \in Slots \ {s} : bindings'[x] = bindings[x]
  BY <1>1, <1>2, WriteFacts DEF AsInv
<1>4. /\ vms' \in [Vms -> [at: Places, slot: 0..NoSlot]]
      /\ vms'[v].at = "gone" /\ vms'[v].slot = NoSlot
      /\ \A w \in Vms \ {v} : vms'[w] = vms[w]
  BY <1>1, <1>2, SlotFacts DEF AsInv, Types, SetVm, Places
<1>5. th' \in [Threads -> Frame] /\ th'[t] = Resting /\ \A u \in Threads \ {t} : th'[u] = th[u]
  BY <1>2, ThreadFacts DEF AsInv
<1>6. Holding(v)
  BY <1>1 DEF Holding
<1>7. Types' /\ Table'
  <2>1. Types'
    BY <1>2, <1>3, <1>4, <1>5 DEF AsInv, Types
  <2>2. QED
    BY <1>1, <1>2, <1>3, <2>1, ClearedTable
<1>8. VmSlots' /\ Apart'
  <2>1. \A u \in Threads : th'[u].who # v =>
           \/ Working(u, th'[u].who, {"disable", "release"})
           \/ th'[u].pc \notin {"disable", "release"}
    BY <1>5 DEF Working, Resting
  <2>2. ~Holding(v)'
    BY <1>0, <1>1, <1>4, <1>5, NamesApart DEF Holding, Working, VmWork, Resting
  <2>3. \A w \in Vms \ {v} : Holding(w) => vms[w].slot # s /\ vms[w].slot \in Slots
    BY <1>1, <1>6, HeldSlot DEF AsInv, Apart
  <2>4. QED
    BY <1>1, <1>2, <1>3, <1>4, <2>1, <2>2, <2>3, OneVmFrame
<1>9. Hands' /\ Knows(t)'
  BY <1>0, <1>1, <1>4, <1>5, WorkerReturn
<1>10. \A u \in Threads \ {t} : Knows(u)'
  <2>1. \A u \in Threads \ {t} : th[u].pc \in {"bind", "bindfail"} => th[u].slot # s
    BY <1>1, <1>6, HeldSlot, BinderFacts, AsAssumption
  <2>2. \A u \in Threads \ {t} : th[u].who = v =>
           /\ th[u].pc \notin VmWork
           /\ th[u].pc \in Stream =>
                /\ vms'[v].at \in {"listed", "going", "gone"}
                /\ vms'[v].at = "listed" => vms'[v].slot = th[u].slot
    BY <1>1 DEF AsInv, Knows
  <2>3. regs' = regs /\ stuck' = stuck
    BY <1>2
  <2>4. QED
    BY <1>3, <1>4, <1>5, <2>1, <2>2, <2>3, OthersKnow, Zenon
<1>11. QED
  BY <1>1, <1>2, <1>7, <1>8, <1>9, <1>10, UpIsNotDown DEF AsInv

LEMMA VmDestroyInv ==
  ASSUME AsInv, NEW t \in Threads, NEW v \in Vms, VmDestroy(t, v)
  PROVE  AsInv'
<1> DEFINE s == vms[v].slot
<1>1. /\ th[t] = Resting /\ vms[v].at = "listed" /\ SetVm(v, "going", s)
      /\ Call(t, "disable", v, s, NULL, FALSE)
      /\ UNCHANGED <<regs, inUse, bindings, hw, stuck, ctxs>>
  BY DEF VmDestroy
<1>2. s \in Slots \ {McuAs, BringupAs} /\ s \in 0..NoSlot
  BY <1>1, SlotFacts DEF AsInv, VmSlots
<1>3. /\ vms' \in [Vms -> [at: Places, slot: 0..NoSlot]]
      /\ vms'[v].at = "going" /\ vms'[v].slot = s
      /\ \A w \in Vms \ {v} : vms'[w] = vms[w]
  BY <1>1, <1>2 DEF AsInv, Types, SetVm, Places
<1>4. /\ th' \in [Threads -> Frame] /\ th'[t].pc = "disable" /\ th'[t].who = v
      /\ th'[t].slot = s /\ \A u \in Threads \ {t} : th'[u] = th[u]
  <2>1. "disable" \in PCs
    BY DEF PCs, VmWork
  <2>2. QED
    BY <1>1, <1>2, <2>1 DEF AsInv, Types, Call, Frame
<1>5. Types' /\ Table'
  BY <1>1, <1>3, <1>4 DEF AsInv, Types, Table, NoSlotLost
<1>6. \A u \in Threads : th[u].pc \in VmWork => th[u].who # v
  BY <1>1, WorkerFacts DEF VmWork
<1>7. VmSlots' /\ Apart'
  <2>1. /\ \A w \in Vms : Holding(w)' => Holding(w)
        /\ \A w \in Vms : HeldRoot(w)' = HeldRoot(w) /\ vms'[w].slot = vms[w].slot
    BY <1>1, <1>3, <1>4 DEF Holding, Working, HeldRoot
  <2>2. VmSlots'
    BY <1>1, <1>2, <1>3, <2>1 DEF AsInv, VmSlots
  <2>3. Apart'
    BY <1>1, <2>1 DEF AsInv, Apart
  <2>4. QED
    BY <2>2, <2>3
<1>8. Hands'
  <2>1. \A w \in Vms : vms'[w].at \in {"making", "going"} => \E u \in Threads : Working(u, w, VmWork)'
    BY <1>1, <1>3, <1>4 DEF AsInv, Hands, Working, VmWork, Resting
  <2>2. th'[t].who \notin Ctxs /\ th'[t].who = v
    BY <1>4, NamesApart
  <2>3. QED
    BY <1>4, <1>6, <2>1, <2>2 DEF AsInv, Hands
<1>9. Knows(t)'
  BY <1>2, <1>3, <1>4 DEF Knows, CtxWork, VmWork, Stream
<1>10. \A u \in Threads \ {t} : Knows(u)'
  BY <1>1, <1>3, <1>4, <1>6 DEF AsInv, Knows, CtxWork, VmWork, Stream
<1>11. Down'
  BY <1>1, <1>3 DEF AsInv, Down
<1>12. QED
  BY <1>5, <1>7, <1>8, <1>9, <1>10, <1>11 DEF AsInv

LEMMA VmReleaseInv ==
  ASSUME AsInv, NEW t \in Threads, VmRelease(t)
  PROVE  AsInv'
<1>1. PICK v \in Vms, s \in Slots \ {McuAs, BringupAs} :
        v = th[t].who /\ s = th[t].slot /\ vms[v].slot = s /\ vms[v].at = "going"
  BY WorkerFacts DEF VmRelease, VmWork
<1>2. /\ th[t].pc = "release" /\ Clear(s) /\ inUse' = inUse \ {s} /\ Goto(t, "freepages")
      /\ UNCHANGED <<regs, hw, stuck, ctxs, vms>>
  BY <1>1 DEF VmRelease, VmReleaseAs
<1>3. /\ bindings' \in [Slots -> Binding] /\ bindings'[s] = Unbound
      /\ \A x \in Slots \ {s} : bindings'[x] = bindings[x]
  BY <1>1, <1>2, WriteFacts DEF AsInv
<1>4. /\ th' \in [Threads -> Frame] /\ th'[t].pc = "freepages" /\ th'[t].who = v
      /\ th'[t].slot = s /\ \A u \in Threads \ {t} : th'[u] = th[u]
  <2>1. "freepages" \in PCs
    BY DEF PCs, VmWork
  <2>2. QED
    BY <1>1, <1>2, <2>1, ThreadFacts DEF AsInv
<1>5. Holding(v)
  BY <1>1, <1>2 DEF Holding, Working
<1>6. Types' /\ Table'
  <2>1. Types'
    BY <1>2, <1>3, <1>4 DEF AsInv, Types
  <2>2. QED
    BY <1>1, <1>2, <1>3, <2>1, ClearedTable
<1>7. VmSlots' /\ Apart'
  <2>1. \A w \in Vms \ {v} : Holding(w)' => Holding(w)
    BY <1>2, <1>4 DEF Holding, Working
  <2>2. ~Holding(v)'
    <3>1. \A u \in Threads \ {t} : th[u].who = v => th[u].pc \notin VmWork
      BY <1>1, <1>2, WorkerFacts DEF VmWork
    <3>2. QED
      BY <1>1, <1>2, <1>4, <3>1 DEF Holding, Working, VmWork
  <2>3. \A w \in Vms \ {v} : regs /\ Holding(w) => vms[w].slot # s
    BY <1>1, <1>5 DEF AsInv, Apart
  <2>4. \A w \in Vms : regs /\ Holding(w)' => Holding(w) /\ vms[w].slot # s
    BY <2>1, <2>2, <2>3
  <2>5. QED
    BY <1>2, <1>3, <2>4, HeldFrame
<1>8. Hands'
  <2>1. "freepages" \in VmWork /\ th[t].pc \in VmWork
    BY <1>2 DEF VmWork
  <2>2. QED
    BY <1>1, <1>2, <1>4, <2>1, HandsFrame
<1>9. Knows(t)'
  BY <1>1, <1>2, <1>4 DEF Knows, CtxWork, VmWork, Stream
<1>10. \A u \in Threads \ {t} : Knows(u)'
  <2>1. \A u \in Threads \ {t} : th[u].pc \in {"bind", "bindfail"} => th[u].slot # s
    BY <1>1, <1>5, HeldSlot, BinderFacts, AsAssumption
  <2>2. QED
    BY <1>2, <1>3, <1>4, <2>1, BindersKnow
<1>11. Down'
  BY <1>2 DEF AsInv, Down
<1>12. QED
  BY <1>6, <1>7, <1>8, <1>9, <1>10, <1>11 DEF AsInv

LEMMA VmFreePagesInv ==
  ASSUME AsInv, NEW t \in Threads, VmFreePages(t)
  PROVE  AsInv'
<1>1. PICK v \in Vms : v = th[t].who /\ vms[v].at = "going"
  BY WorkerFacts DEF VmFreePages, VmWork
<1>2. /\ th[t].pc = "freepages" /\ th[t].pc \in VmWork /\ SetVm(v, "gone", NoSlot) /\ Return(t)
      /\ UNCHANGED <<regs, inUse, bindings, hw, stuck, ctxs>>
  BY <1>1 DEF VmFreePages, VmWork
<1>3. /\ vms' \in [Vms -> [at: Places, slot: 0..NoSlot]]
      /\ vms'[v].at = "gone" /\ vms'[v].slot = NoSlot
      /\ \A w \in Vms \ {v} : vms'[w] = vms[w]
  BY <1>2, SlotFacts DEF AsInv, Types, SetVm, Places
<1>4. th' \in [Threads -> Frame] /\ th'[t] = Resting /\ \A u \in Threads \ {t} : th'[u] = th[u]
  BY <1>2, ThreadFacts DEF AsInv
<1>5. Types' /\ Table'
  BY <1>2, <1>3, <1>4 DEF AsInv, Types, Table, NoSlotLost
<1>6. \A u \in Threads \ {t} : th[u].who = v => th[u].pc \notin VmWork
  BY <1>1, <1>2, WorkerFacts
<1>7. VmSlots' /\ Apart'
  <2>1. \A w \in Vms \ {v} : (Holding(w)' => Holding(w)) /\ HeldRoot(w)' = HeldRoot(w)
    BY <1>3, <1>4 DEF Holding, Working, HeldRoot, Resting
  <2>2. ~Holding(v)'
    BY <1>3, <1>4, <1>6 DEF Holding, Working, VmWork, Resting
  <2>3. VmSlots'
    BY <1>2, <1>3, <2>1, <2>2 DEF AsInv, VmSlots
  <2>4. Apart'
    BY <1>2, <1>3, <2>1, <2>2 DEF AsInv, Apart
  <2>5. QED
    BY <2>3, <2>4
<1>8. Hands' /\ Knows(t)'
  BY <1>1, <1>2, <1>3, <1>4, WorkerReturn
<1>9. \A u \in Threads \ {t} : Knows(u)'
  BY <1>2, <1>3, <1>4, <1>6 DEF AsInv, Types, Knows, CtxWork, VmWork, Stream
<1>10. Down'
  BY <1>2, <1>3 DEF AsInv, Down
<1>11. QED
  BY <1>5, <1>7, <1>8, <1>9, <1>10 DEF AsInv

LEMMA StickInv ==
  ASSUME AsInv, NEW s \in Slots, Stick(s)
  PROVE  AsInv'
<1> USE DEF Stick
<1>1. VmSlots' /\ Apart'
  BY HoldingFrame DEF Working, Holding
<1>2. Types' /\ Table'
  BY DEF AsInv, Types, Table, NoSlotLost
<1>3. Hands' /\ Down' /\ \A u \in Threads : Knows(u)'
  BY DEF AsInv, Hands, Working, Down, Knows
<1>4. QED
  BY <1>1, <1>2, <1>3 DEF AsInv

LEMMA MmuTeardownInv ==
  ASSUME AsInv, MmuTeardown
  PROVE  AsInv'
<1>1. /\ regs /\ ~regs' /\ \A t \in Threads : th[t] = Resting
      /\ UNCHANGED <<stuck, ctxs, vms, th>>
  BY DEF MmuTeardown
<1>2. \A s \in Slots : ~bindings[s].bound => bindings[s] = Unbound
  BY DEF AsInv, Table
<1>3. \A s \in Slots : bindings'[s] = Unbound
  BY <1>2 DEF AsInv, Table, MmuTeardown, Leaked
<1>4. /\ inUse' = {s \in inUse : ~bindings[s].bound}
      /\ {McuAs, BringupAs} \subseteq inUse'
  <2>1. \A s \in {McuAs, BringupAs} : s \in inUse /\ ~bindings[s].bound
    BY SlotFacts DEF AsInv, Table
  <2>2. QED
    BY <2>1 DEF AsInv, Types, MmuTeardown, Leaked
<1>5. Types'
  <2>1. bindings' \in [Slots -> Binding]
    <3>1. Unbound \in Binding
      BY DEF Unbound, Binding
    <3>2. bindings' = [s \in Slots |-> Unbound]
      BY <1>3 DEF MmuTeardown
    <3>3. QED
      BY <3>1, <3>2
  <2>2. hw' \in [Slots -> Roots \cup Hardware \cup {Off}]
    BY DEF AsInv, Types, MmuTeardown
  <2>3. QED
    BY <1>1, <1>4, <2>1, <2>2 DEF AsInv, Types, MmuTeardown
<1>6. Table'
  BY <1>1, <1>3, <1>4 DEF AsInv, Types, Table, NoSlotLost, Unbound
<1>7. VmSlots' /\ Apart' /\ Hands'
  BY <1>1 DEF AsInv, VmSlots, Apart, Hands, Working
<1>8. ASSUME NEW t \in Threads PROVE Knows(t)'
  <2>1. th'[t] = Resting
    BY <1>1
  <2>2. QED
    BY <2>1, NamesApart DEF Knows, Resting, CtxWork, VmWork, Stream
<1>9. Down'
  <2> SUFFICES ASSUME NEW v \in Vms, vms[v].at \in {"listed", "going"}
               PROVE  hw'[vms[v].slot] = Off \/ vms[v].slot \in stuck
    BY <1>1 DEF Down
  <2>1. vms[v].at = "listed"
    BY <1>1 DEF AsInv, Hands, Working, Resting, VmWork
  <2>2. vms[v].slot \in Leaked
    BY <1>1, <2>1, HeldSlot DEF Holding, Leaked
  <2>3. QED
    BY <2>2 DEF MmuTeardown, Accepts, Leaked
<1>10. QED
  BY <1>5, <1>6, <1>7, <1>8, <1>9 DEF AsInv

-----------------------------------------------------------------------------
LEMMA InitInv == Init => AsInv
<1> SUFFICES ASSUME Init PROVE AsInv
  OBVIOUS
<1> USE DEF Init
<1>1. Types
  BY SlotFacts DEF Types, Binding, Unbound, Frame, Resting, PCs, Places, Hardware
<1>2. Table
  BY SlotFacts DEF Table, NoSlotLost, Unbound
<1>3. VmSlots /\ Apart
  BY DEF VmSlots, Apart, Holding, Working, Resting
<1>4. Hands /\ Down
  BY NamesApart DEF Hands, Working, Down, Resting, VmWork
<1>5. \A t \in Threads : Knows(t)
  BY NamesApart DEF Knows, Resting, CtxWork, VmWork, Stream
<1>6. QED
  BY <1>1, <1>2, <1>3, <1>4, <1>5 DEF AsInv

LEMMA NextInv ==
  ASSUME AsInv, [Next]_vars
  PROVE  AsInv'
<1>1. CASE UNCHANGED vars
  <2>1. VmSlots' /\ Apart'
    BY <1>1, HoldingFrame DEF Working, Holding, vars
  <2>2. Types' /\ Table'
    BY <1>1 DEF AsInv, Types, Table, NoSlotLost, vars
  <2>3. Hands' /\ Down' /\ \A u \in Threads : Knows(u)'
    BY <1>1 DEF AsInv, Hands, Working, Down, Knows, vars
  <2>4. QED
    BY <2>1, <2>2, <2>3 DEF AsInv
<1>2. CASE \E c \in Ctxs : CreateContext(c)
  BY <1>2, CreateContextInv
<1>3. CASE \E t \in Threads, c \in Ctxs :
             \/ \E k \in Versions : BindContextRootPt(t, c, k)
             \/ UnbindRoot(t, c)
             \/ DestroyContext(t, c)
             \/ \E v \in Vms : SubmitCommandVirtual(t, c, v)
  BY <1>3, BindContextRootPtInv, UnbindRootInv, DestroyContextInv, SubmitCommandVirtualInv
<1>4. CASE \E t \in Threads, v \in Vms :
             VmPickAs(t, v) \/ VmDestroy(t, v) \/ GroupSubmit(t, v)
  BY <1>4, VmPickAsInv, VmDestroyInv, GroupSubmitInv
<1>5. CASE \E t \in Threads :
             \/ BindEnable(t) \/ BindFailed(t) \/ UnbindDisable(t)
             \/ VmEnable(t) \/ VmRecord(t) \/ VmInitFailed(t)
             \/ VmDisable(t) \/ VmRelease(t) \/ VmFreePages(t)
  BY <1>5, BindEnableInv, BindFailedInv, UnbindDisableInv, VmEnableInv, VmRecordInv,
     VmInitFailedInv, VmDisableInv, VmReleaseInv, VmFreePagesInv
<1>6. CASE \E t \in Threads :
             \/ Acquire(t) \/ StreamDone(t)
             \/ RecoverRead(t) \/ RecoverDisable(t) \/ RecoverEnable(t)
  BY <1>6, AcquireInv, StreamDoneInv, RecoverReadInv, RecoverDisableInv, RecoverEnableInv
<1>7. CASE \E s \in Slots : Stick(s)
  BY <1>7, StickInv
<1>8. CASE MmuTeardown
  BY <1>8, MmuTeardownInv
<1>9. QED
  BY <1>1, <1>2, <1>3, <1>4, <1>5, <1>6, <1>7, <1>8 DEF Next

-----------------------------------------------------------------------------
(* The invariants the runs check.                                           *)

\* A VM has its slot to itself from VmPickAs to VmDestroy, and every slot in
\* use is bound or stuck, under any binds, failed binds, unbinds, recoveries
\* and a stop: SetRootPageTable, UnbindContext, VmInit and VmTeardown, which
\* share AsSlotInUseMask and AsBindings under AsSlotLock.
THEOREM SlotsSoundHolds == Spec => []SlotsSound
<1>1. AsInv => SlotsSound
  <2> SUFFICES ASSUME AsInv PROVE SlotsSound
    OBVIOUS
  <2>1. \A v \in Vms : regs /\ Alive(v) => Holding(v)
    BY DEF Alive, Holding
  <2>2. SlotExclusive
    BY <2>1, HeldSlot DEF AsInv, Apart, SlotExclusive
  <2>3. \A t \in Threads : th[t].slot \in 0..NoSlot
    BY DEF AsInv, Types, Frame
  <2>4. \A v \in Vms : vms[v].at = "listed" /\ regs => vms[v].slot \in inUse
    BY <2>1, HeldSlot DEF Alive
  <2>5. TypeOK
    BY <2>3, <2>4 DEF AsInv, Types, Binding, Places, TypeOK
  <2>6. QED
    BY <2>2, <2>5 DEF AsInv, Table, SlotsSound
<1>2. QED
  BY <1>1, InitInv, NextInv, PTL DEF Spec

\* The slot GroupSubmit and SubmitCommandVirtual read before they waited for
\* SubmitLock is, when the stream runs, still bound with the root of its VM,
\* provided the VM was not destroyed meanwhile.
THEOREM RunsInOwnVmHolds == Spec => []RunsInOwnVm
<1>1. AsInv => RunsInOwnVm
  <2> SUFFICES ASSUME AsInv, NEW t \in Threads, th[t].pc = "run", th[t].who \in Vms,
                      vms[th[t].who].at = "listed"
               PROVE  bindings[th[t].slot] = [bound |-> TRUE, owner |-> NULL,
                                              root |-> VmRoot(th[t].who)]
    BY DEF RunsInOwnVm
  <2>1. regs /\ vms[th[t].who].slot = th[t].slot
    BY DEF AsInv, Knows, Stream
  <2>2. Holding(th[t].who) /\ HeldRoot(th[t].who) = VmRoot(th[t].who)
    BY DEF Holding, HeldRoot
  <2>3. QED
    BY <2>1, <2>2 DEF AsInv, VmSlots
<1>2. QED
  BY <1>1, InitInv, NextInv, PTL DEF Spec

-----------------------------------------------------------------------------
(* Translations.                                                            *)

Taking == {"bind", "bindfail", "unbind", "make"}

\* A step of one thread about one slot leaves every other slot backed.
LEMMA Elsewhere ==
  ASSUME NEW t \in Threads, NEW s0,
         \A x \in Slots \ {s0} : hw'[x] = hw[x] /\ bindings'[x] = bindings[x],
         stuck \subseteq stuck',
         \A u \in Threads \ {t} : th'[u] = th[u],
         th[t].pc \in Taking => th[t].slot = s0,
         \A v \in Vms : vms[v].at # "gone" /\ vms[v].slot \in Slots \ {s0} =>
            /\ vms'[v].at # "gone" /\ vms'[v].slot = vms[v].slot
            /\ th'[t].who = v => th'[t].pc \notin {"release", "freepages"}
  PROVE  \A s \in Slots \ {s0} : Backed(s) => Backed(s)'
<1> SUFFICES ASSUME NEW s \in Slots \ {s0}, Backed(s)
             PROVE  Backed(s)'
  OBVIOUS
<1>1. CASE hw[s] \in {Off} \cup Hardware \/ s \in stuck
  BY <1>1 DEF Backed, Hardware
<1>2. CASE \E v \in Vms :
             /\ vms[v].at # "gone" /\ vms[v].slot = s /\ hw[s] = VmRoot(v)
             /\ \A u \in Threads : th[u].who = v => th[u].pc \notin {"release", "freepages"}
  <2>1. PICK v \in Vms :
             /\ vms[v].at # "gone" /\ vms[v].slot = s /\ hw[s] = VmRoot(v)
             /\ \A u \in Threads : th[u].who = v => th[u].pc \notin {"release", "freepages"}
    BY <1>2
  <2>2. /\ vms'[v].at # "gone" /\ vms'[v].slot = s /\ hw'[s] = VmRoot(v)
        /\ \A u \in Threads : th'[u].who = v => th'[u].pc \notin {"release", "freepages"}
    BY <2>1
  <2>3. QED
    BY <2>2 DEF Backed, VmRoot
<1>3. CASE bindings[s].owner # NULL /\ hw[s] = bindings[s].root
  BY <1>3 DEF Backed
<1>4. CASE \E u \in Threads : OnSlot(u, s, Taking)
  BY <1>4 DEF Backed, OnSlot, Taking
<1>5. QED
  BY <1>1, <1>2, <1>3, <1>4 DEF Backed, Taking

\* A slot that is off, stuck or about to be programmed needs no owner.
LEMMA BackedFacts ==
  ASSUME NEW s \in Slots
  PROVE  /\ hw'[s] = Off \/ s \in stuck' => Backed(s)'
         /\ \A t \in Threads : th'[t].slot = s /\ th'[t].pc \in Taking => Backed(s)'
         /\ bindings'[s].owner # NULL /\ hw'[s] = bindings'[s].root => Backed(s)'
  BY DEF Backed, OnSlot, Taking

LEMMA WriteAt ==
  ASSUME AsInv, NEW s \in Slots, NEW r, AsWrite(s, r)
  PROVE  /\ \A x \in Slots \ {s} : hw'[x] = hw[x]
         /\ hw'[s] = r \/ s \in stuck
  BY DEF AsInv, Types, AsWrite, Accepts

\* Nothing is taken from a VM by a step that leaves the registers alone, or
\* that writes those of a slot no listed VM holds.
LEMMA NotTaken ==
  ASSUME \A v \in Vms : vms[v].at = "listed" /\ vms'[v] = vms[v] /\ regs' =>
            hw'[vms[v].slot] = hw[vms[v].slot]
  PROVE  TakenOnlyByLateDisable
  BY DEF TakenOnlyByLateDisable

LEMMA NotStray ==
  ASSUME \A s \in Slots : Backed(s) => Backed(s)'
  PROVE  StrayOnlyByRecovery
  BY DEF StrayOnlyByRecovery

Kept == StrayOnlyByRecovery /\ TakenOnlyByLateDisable

\* Steps that change neither a register, nor a binding, nor a VM, and neither
\* begin nor end the taking or the release of a slot.
LEMMA QuietKept ==
  ASSUME UNCHANGED <<bindings, hw, stuck, vms>>,
         \A u \in Threads :
            \/ th'[u] = th[u]
            \/ th[u].pc \notin Taking /\ th'[u].pc \notin {"release", "freepages"}
  PROVE  Kept
<1>1. ASSUME NEW s \in Slots, Backed(s)
      PROVE  Backed(s)'
  BY <1>1 DEF Backed, OnSlot, Taking, VmRoot, Hardware
<1>2. QED
  BY <1>1, NotStray, NotTaken DEF Kept

\* A thread that is not taking a slot leaves, and nothing else changes.
LEMMA QuietReturn ==
  ASSUME AsInv, NEW t \in Threads, UNCHANGED <<bindings, hw, stuck, vms>>,
         th[t].pc \notin Taking, Return(t)
  PROVE  Kept
<1>1. \A u \in Threads \ {t} : th'[u] = th[u]
  BY DEF AsInv, Types, Return
<1>2. th'[t].pc \notin {"release", "freepages"}
  BY DEF AsInv, Types, Return, Resting
<1>3. \A u \in Threads :
         \/ th'[u] = th[u]
         \/ th[u].pc \notin Taking /\ th'[u].pc \notin {"release", "freepages"}
  BY <1>1, <1>2
<1>4. UNCHANGED <<bindings, hw, stuck, vms>>
  OBVIOUS
<1>5. QED
  BY <1>3, <1>4, QuietKept

LEMMA CreateContextKept ==
  ASSUME AsInv, NEW c \in Ctxs, CreateContext(c)
  PROVE  Kept
<1>1. UNCHANGED <<bindings, hw, stuck, vms, th>>
  BY DEF CreateContext
<1>2. \A u \in Threads :
         \/ th'[u] = th[u]
         \/ th[u].pc \notin Taking /\ th'[u].pc \notin {"release", "freepages"}
  BY <1>1
<1>3. QED
  BY <1>1, <1>2, QuietKept

LEMMA StreamKept ==
  ASSUME AsInv, NEW t \in Threads,
         \/ \E v \in Vms : GroupSubmit(t, v) \/ \E c \in Ctxs : SubmitCommandVirtual(t, c, v)
         \/ Acquire(t) \/ StreamDone(t) \/ RecoverRead(t)
  PROVE  Kept
<1>1. UNCHANGED <<bindings, hw, stuck, vms>> /\ th[t].pc \notin Taking
  <2>1. \/ th[t] = Resting
        \/ th[t].pc \in {"wait", "run", "rootread"}
    BY DEF GroupSubmit, SubmitCommandVirtual, Acquire, StreamDone, RecoverRead
  <2>2. th[t].pc \notin Taking
    BY <2>1 DEF Resting, Taking
  <2>3. QED
    BY <2>2 DEF GroupSubmit, SubmitCommandVirtual, Acquire, StreamDone, RecoverRead
<1>2. \A u \in Threads \ {t} : th'[u] = th[u]
  BY DEF AsInv, Types, GroupSubmit, SubmitCommandVirtual, Acquire, StreamDone, RecoverRead,
         Goto, Return, Call
<1>3. th'[t].pc \notin {"release", "freepages"}
  BY DEF AsInv, Types, Frame, GroupSubmit, SubmitCommandVirtual, Acquire, StreamDone,
         RecoverRead, Goto, Return, Call, Resting
<1>4. \A u \in Threads :
         \/ th'[u] = th[u]
         \/ th[u].pc \notin Taking /\ th'[u].pc \notin {"release", "freepages"}
  BY <1>1, <1>2, <1>3
<1>5. QED
  BY <1>1, <1>4, QuietKept

LEMMA BindContextRootPtKept ==
  ASSUME AsInv, NEW t \in Threads, NEW c \in Ctxs, NEW k \in Versions,
         BindContextRootPt(t, c, k)
  PROVE  Kept
<1>1. /\ th[t] = Resting /\ UNCHANGED <<regs, hw, stuck, vms>>
      /\ \E s \in Slots, b \in BOOLEAN :
           Bind(s, c, CtxRoot(c, k)) /\ Call(t, "bind", c, s, CtxRoot(c, k), b)
  <2> DEFINE mine == FindAsForContext(c)
             s    == IF mine # NoSlot THEN mine ELSE PickFreeAs
  <2>1. s \in Slots
    BY FindFacts, PickFacts DEF BindContextRootPt
  <2>2. QED
    BY <2>1 DEF BindContextRootPt
<1>2. PICK s \in Slots, b \in BOOLEAN :
        Bind(s, c, CtxRoot(c, k)) /\ Call(t, "bind", c, s, CtxRoot(c, k), b)
  BY <1>1
<1>3. /\ \A x \in Slots \ {s} : bindings'[x] = bindings[x]
      /\ \A u \in Threads \ {t} : th'[u] = th[u]
      /\ th'[t].pc = "bind" /\ th'[t].slot = s
  BY <1>2 DEF AsInv, Types, Bind, Call
<1>4. \A x \in Slots \ {s} : Backed(x) => Backed(x)'
  BY <1>1, <1>3, Elsewhere DEF Resting, Taking
<1>5. Backed(s)'
  BY <1>3, BackedFacts DEF Taking
<1>6. QED
  BY <1>1, <1>4, <1>5, NotStray, NotTaken DEF Kept

LEMMA BindEnableKept ==
  ASSUME AsInv, NEW t \in Threads, BindEnable(t)
  PROVE  Kept
<1>1. PICK s \in Slots : s = th[t].slot
  BY BinderFacts DEF BindEnable
<1>2. /\ regs /\ bindings[s].bound /\ bindings[s].owner \in Ctxs /\ bindings[s].owner # NULL
      /\ bindings[s].root = th[t].root
  <2>1. bindings[s] = [bound |-> TRUE, owner |-> th[t].who, root |-> th[t].root]
    BY <1>1 DEF AsInv, Knows, BindEnable
  <2>2. bindings[s].root = th[t].root
    BY <2>1
  <2>3. QED
    BY <1>1, <2>2, BinderFacts, AsAssumption DEF BindEnable
<1>3. /\ \A x \in Slots \ {s} : hw'[x] = hw[x]
      /\ hw'[s] = th[t].root \/ s \in stuck
      /\ UNCHANGED <<regs, bindings, stuck, vms>>
  BY <1>1, WriteAt DEF BindEnable, AsEnable
<1>4. (\A u \in Threads \ {t} : th'[u] = th[u]) /\ th'[t].pc \notin {"release", "freepages"}
  BY DEF AsInv, Types, BindEnable, Return, Goto, Resting, Frame
<1>5. \A x \in Slots \ {s} : Backed(x) => Backed(x)'
  BY <1>1, <1>3, <1>4, Elsewhere
<1>6. Backed(s)'
  BY <1>2, <1>3, BackedFacts
<1>7. \A v \in Vms : vms[v].at = "listed" => vms[v].slot \in Slots /\ vms[v].slot # s
  BY <1>2, HeldSlot DEF Holding
<1>8. QED
  BY <1>3, <1>5, <1>6, <1>7, NotStray, NotTaken DEF Kept

LEMMA BindFailedKept ==
  ASSUME AsInv, NEW t \in Threads, BindFailed(t)
  PROVE  Kept
<1>1. PICK s \in Slots : s = th[t].slot /\ s \in stuck
  BY BinderFacts DEF AsInv, Knows, BindFailed
<1>2. /\ \A x \in Slots \ {s} : bindings'[x] = bindings[x]
      /\ UNCHANGED <<regs, hw, stuck, vms>>
      /\ \A u \in Threads \ {t} : th'[u] = th[u]
      /\ th'[t].pc \notin {"release", "freepages"}
  BY <1>1 DEF AsInv, Types, BindFailed, Clear, Return, Resting
<1>3. \A x \in Slots \ {s} : Backed(x) => Backed(x)'
  BY <1>1, <1>2, Elsewhere
<1>4. Backed(s)'
  BY <1>1, <1>2, BackedFacts
<1>5. QED
  BY <1>2, <1>3, <1>4, NotStray, NotTaken DEF Kept

LEMMA UnbindKept ==
  ASSUME AsInv, NEW t \in Threads, NEW c \in Ctxs, UnbindRoot(t, c) \/ DestroyContext(t, c)
  PROVE  Kept
<1>1. PICK h : UnbindSlot(t, h, c)
  BY DEF UnbindRoot, DestroyContext
<1>2. th[t] = Resting /\ UNCHANGED <<hw, stuck, vms, regs>>
  BY DEF UnbindRoot, DestroyContext
<1>3. CASE FindAsForContext(h) = NoSlot
  <2>1. bindings' = bindings /\ Return(t)
    BY <1>1, <1>3 DEF UnbindSlot
  <2>2. QED
    BY <1>2, <2>1, QuietReturn DEF Resting, Taking
<1>4. CASE FindAsForContext(h) # NoSlot
  <2>1. PICK s \in Slots : s = FindAsForContext(h)
    BY <1>4, FindFacts
  <2>2. Clear(s) /\ Call(t, "unbind", c, s, NULL, FALSE)
    BY <1>1, <1>4, <2>1 DEF UnbindSlot
  <2>3. /\ \A x \in Slots \ {s} : bindings'[x] = bindings[x]
        /\ \A u \in Threads \ {t} : th'[u] = th[u]
        /\ th'[t].pc = "unbind" /\ th'[t].slot = s
    BY <2>2 DEF AsInv, Types, Clear, Call
  <2>4. \A x \in Slots \ {s} : Backed(x) => Backed(x)'
    BY <1>2, <2>3, Elsewhere DEF Resting, Taking
  <2>5. Backed(s)'
    BY <2>3, BackedFacts DEF Taking
  <2>6. QED
    BY <1>2, <2>4, <2>5, NotStray, NotTaken DEF Kept
<1>5. QED
  BY <1>3, <1>4

\* The late disable of UnbindContext: the one step of a context that may take
\* a translation away from the VM that got the slot.
LEMMA UnbindDisableKept ==
  ASSUME AsInv, NEW t \in Threads, UnbindDisable(t)
  PROVE  Kept
<1>1. PICK s \in Slots : s = th[t].slot /\ regs /\ th[t].pc = "unbind"
  BY DEF AsInv, Knows, UnbindDisable
<1>2. /\ \A x \in Slots \ {s} : hw'[x] = hw[x]
      /\ hw'[s] = Off \/ s \in stuck
      /\ UNCHANGED <<regs, bindings, stuck, vms>>
  BY <1>1, WriteAt DEF UnbindDisable, AsDisable
<1>3. (\A u \in Threads \ {t} : th'[u] = th[u]) /\ th'[t] = Resting
  BY DEF AsInv, Types, UnbindDisable, Return
<1>4. \A x \in Slots \ {s} : Backed(x) => Backed(x)'
  BY <1>1, <1>2, <1>3, Elsewhere DEF Resting
<1>5. Backed(s)'
  BY <1>2, BackedFacts
<1>6. OnSlot(t, s, {"unbind", "redisable", "reenable"}) /\ Moved(t)
  BY <1>1, <1>3 DEF OnSlot, Moved, Resting
<1>7. TakenOnlyByLateDisable
  BY <1>2, <1>6 DEF AsInv, VmSlots, TakenOnlyByLateDisable
<1>8. QED
  BY <1>4, <1>5, <1>7, NotStray DEF Kept

LEMMA VmPickAsKept ==
  ASSUME AsInv, NEW t \in Threads, NEW v \in Vms, VmPickAs(t, v)
  PROVE  Kept
<1>1. PICK s \in Slots : s = PickFreeAs
  BY PickFacts DEF VmPickAs
<1>2. /\ th[t] = Resting /\ UNCHANGED <<regs, hw, stuck>> /\ vms[v].slot \notin Slots
      /\ \A x \in Slots \ {s} : bindings'[x] = bindings[x]
      /\ \A w \in Vms \ {v} : vms'[w] = vms[w]
      /\ \A u \in Threads \ {t} : th'[u] = th[u]
      /\ th'[t].pc = "make" /\ th'[t].slot = s
  BY <1>1, SlotFacts DEF AsInv, Types, VmSlots, VmPickAs, Bind, SetVm, Call
<1>3. \A x \in Slots \ {s} : Backed(x) => Backed(x)'
  BY <1>2, Elsewhere DEF Resting, Taking
<1>4. Backed(s)'
  BY <1>2, BackedFacts DEF Taking
<1>5. QED
  BY <1>2, <1>3, <1>4, NotStray, NotTaken DEF Kept

LEMMA VmEnableKept ==
  ASSUME AsInv, NEW t \in Threads, VmEnable(t)
  PROVE  Kept
<1>1. PICK v \in Vms, s \in Slots :
        /\ v = th[t].who /\ s = th[t].slot /\ vms[v].slot = s /\ vms[v].at = "making" /\ regs
        /\ \A u \in Threads \ {t} : th[u].who = v => th[u].pc \notin VmWork
  BY WorkerFacts DEF VmEnable, VmWork
<1>2. th[t].root = VmRoot(v)
  BY <1>1 DEF AsInv, Knows, VmEnable
<1>3. /\ \A x \in Slots \ {s} : hw'[x] = hw[x]
      /\ hw'[s] = VmRoot(v) \/ s \in stuck
      /\ UNCHANGED <<regs, bindings, stuck, vms>>
  BY <1>1, <1>2, WriteAt DEF VmEnable, AsEnable
<1>4. (\A u \in Threads \ {t} : th'[u] = th[u]) /\ th'[t].pc \in {"record", "makefail"}
  BY DEF AsInv, Types, VmEnable, Goto, Frame
<1>5. \A x \in Slots \ {s} : Backed(x) => Backed(x)'
  BY <1>1, <1>3, <1>4, Elsewhere
<1>6. Backed(s)'
  <2>1. \A u \in Threads : th'[u].who = v => th'[u].pc \notin {"release", "freepages"}
    BY <1>1, <1>4 DEF VmWork
  <2>2. QED
    BY <1>1, <1>3, <2>1 DEF Backed, VmRoot
<1>7. \A w \in Vms : vms[w].at = "listed" => vms[w].slot \in Slots /\ vms[w].slot # s
  BY <1>1 DEF AsInv, VmSlots, Apart, Holding
<1>8. QED
  BY <1>3, <1>5, <1>6, <1>7, NotStray, NotTaken DEF Kept

\* VmRecord, VmDestroy, VmRelease and VmFreePages touch no register: the VM
\* stays behind its slot until the slot is off, and never was one after.
LEMMA VmRecordKept ==
  ASSUME AsInv, NEW t \in Threads, VmRecord(t)
  PROVE  Kept
<1>1. PICK v \in Vms, s \in Slots :
        v = th[t].who /\ s = th[t].slot /\ vms[v].slot = s /\ vms[v].at = "making" /\ regs
  BY WorkerFacts DEF VmRecord, VmWork
<1>2. /\ UNCHANGED <<regs, hw, stuck>> /\ th[t].pc \notin Taking
      /\ \A x \in Slots \ {s} : bindings'[x] = bindings[x]
      /\ vms'[v].at = "listed" /\ vms'[v].slot = s
      /\ \A w \in Vms \ {v} : vms'[w] = vms[w]
      /\ \A u \in Threads \ {t} : th'[u] = th[u]
      /\ th'[t].pc \notin {"release", "freepages"}
  BY <1>1 DEF AsInv, Types, VmRecord, SetVm, Return, Resting, Taking
<1>3. \A x \in Slots \ {s} : Backed(x) => Backed(x)'
  BY <1>1, <1>2, Elsewhere
<1>4. bindings[s].owner = NULL
  BY <1>1, HeldSlot DEF Holding
<1>5. Backed(s) => Backed(s)'
  <2>1. CASE hw[s] \in {Off} \cup Hardware \/ s \in stuck
    BY <1>2, <2>1 DEF Backed, Hardware
  <2>2. CASE \E w \in Vms :
             /\ vms[w].at # "gone" /\ vms[w].slot = s /\ hw[s] = VmRoot(w)
             /\ \A u \in Threads : th[u].who = w => th[u].pc \notin {"release", "freepages"}
    <3>1. PICK w \in Vms :
             /\ vms[w].at # "gone" /\ vms[w].slot = s /\ hw[s] = VmRoot(w)
             /\ \A u \in Threads : th[u].who = w => th[u].pc \notin {"release", "freepages"}
      BY <2>2
    <3>2. /\ vms'[w].at # "gone" /\ vms'[w].slot = s /\ hw'[s] = VmRoot(w)
          /\ \A u \in Threads : th'[u].who = w => th'[u].pc \notin {"release", "freepages"}
      BY <1>2, <3>1
    <3>3. QED
      BY <3>2 DEF Backed, VmRoot
  <2>3. CASE \E u \in Threads : OnSlot(u, s, Taking)
    BY <1>2, <2>3, BackedFacts DEF OnSlot
  <2>4. QED
    BY <1>4, <2>1, <2>2, <2>3 DEF Backed, Taking
<1>6. QED
  BY <1>2, <1>3, <1>5, NotStray, NotTaken DEF Kept

LEMMA VmInitFailedKept ==
  ASSUME AsInv, NEW t \in Threads, VmInitFailed(t)
  PROVE  Kept
<1>1. PICK v \in Vms, s \in Slots :
        v = th[t].who /\ s = th[t].slot /\ vms[v].slot = s /\ vms[v].at = "making"
  BY WorkerFacts DEF VmInitFailed, VmWork
<1>2. s \in stuck
  BY <1>1 DEF AsInv, Knows, VmInitFailed
<1>3. /\ UNCHANGED <<regs, hw, stuck>> /\ th[t].pc \notin Taking
      /\ \A x \in Slots \ {s} : bindings'[x] = bindings[x]
      /\ vms'[v].at = "gone"
      /\ \A w \in Vms \ {v} : vms'[w] = vms[w]
      /\ \A u \in Threads \ {t} : th'[u] = th[u]
      /\ th'[t].pc \notin {"release", "freepages"}
  BY <1>1 DEF AsInv, Types, VmInitFailed, VmReleaseAs, Clear, SetVm, Return, Resting, Taking
<1>4. \A x \in Slots \ {s} : Backed(x) => Backed(x)'
  BY <1>1, <1>3, Elsewhere
<1>5. Backed(s)'
  BY <1>2, <1>3, BackedFacts
<1>6. QED
  BY <1>3, <1>4, <1>5, NotStray, NotTaken DEF Kept

LEMMA VmDestroyKept ==
  ASSUME AsInv, NEW t \in Threads, NEW v \in Vms, VmDestroy(t, v)
  PROVE  Kept
<1>1. /\ th[t] = Resting /\ UNCHANGED <<regs, bindings, hw, stuck>>
      /\ vms'[v].at = "going" /\ vms'[v].slot = vms[v].slot
      /\ \A w \in Vms \ {v} : vms'[w] = vms[w]
      /\ \A u \in Threads \ {t} : th'[u] = th[u]
      /\ th'[t].pc = "disable"
  BY DEF AsInv, Types, VmDestroy, SetVm, Call
<1>2. \A x \in Slots \ {NoSlot} : Backed(x) => Backed(x)'
  BY <1>1, Elsewhere DEF Resting, Taking
<1>3. QED
  BY <1>1, <1>2, SlotFacts, NotStray, NotTaken DEF Kept

LEMMA VmDisableKept ==
  ASSUME AsInv, NEW t \in Threads, VmDisable(t)
  PROVE  Kept
<1>1. PICK v \in Vms, s \in Slots :
        v = th[t].who /\ s = th[t].slot /\ vms[v].slot = s /\ vms[v].at = "going"
  BY WorkerFacts DEF VmDisable, VmWork
<1>2. /\ UNCHANGED <<regs, bindings, stuck, vms>>
      /\ \A u \in Threads \ {t} : th'[u] = th[u]
      /\ th'[t].who = v /\ th[t].pc = "disable"
  BY <1>1 DEF AsInv, Types, VmDisable, Goto, Frame
<1>3. \A x \in Slots \ {s} : hw'[x] = hw[x]
  BY <1>1, WriteAt DEF VmDisable, AsDisable
<1>4. hw'[s] = Off \/ s \in stuck
  BY <1>1, WriteAt DEF AsInv, Down, VmDisable, AsDisable
<1>5. \A x \in Slots \ {s} : Backed(x) => Backed(x)'
  BY <1>1, <1>2, <1>3, Elsewhere DEF Taking
<1>6. Backed(s)'
  BY <1>2, <1>4, BackedFacts
<1>7. \A w \in Vms : vms[w].at = "listed" /\ regs => vms[w].slot \in Slots /\ vms[w].slot # s
  BY <1>1, <1>2 DEF AsInv, VmSlots, Apart, Holding, Working
<1>8. QED
  BY <1>2, <1>3, <1>5, <1>6, <1>7, NotStray, NotTaken DEF Kept

LEMMA VmReleaseKept ==
  ASSUME AsInv, NEW t \in Threads, VmRelease(t)
  PROVE  Kept
<1>1. PICK v \in Vms, s \in Slots :
        v = th[t].who /\ s = th[t].slot /\ vms[v].slot = s /\ vms[v].at = "going"
  BY WorkerFacts DEF VmRelease, VmWork
<1>2. /\ UNCHANGED <<regs, hw, stuck, vms>> /\ th[t].pc = "release"
      /\ \A x \in Slots \ {s} : bindings'[x] = bindings[x]
      /\ \A u \in Threads \ {t} : th'[u] = th[u]
      /\ th'[t].who = v /\ th'[t].pc = "freepages"
  BY <1>1 DEF AsInv, Types, VmRelease, VmReleaseAs, Clear, Goto, Frame
<1>3. \A x \in Slots \ {s} : Backed(x) => Backed(x)'
  BY <1>1, <1>2, Elsewhere DEF Taking
<1>4. bindings[s].owner = NULL
  <2>1. CASE regs
    BY <1>1, <1>2, <2>1, HeldSlot DEF Holding, Working
  <2>2. CASE ~regs
    BY <2>2 DEF AsInv, Table, Unbound
  <2>3. QED
    BY <2>1, <2>2
<1>5. Backed(s) => Backed(s)'
  <2>1. CASE hw[s] \in {Off} \cup Hardware \/ s \in stuck
    BY <1>2, <2>1 DEF Backed, Hardware
  <2>2. CASE \E w \in Vms :
             /\ vms[w].at # "gone" /\ vms[w].slot = s /\ hw[s] = VmRoot(w)
             /\ \A u \in Threads : th[u].who = w => th[u].pc \notin {"release", "freepages"}
    <3>1. PICK w \in Vms :
             /\ vms[w].at # "gone" /\ vms[w].slot = s /\ hw[s] = VmRoot(w)
             /\ \A u \in Threads : th[u].who = w => th[u].pc \notin {"release", "freepages"}
      BY <2>2
    <3>2. w # v
      BY <1>1, <1>2, <3>1
    <3>3. \A u \in Threads : th'[u].who = w => th'[u].pc \notin {"release", "freepages"}
      BY <1>2, <3>1, <3>2
    <3>4. QED
      BY <1>2, <3>1, <3>3 DEF Backed, VmRoot
  <2>3. CASE \E u \in Threads : OnSlot(u, s, Taking)
    <3>1. PICK u \in Threads \ {t} : OnSlot(u, s, Taking)
      BY <1>2, <2>3 DEF OnSlot, Taking
    <3>2. QED
      BY <1>2, <3>1, BackedFacts DEF OnSlot
  <2>4. QED
    BY <1>4, <2>1, <2>2, <2>3 DEF Backed, Taking
<1>6. QED
  BY <1>2, <1>3, <1>5, NotStray, NotTaken DEF Kept

LEMMA VmFreePagesKept ==
  ASSUME AsInv, NEW t \in Threads, VmFreePages(t)
  PROVE  Kept
<1>1. PICK v \in Vms : v = th[t].who
  BY WorkerFacts DEF VmFreePages, VmWork
<1>2. /\ UNCHANGED <<regs, bindings, hw, stuck>> /\ th[t].pc = "freepages"
      /\ \A w \in Vms \ {v} : vms'[w] = vms[w]
      /\ \A u \in Threads \ {t} : th'[u] = th[u]
      /\ th'[t] = Resting
  BY <1>1 DEF AsInv, Types, VmFreePages, SetVm, Return
<1>3. ASSUME NEW s \in Slots, Backed(s)
      PROVE  Backed(s)'
  <2>1. CASE hw[s] \in {Off} \cup Hardware \/ s \in stuck
    BY <1>2, <2>1 DEF Backed, Hardware
  <2>2. CASE \E w \in Vms :
             /\ vms[w].at # "gone" /\ vms[w].slot = s /\ hw[s] = VmRoot(w)
             /\ \A u \in Threads : th[u].who = w => th[u].pc \notin {"release", "freepages"}
    <3>1. PICK w \in Vms :
             /\ vms[w].at # "gone" /\ vms[w].slot = s /\ hw[s] = VmRoot(w)
             /\ \A u \in Threads : th[u].who = w => th[u].pc \notin {"release", "freepages"}
      BY <2>2
    <3>2. w # v
      BY <1>1, <1>2, <3>1
    <3>3. \A u \in Threads : th'[u].who = w => th'[u].pc \notin {"release", "freepages"}
      BY <1>2, <3>1 DEF Resting
    <3>4. QED
      BY <1>2, <3>1, <3>2, <3>3 DEF Backed, VmRoot
  <2>3. CASE bindings[s].owner # NULL /\ hw[s] = bindings[s].root
    BY <1>2, <2>3, BackedFacts
  <2>4. CASE \E u \in Threads : OnSlot(u, s, Taking)
    <3>1. PICK u \in Threads \ {t} : OnSlot(u, s, Taking)
      BY <1>2, <2>4 DEF OnSlot, Taking
    <3>2. QED
      BY <1>2, <3>1, BackedFacts DEF OnSlot
  <2>5. QED
    BY <1>3, <2>1, <2>2, <2>3, <2>4 DEF Backed, Taking
<1>4. QED
  BY <1>2, <1>3, NotStray, NotTaken DEF Kept

\* The recovery of a faulted AS: its disable leaves the slot off; only its
\* enable may leave a slot that walks tables nobody owns any more.
LEMMA RecoverKept ==
  ASSUME AsInv, NEW t \in Threads, RecoverDisable(t) \/ RecoverEnable(t)
  PROVE  Kept
<1>1. PICK s \in Slots : s = th[t].slot /\ regs /\ th[t].pc \in {"redisable", "reenable"}
  BY StreamFacts DEF RecoverDisable, RecoverEnable, Stream
<1>2. (\A x \in Slots \ {s} : hw'[x] = hw[x]) /\ UNCHANGED <<regs, bindings, stuck, vms>>
  BY <1>1, WriteAt DEF RecoverDisable, RecoverEnable, AsDisable, AsEnable
<1>3. /\ \A u \in Threads \ {t} : th'[u] = th[u]
      /\ th'[t].pc \notin {"release", "freepages"} /\ th'[t] # th[t]
  BY DEF AsInv, Types, Frame, RecoverDisable, RecoverEnable, Goto, Return, Resting
<1>4. \A x \in Slots \ {s} : Backed(x) => Backed(x)'
  BY <1>1, <1>2, <1>3, Elsewhere DEF Taking
<1>5. Backed(s)' \/ OnSlot(t, s, {"reenable"})
  <2>1. CASE RecoverDisable(t)
    BY <1>1, <1>2, <2>1, WriteAt, BackedFacts DEF RecoverDisable, AsDisable
  <2>2. CASE RecoverEnable(t)
    BY <1>1, <2>2 DEF RecoverEnable, OnSlot
  <2>3. QED
    BY <2>1, <2>2
<1>6. OnSlot(t, s, {"unbind", "redisable", "reenable"}) /\ Moved(t)
  BY <1>1, <1>3 DEF OnSlot, Moved
<1>7. StrayOnlyByRecovery
  BY <1>4, <1>5, <1>6 DEF StrayOnlyByRecovery
<1>8. TakenOnlyByLateDisable
  BY <1>2, <1>6 DEF AsInv, VmSlots, TakenOnlyByLateDisable
<1>9. QED
  BY <1>7, <1>8 DEF Kept

LEMMA StickKept ==
  ASSUME AsInv, NEW s \in Slots, Stick(s)
  PROVE  Kept
<1>1. UNCHANGED <<bindings, hw, vms, th>> /\ stuck \subseteq stuck'
  BY DEF Stick
<1>2. ASSUME NEW x \in Slots, Backed(x)
      PROVE  Backed(x)'
  BY <1>1, <1>2 DEF Backed, OnSlot, VmRoot, Hardware
<1>3. QED
  BY <1>1, <1>2, NotStray, NotTaken DEF Kept

LEMMA MmuTeardownKept ==
  ASSUME AsInv, MmuTeardown
  PROVE  Kept
<1>1. /\ regs /\ ~regs' /\ stuck' = stuck
      /\ \A t \in Threads : th[t] = Resting
  BY DEF MmuTeardown
<1>2. \A s \in Leaked : hw'[s] = Off \/ s \in stuck
  BY DEF MmuTeardown, Leaked, Accepts
<1>3. ASSUME NEW s \in Slots, Backed(s)
      PROVE  Backed(s)'
  <2>1. CASE hw[s] \in {Off} \cup Hardware \/ s \in stuck
    <3>1. hw'[s] \in {Off} \cup Hardware \/ s \in stuck
      BY <2>1 DEF MmuTeardown
    <3>2. QED
      BY <1>1, <3>1 DEF Backed, Hardware
  <2>2. CASE \E w \in Vms : vms[w].at # "gone" /\ vms[w].slot = s
    <3>1. PICK w \in Vms : vms[w].at # "gone" /\ vms[w].slot = s
      BY <2>2
    <3>2. vms[w].at = "listed"
      <4>1. vms[w].at \notin {"making", "going"}
        BY <1>1 DEF AsInv, Hands, Working, Resting, VmWork
      <4>2. vms[w].at # "none"
        BY <3>1, SlotFacts DEF AsInv, VmSlots
      <4>3. QED
        BY <3>1, <4>1, <4>2 DEF AsInv, Types, Places
    <3>3. s \in Leaked
      BY <1>1, <3>1, <3>2, HeldSlot DEF Holding, Leaked
    <3>4. QED
      BY <1>1, <1>2, <3>3, BackedFacts
  <2>3. CASE bindings[s].owner # NULL
    <3>1. s \in Leaked
      BY <2>3, AsAssumption DEF AsInv, Table, Unbound, Leaked
    <3>2. QED
      BY <1>1, <1>2, <3>1, BackedFacts
  <2>4. ~\E u \in Threads : OnSlot(u, s, Taking)
    BY <1>1 DEF OnSlot, Resting, Taking
  <2>5. QED
    BY <1>3, <2>1, <2>2, <2>3, <2>4 DEF Backed, Taking
<1>4. QED
  BY <1>1, <1>3, NotStray, NotTaken DEF Kept

-----------------------------------------------------------------------------
\* No step but the re-enable of CsfRecoverFaultedAs_ leaves an AS walking page
\* tables that are freed or were taken away, and nothing but the late disable
\* of UnbindContext or such a recovery takes the translation of a listed VM.
THEOREM TranslationKeptHolds == Spec => TranslationKept
<1>1. AsInv /\ [Next]_vars => [Kept]_vars
  <2> SUFFICES ASSUME AsInv, Next
               PROVE  Kept
    BY DEF Kept
  <2>1. CASE \E c \in Ctxs : CreateContext(c)
    BY <2>1, CreateContextKept
  <2>2. CASE \E t \in Threads, c \in Ctxs :
               \/ \E k \in Versions : BindContextRootPt(t, c, k)
               \/ UnbindRoot(t, c)
               \/ DestroyContext(t, c)
               \/ \E v \in Vms : SubmitCommandVirtual(t, c, v)
    BY <2>2, BindContextRootPtKept, UnbindKept, StreamKept
  <2>3. CASE \E t \in Threads, v \in Vms :
               VmPickAs(t, v) \/ VmDestroy(t, v) \/ GroupSubmit(t, v)
    BY <2>3, VmPickAsKept, VmDestroyKept, StreamKept
  <2>4. CASE \E t \in Threads :
               \/ BindEnable(t) \/ BindFailed(t) \/ UnbindDisable(t)
               \/ VmEnable(t) \/ VmRecord(t) \/ VmInitFailed(t)
               \/ VmDisable(t) \/ VmRelease(t) \/ VmFreePages(t)
    BY <2>4, BindEnableKept, BindFailedKept, UnbindDisableKept, VmEnableKept, VmRecordKept,
       VmInitFailedKept, VmDisableKept, VmReleaseKept, VmFreePagesKept
  <2>5. CASE \E t \in Threads :
               \/ Acquire(t) \/ StreamDone(t)
               \/ RecoverRead(t) \/ RecoverDisable(t) \/ RecoverEnable(t)
    BY <2>5, StreamKept, RecoverKept
  <2>6. CASE \E s \in Slots : Stick(s)
    BY <2>6, StickKept
  <2>7. CASE MmuTeardown
    BY <2>7, MmuTeardownKept
  <2>8. QED
    BY <2>1, <2>2, <2>3, <2>4, <2>5, <2>6, <2>7 DEF Next
<1>2. AsInv /\ [Next]_vars => [StrayOnlyByRecovery /\ TakenOnlyByLateDisable]_vars
  BY <1>1 DEF Kept
<1>3. QED
  BY <1>2, InitInv, NextInv, PTL DEF Spec, TranslationKept
=============================================================================
