---------------------------- MODULE SubmitSched ----------------------------
(***************************************************************************)
(* The asynchronous submit scheduler of the miniport (KMD/WinMaliDdi.c)    *)
(* with the DPC that announces fences to dxgkrnl (KMD/WinMaliDriver.c).    *)
(*                                                                         *)
(* dxgk threads (Callers) run SubmitCommand / SubmitCommandVirtual,        *)
(* PreemptCommand and ResetEngine; the dedicated worker thread drains      *)
(* SubmitQueue; whoever completes a fence pushes it on FenceQueue and      *)
(* queues the DPC, which announces it.  One action is one critical section *)
(* or one access to a variable another thread can see.  The CSF NOP job is *)
(* the time a thread spends at "mark": its result changes nothing here.    *)
(***************************************************************************)
EXTENDS Integers, Sequences, FiniteSets

CONSTANTS
    Callers,        \* dxgk threads inside submit, preempt and reset DDIs
    Workers,        \* system threads SchedInit may create
    NoThread,       \* SubmitWorkerThread == NULL
    SubDepth,       \* WINMALI_SUBMIT_QUEUE_DEPTH (64 in the source)
    NotDepth,       \* WINMALI_FENCE_QUEUE_DEPTH (64 in the source)
    MaxFence,       \* bound: fence ids dxgk hands out
    MaxStarts,      \* bound: calls of StartDevice
    Ops,            \* the DDIs dxgk calls: "submit", "preempt", "reset", "stop"
    StartOutcomes   \* how StartDevice may end: "ok", "nothread", "orphan", "bare"

ASSUME ThreadsAssumption ==
    /\ Callers \cap Workers = {}
    /\ NoThread \notin Workers
ASSUME DepthAssumption ==
    /\ SubDepth \in Nat \ {0}
    /\ NotDepth \in Nat /\ NotDepth > 1
ASSUME BoundAssumption == MaxFence \in Nat /\ MaxStarts \in Nat

VARIABLES
    subQ,       \* SubmitQueue between Head and Tail
    notQ,       \* FenceQueue between Head and Tail
    lastDone,   \* SchedLastCompletedFence
    submitted,  \* GpuSubmittedFence
    completed,  \* GpuCompletedFence
    pc,         \* where each thread is
    item,       \* the request a thread holds: its locals or its DDI arguments
    thread,     \* SubmitWorkerThread
    stop,       \* SubmitWorkerStop
    wake,       \* SubmitWorkerWake, an auto-reset event
    dpcQueued,  \* the adapter's DPC object is in the DPC queue
    dpc,        \* where the DPC routine is
    dpcItem,    \* the entry the DPC routine took off FenceQueue
    life,       \* where StartDevice / StopDevice are
    up,         \* DxgkHandle and DxgkInterface are set
    starts,     \* calls of StartDevice so far
    next,       \* the fence id dxgk hands out next
    base,       \* the first fence id of this StartDevice..StopDevice session
    told,       \* announcements dxgk has received
    lost        \* requests that will never be announced

queues   == <<subQ, notQ>>
fences   == <<lastDone, submitted, completed>>
threads  == <<pc, item>>
control  == <<thread, stop, wake>>
dpcState == <<dpcQueued, dpc, dpcItem>>
device   == <<life, up, starts, base>>
history  == <<told, lost>>
vars == <<queues, fences, threads, control, dpcState, device, next, history>>

Threads == Callers \cup Workers

(* A request: fence id, submit or preempt marker, and for a marker the      *)
(* completed-fence boundary it was pushed with.                             *)
Entry  == [fence : 0..MaxFence, preempt : BOOLEAN, last : 0..MaxFence]
NoItem == [fence |-> 0, preempt |-> FALSE, last |-> 0]
Request(f, isPreempt) == [fence |-> f, preempt |-> isPreempt, last |-> 0]

CallerPC == {"idle", "enq", "wake", "mark", "last", "push", "kick",
             "drain0", "drain1", "rmark", "rpush"}
WorkerPC == {"none", "wait", "woken", "take", "mark", "last", "push", "kick"}
HoldPC   == {"enq", "mark", "last", "push", "rmark", "rpush"}

Goto(t, l) == pc' = [pc EXCEPT ![t] = l]
Hold(t, e) == item' = [item EXCEPT ![t] = e]

(* Head == Tail means empty, so a ring of depth d holds d - 1 entries. *)
RingFull_OneMore(q, depth) == Len(q) = depth
RingFull(q, depth) == Len(q) = depth - 1

(* The head of SubmitQueue is consumed. *)
DequeueSub_HeadStays == UNCHANGED subQ
DequeueSub == subQ' = Tail(subQ)

----------------------------------------------------------------------------
Init ==
    /\ subQ = <<>> /\ notQ = <<>>
    /\ lastDone = 0 /\ submitted = 0 /\ completed = 0
    /\ pc = [t \in Threads |-> IF t \in Workers THEN "none" ELSE "idle"]
    /\ item = [t \in Threads |-> NoItem]
    /\ thread = NoThread /\ stop = FALSE /\ wake = FALSE
    /\ dpcQueued = FALSE /\ dpc = "idle" /\ dpcItem = NoItem
    /\ life = "down" /\ up = FALSE /\ starts = 0
    /\ next = 1 /\ base = 1
    /\ told = <<>> /\ lost = {}

----------------------------------------------------------------------------
(* DDIs of the dxgk threads. *)

WorkerUsable == thread # NoThread /\ ~stop

(* A DDI of this kind begins: dxgk keeps DDIs off a device that is not      *)
(* started, and never runs one concurrently with StopDevice.                *)
Enter(c, op) == op \in Ops /\ life = "up" /\ pc[c] = "idle"

(* SubmitCommand and SubmitCommandVirtual up to the unlocked check of       *)
(* SchedEnqueue_; without a usable worker the thread completes inline.      *)
Submit(c) ==
    /\ Enter(c, "submit") /\ next <= MaxFence
    /\ next' = next + 1
    /\ submitted' = next
    /\ Hold(c, Request(next, FALSE))
    /\ Goto(c, IF WorkerUsable THEN "enq" ELSE "mark")
    /\ UNCHANGED <<queues, lastDone, completed, control, dpcState, device, history>>

(* PreemptCommand; without a usable worker it reports at once. *)
Preempt(c) ==
    /\ Enter(c, "preempt") /\ next <= MaxFence
    /\ next' = next + 1
    /\ Hold(c, Request(next, TRUE))
    /\ Goto(c, IF WorkerUsable THEN "enq" ELSE "last")
    /\ UNCHANGED <<queues, fences, control, dpcState, device, history>>

Inline(e) == IF e.preempt THEN "last" ELSE "mark"

(* The critical section of SchedEnqueue_ ... *)
EnqueueOk_AtHead(c) ==
    /\ pc[c] = "enq" /\ ~RingFull(subQ, SubDepth)
    /\ subQ' = <<item[c]>> \o subQ
    /\ Hold(c, NoItem)
    /\ Goto(c, "wake")
    /\ UNCHANGED <<notQ, fences, control, dpcState, device, next, history>>
EnqueueOk(c) ==
    /\ pc[c] = "enq" /\ ~RingFull(subQ, SubDepth)
    /\ subQ' = Append(subQ, item[c])
    /\ Hold(c, NoItem)
    /\ Goto(c, "wake")
    /\ UNCHANGED <<notQ, fences, control, dpcState, device, next, history>>

(* ... where a full ring sends the caller down the inline path. *)
EnqueueFull_GivesUp(c) ==
    /\ pc[c] = "enq" /\ RingFull(subQ, SubDepth)
    /\ Hold(c, NoItem)
    /\ Goto(c, "idle")
    /\ UNCHANGED <<queues, fences, control, dpcState, device, next, history>>
EnqueueFull(c) ==
    /\ pc[c] = "enq" /\ RingFull(subQ, SubDepth)
    /\ Goto(c, Inline(item[c]))
    /\ UNCHANGED <<queues, fences, item, control, dpcState, device, next, history>>

(* KeSetEvent after the lock is released. *)
Signal(c) ==
    /\ pc[c] = "wake"
    /\ wake' = TRUE
    /\ Goto(c, "idle")
    /\ UNCHANGED <<queues, fences, item, thread, stop, dpcState, device, next, history>>

Reset(c) ==
    /\ Enter(c, "reset")
    /\ Goto(c, "drain0")
    /\ UNCHANGED <<queues, fences, item, control, dpcState, device, next, history>>

(* A round of ResetEngine's drain loop drops a preempt marker ... *)
DrainMarker_AnyEntry(c) ==
    /\ pc[c] \in {"drain0", "drain1"} /\ subQ # <<>>
    /\ DequeueSub
    /\ lost' = lost \cup {Head(subQ)}
    /\ UNCHANGED <<notQ, fences, threads, control, dpcState, device, next, told>>
DrainMarker(c) ==
    /\ pc[c] \in {"drain0", "drain1"} /\ subQ # <<>> /\ Head(subQ).preempt
    /\ DequeueSub
    /\ lost' = lost \cup {Head(subQ)}
    /\ UNCHANGED <<notQ, fences, threads, control, dpcState, device, next, told>>

(* ... takes a submit to completion ... *)
DrainSubmit(c) ==
    /\ pc[c] \in {"drain0", "drain1"} /\ subQ # <<>> /\ ~Head(subQ).preempt
    /\ DequeueSub
    /\ Hold(c, Head(subQ))
    /\ Goto(c, "rmark")
    /\ UNCHANGED <<notQ, fences, control, dpcState, device, next, history>>

(* ... or, on an empty ring, ends the loop, with a DPC only if a submit was *)
(* completed.                                                               *)
DrainDone(c) ==
    /\ pc[c] \in {"drain0", "drain1"} /\ subQ = <<>>
    /\ Goto(c, IF pc[c] = "drain1" THEN "kick" ELSE "idle")
    /\ UNCHANGED <<queues, fences, item, control, dpcState, device, next, history>>

----------------------------------------------------------------------------
(* The completion steps worker, inline callers and ResetEngine share. *)

(* The NOP job is over (or failed, or was not run) and                      *)
(* SchedLastCompletedFence takes the fence.                                 *)
Mark(t) ==
    /\ pc[t] \in {"mark", "rmark"}
    /\ lastDone' = item[t].fence
    /\ Goto(t, IF pc[t] = "mark" THEN "push" ELSE "rpush")
    /\ UNCHANGED <<queues, submitted, completed, item, control, dpcState, device, next, history>>

(* A preempt marker takes SchedLastCompletedFence as its boundary. *)
ReadLast_Submitted(t) ==
    /\ pc[t] = "last"
    /\ Hold(t, [item[t] EXCEPT !.last = submitted])
    /\ Goto(t, "push")
    /\ UNCHANGED <<queues, fences, control, dpcState, device, next, history>>
ReadLast(t) ==
    /\ pc[t] = "last"
    /\ Hold(t, [item[t] EXCEPT !.last = lastDone])
    /\ Goto(t, "push")
    /\ UNCHANGED <<queues, fences, control, dpcState, device, next, history>>

(* SchedPushFence_: a full ring loses its oldest entry. *)
PushFence(e) ==
    \/ /\ ~RingFull(notQ, NotDepth)
       /\ notQ' = Append(notQ, e)
       /\ UNCHANGED lost
    \/ /\ RingFull(notQ, NotDepth)
       /\ notQ' = Append(Tail(notQ), e)
       /\ lost' = lost \cup {Head(notQ)}

Push(t) ==
    /\ pc[t] \in {"push", "rpush"}
    /\ PushFence(item[t])
    /\ Hold(t, NoItem)
    /\ Goto(t, IF pc[t] = "push" THEN "kick" ELSE "drain1")
    /\ UNCHANGED <<subQ, fences, control, dpcState, device, next, told>>

(* DxgkCbQueueDpc, if there still is a device to call it for. *)
Kick_WaitsAgain(t) ==
    /\ pc[t] = "kick"
    /\ dpcQueued' = (dpcQueued \/ up)
    /\ Goto(t, IF t \in Workers THEN "wait" ELSE "idle")
    /\ UNCHANGED <<queues, fences, item, control, dpc, dpcItem, device, next, history>>
Kick(t) ==
    /\ pc[t] = "kick"
    /\ dpcQueued' = (dpcQueued \/ up)
    /\ Goto(t, IF t \in Workers THEN "take" ELSE "idle")
    /\ UNCHANGED <<queues, fences, item, control, dpc, dpcItem, device, next, history>>

----------------------------------------------------------------------------
(* The worker thread. *)

Wait(w) ==
    /\ pc[w] = "wait" /\ wake
    /\ wake' = FALSE
    /\ Goto(w, "woken")
    /\ UNCHANGED <<queues, fences, item, thread, stop, dpcState, device, next, history>>

CheckStop(w) ==
    /\ pc[w] = "woken"
    /\ Goto(w, IF stop THEN "none" ELSE "take")
    /\ UNCHANGED <<queues, fences, item, control, dpcState, device, next, history>>

TakeNext(w) ==
    /\ pc[w] = "take" /\ subQ # <<>>
    /\ DequeueSub
    /\ Hold(w, Head(subQ))
    /\ Goto(w, Inline(Head(subQ)))
    /\ UNCHANGED <<notQ, fences, control, dpcState, device, next, history>>

TakeNone(w) ==
    /\ pc[w] = "take" /\ subQ = <<>>
    /\ Goto(w, "wait")
    /\ UNCHANGED <<queues, fences, item, control, dpcState, device, next, history>>

----------------------------------------------------------------------------
(* The DPC routine. *)

DpcStart ==
    /\ dpcQueued /\ dpc = "idle"
    /\ dpcQueued' = FALSE
    /\ dpc' = IF up THEN "drain" ELSE "idle"
    /\ UNCHANGED <<queues, fences, threads, control, dpcItem, device, next, history>>

(* Under FenceQueueLock: take the oldest entry ... *)
DpcTake ==
    /\ dpc = "drain" /\ notQ # <<>>
    /\ notQ' = Tail(notQ)
    /\ dpcItem' = Head(notQ)
    /\ dpc' = "notify"
    /\ UNCHANGED <<subQ, fences, threads, control, dpcQueued, device, next, history>>

(* ... or leave with NotifyDpc. *)
DpcEnd ==
    /\ dpc = "drain" /\ notQ = <<>>
    /\ dpc' = "idle"
    /\ UNCHANGED <<queues, fences, threads, control, dpcQueued, dpcItem, device, next, history>>

(* DxgkCbNotifyInterrupt with the lock released, then GpuCompletedFence. *)
DpcNotify_OneEntry ==
    /\ dpc = "notify"
    /\ told' = Append(told, dpcItem)
    /\ completed' = IF dpcItem.preempt THEN completed ELSE dpcItem.fence
    /\ dpcItem' = NoItem
    /\ dpc' = "idle"
    /\ UNCHANGED <<queues, lastDone, submitted, threads, control, dpcQueued, device, next, lost>>
DpcNotify ==
    /\ dpc = "notify"
    /\ told' = Append(told, dpcItem)
    /\ completed' = IF dpcItem.preempt THEN completed ELSE dpcItem.fence
    /\ dpcItem' = NoItem
    /\ dpc' = "drain"
    /\ UNCHANGED <<queues, lastDone, submitted, threads, control, dpcQueued, device, next, lost>>

----------------------------------------------------------------------------
(* StartDevice and StopDevice. *)

(* SchedInit up to PsCreateSystemThread; a request left in the ring by the  *)
(* previous session is wiped with it.                                       *)
ResetRing ==
    /\ subQ' = <<>>
    /\ lost' = lost \cup {subQ[i] : i \in 1..Len(subQ)}
    /\ lastDone' = 0

(* The worker is created and referenced. *)
InitOk(w) ==
    /\ ResetRing
    /\ pc[w] = "none" /\ Goto(w, "wait")
    /\ thread' = w /\ stop' = FALSE /\ wake' = FALSE

(* PsCreateSystemThread fails. *)
InitNoThread ==
    /\ ResetRing
    /\ stop' = FALSE /\ wake' = FALSE
    /\ UNCHANGED <<pc, thread>>

(* The worker runs but ObReferenceObjectByHandle fails: it is told to stop, *)
(* and nobody will join it.                                                 *)
InitOrphan(w) ==
    /\ ResetRing
    /\ pc[w] = "none" /\ Goto(w, "wait")
    /\ stop' = TRUE /\ wake' = TRUE
    /\ UNCHANGED thread

(* An early return of StartDevice (no resources, no hardware) reports       *)
(* success without SchedInit.                                               *)
InitSkipped == UNCHANGED <<subQ, lost, lastDone, pc, thread, stop, wake>>

SchedInit(outcome) ==
    \/ outcome = "ok"       /\ \E w \in Workers : InitOk(w)
    \/ outcome = "nothread" /\ InitNoThread
    \/ outcome = "orphan"   /\ \E w \in Workers : InitOrphan(w)
    \/ outcome = "bare"     /\ InitSkipped

Start ==
    /\ life = "down" /\ starts < MaxStarts
    /\ \E outcome \in StartOutcomes : SchedInit(outcome)
    /\ life' = "up" /\ up' = TRUE
    /\ starts' = starts + 1
    /\ base' = next
    /\ UNCHANGED <<notQ, submitted, completed, item, dpcState, next, told>>

(* SchedTeardown returns at once when there is no thread to join. *)
StopBegin ==
    /\ "stop" \in Ops /\ life = "up"
    /\ \A c \in Callers : pc[c] = "idle"
    /\ IF thread = NoThread
       THEN life' = "closing" /\ UNCHANGED stop
       ELSE life' = "stopping" /\ stop' = TRUE
    /\ UNCHANGED <<queues, fences, threads, thread, wake, dpcState, up, starts, base, next, history>>

StopSignal_NoEvent ==
    /\ life = "stopping"
    /\ life' = "joining"
    /\ UNCHANGED <<queues, fences, threads, control, dpcState, up, starts, base, next, history>>
StopSignal ==
    /\ life = "stopping"
    /\ wake' = TRUE
    /\ life' = "joining"
    /\ UNCHANGED <<queues, fences, threads, thread, stop, dpcState, up, starts, base, next, history>>

(* KeWaitForSingleObject on the thread is satisfied by its exit. *)
StopJoin_NoWait ==
    /\ life = "joining"
    /\ thread' = NoThread
    /\ life' = "closing"
    /\ UNCHANGED <<queues, fences, threads, stop, wake, dpcState, up, starts, base, next, history>>
StopJoin ==
    /\ life = "joining" /\ pc[thread] = "none"
    /\ thread' = NoThread
    /\ life' = "closing"
    /\ UNCHANGED <<queues, fences, threads, stop, wake, dpcState, up, starts, base, next, history>>

(* FwTeardown and the rest of StopDevice, down to clearing DxgkHandle.      *)
(* dxgk waits for a DPC that is running; one still queued finds no handle.  *)
StopClose ==
    /\ life = "closing" /\ dpc = "idle"
    /\ up' = FALSE
    /\ life' = "down"
    /\ UNCHANGED <<queues, fences, threads, control, dpcState, starts, base, next, history>>

----------------------------------------------------------------------------
CompletionStep(t) == Mark(t) \/ ReadLast(t) \/ Push(t) \/ Kick(t)
CallerStep(c) == \/ EnqueueOk(c) \/ EnqueueFull(c) \/ Signal(c)
                 \/ DrainMarker(c) \/ DrainSubmit(c) \/ DrainDone(c)
                 \/ CompletionStep(c)
WorkerStep(w) == Wait(w) \/ CheckStop(w) \/ TakeNext(w) \/ TakeNone(w)
                 \/ CompletionStep(w)
DpcStep  == DpcStart \/ DpcTake \/ DpcEnd \/ DpcNotify
StopStep == StopSignal \/ StopJoin \/ StopClose

(* Every bound is used up and nothing is in flight: the run is over. *)
Finished ==
    /\ \/ life = "down" /\ starts = MaxStarts
       \/ life = "up" /\ next > MaxFence /\ subQ = <<>>
    /\ \A c \in Callers : pc[c] = "idle"
    /\ \A w \in Workers : pc[w] = "none" \/ (pc[w] = "wait" /\ ~wake)
    /\ dpc = "idle" /\ ~dpcQueued
    /\ UNCHANGED vars

Next ==
    \/ \E c \in Callers : Submit(c) \/ Preempt(c) \/ Reset(c) \/ CallerStep(c)
    \/ \E w \in Workers : WorkerStep(w)
    \/ DpcStep
    \/ Start \/ StopBegin \/ StopStep
    \/ Finished

Spec == Init /\ [][Next]_vars

(* Threads that are inside the driver, the DPC and a stop that has begun    *)
(* are scheduled; dxgk is free never to call again.                         *)
FairSpec ==
    /\ Spec
    /\ \A c \in Callers : WF_vars(CallerStep(c))
    /\ \A w \in Workers : WF_vars(WorkerStep(w))
    /\ WF_vars(DpcStep)
    /\ WF_vars(StopStep)

----------------------------------------------------------------------------
(* Properties. *)

(* Every variable keeps its type; in particular neither ring ever holds     *)
(* more than depth - 1 entries, whoever pushes.                             *)
TypeOK ==
    /\ subQ \in Seq(Entry) /\ Len(subQ) < SubDepth
    /\ notQ \in Seq(Entry) /\ Len(notQ) < NotDepth
    /\ lastDone \in 0..MaxFence /\ submitted \in 0..MaxFence /\ completed \in 0..MaxFence
    /\ pc \in [Threads -> CallerPC \cup WorkerPC]
    /\ \A c \in Callers : pc[c] \in CallerPC
    /\ \A w \in Workers : pc[w] \in WorkerPC
    /\ item \in [Threads -> Entry]
    /\ thread \in Workers \cup {NoThread} /\ stop \in BOOLEAN /\ wake \in BOOLEAN
    /\ dpcQueued \in BOOLEAN /\ dpc \in {"idle", "drain", "notify"} /\ dpcItem \in Entry
    /\ life \in {"down", "up", "stopping", "joining", "closing"} /\ up \in BOOLEAN
    /\ starts \in 0..MaxStarts /\ next \in 1..(MaxFence + 1) /\ base \in 1..next
    /\ told \in Seq(Entry) /\ lost \subseteq Entry

(* A thread or the DPC holds a request exactly at the steps that use it, so *)
(* what is pushed or announced is always a request dxgk made.               *)
HoldsRequest ==
    /\ \A t \in Threads : (item[t].fence # 0) = (pc[t] \in HoldPC)
    /\ (dpcItem.fence # 0) = (dpc = "notify")

Ids(E) == {e.fence : e \in E}
IdsIn(q) == {q[i].fence : i \in 1..Len(q)}
HeldIds == {item[t].fence : t \in Threads} \ {0}
InDriver == IdsIn(subQ) \cup IdsIn(notQ) \cup HeldIds \cup ({dpcItem.fence} \ {0})
DistinctIds(q) == \A i, j \in 1..Len(q) : q[i].fence = q[j].fence => i = j

(* No request is in two places: with the worker, ResetEngine, inline        *)
(* callers and the DPC all taking entries, "we never double-consume an      *)
(* entry" (Ddi.c:1127-1128), and what has been announced or given up is     *)
(* nowhere in the driver any more.                                          *)
NeverTwice ==
    /\ DistinctIds(subQ) /\ DistinctIds(notQ) /\ DistinctIds(told)
    /\ \A s, t \in Threads : item[s].fence = item[t].fence /\ item[s].fence # 0 => s = t
    /\ IdsIn(subQ) \cap IdsIn(notQ) = {}
    /\ HeldIds \cap (IdsIn(subQ) \cup IdsIn(notQ)) = {}
    /\ dpcItem.fence \notin IdsIn(subQ) \cup IdsIn(notQ) \cup HeldIds
    /\ IdsIn(told) \cap Ids(lost) = {}
    /\ InDriver \cap (IdsIn(told) \cup Ids(lost)) = {}

(* Every request dxgk made is in the driver, announced, or known to be      *)
(* lost: no path of SubmitCommand, PreemptCommand, the worker, ResetEngine  *)
(* or the DPC forgets one ("so a fence is never dropped", Ddi.c:895).       *)
AllAccounted == \A f \in 1..(next - 1) : f \in InDriver \cup IdsIn(told) \cup Ids(lost)

(* Each request dxgk made is in exactly one place: in a ring, with a        *)
(* thread or the DPC, announced, or lost in a way that is accounted for.    *)
AccountedOnce == NeverTwice /\ AllAccounted

(* A submit is lost only by overflow of FenceQueue or when SchedInit wipes  *)
(* the ring of an earlier session; ResetEngine loses preempt markers only.  *)
SubmitLostOnlyBy ==
    [][\A e \in lost' \ lost :
          \/ e.preempt
          \/ RingFull(notQ, NotDepth) /\ e = Head(notQ)
          \/ life = "down"]_vars

(* A worker that waits while requests are queued is about to be woken: the  *)
(* auto-reset event set after the lock is dropped never loses a wake-up     *)
(* against the worker finding the ring empty.                               *)
NoLostWakeup ==
    subQ # <<>> /\ thread # NoThread /\ pc[thread] = "wait"
        => wake \/ \E c \in Callers : pc[c] = "wake"

(* An entry of this session in FenceQueue always has a DPC coming that will *)
(* announce it, although the DPC is queued after the push, by another       *)
(* thread, and may be finishing its own drain loop at that moment.          *)
DpcComing ==
    up /\ (\E i \in 1..Len(notQ) : notQ[i].fence >= base)
        => \/ dpcQueued \/ dpc # "idle"
           \/ \E t \in Threads : pc[t] \in {"kick", "rmark", "rpush", "drain1"}

(* StopDevice reaches FwTeardown only with every worker out of the CSF path *)
(* ("so it can't be mid-CSF-submit while the ring/MCU goes away",           *)
(* Driver.c:268-269).                                                       *)
NoJobAfterTeardown ==
    life \in {"closing", "down"} => \A w \in Workers : pc[w] # "mark"

(* GpuCompletedFence, which QueryCurrentFence reports, never goes back      *)
(* ("Monotonic fences for submit / completion", Kmd.h:114).                 *)
CompletionInOrder == [][completed' >= completed]_vars

SubmitsInDriver ==
    {e.fence : e \in {x \in {subQ[i] : i \in 1..Len(subQ)}
                          \cup {notQ[i] : i \in 1..Len(notQ)}
                          \cup {item[t] : t \in Threads} \cup {dpcItem} :
                     x.fence # 0 /\ ~x.preempt}}

(* A DMA_PREEMPTED carries the exact boundary (Ddi.c:670-672, 1014-1018):   *)
(* no submit beyond it has been announced, and no submit up to it, or made  *)
(* before the preempt request, is still to be announced.                    *)
BoundaryExact ==
    dpc = "notify" /\ dpcItem.preempt =>
        /\ \A i \in 1..Len(told) : told[i].preempt \/ told[i].fence <= dpcItem.last
        /\ \A f \in SubmitsInDriver : f > dpcItem.last /\ f > dpcItem.fence

(* Every request of a session that is not stopped is announced, or was a    *)
(* marker superseded by a reset: "it drains in order and always completes   *)
(* each fence" (Ddi.c:1093).                                                *)
EventuallyResolved ==
    \A f \in 1..MaxFence :
        f < next ~> \/ f \in IdsIn(told) \cup Ids({e \in lost : e.preempt})
                    \/ life # "up"

(* StopDevice returns: the worker it joins leaves its loop, whatever was    *)
(* queued (the CSF job is bounded by its 500 ms timeout).                   *)
StopReturns == life = "stopping" ~> life = "down"

(* The abstract promise: each fence announced at most once. *)
Ledger == INSTANCE FenceLedger WITH
    Fence     <- 1..MaxFence,
    issued    <- 1..(next - 1),
    announced <- [i \in 1..Len(told) |-> told[i].fence],
    forsaken  <- Ids(lost)
LedgerImplemented == Ledger!LedgerSpec
============================================================================
