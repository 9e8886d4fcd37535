------------------------- MODULE SubmitSchedProofs -------------------------
(***************************************************************************)
(* Safety of the submit scheduler for every number of threads, every ring  *)
(* depth and every bound.                                                  *)
(***************************************************************************)
EXTENDS SubmitSched, TLAPS

USE DEF queues, fences, threads, control, dpcState, device, history

----------------------------------------------------------------------------
(* Requests and rings. *)

LEMMA EntryFacts ==
  /\ NoItem \in Entry
  /\ \A f \in 0..MaxFence, p \in BOOLEAN : Request(f, p) \in Entry
  /\ \A e \in Entry : e.fence \in 0..MaxFence /\ e.preempt \in BOOLEAN /\ e.last \in 0..MaxFence
  BY BoundAssumption DEF NoItem, Request, Entry

LEMMA BoundaryEntry ==
  ASSUME NEW e \in Entry, NEW f \in 0..MaxFence
  PROVE  [e EXCEPT !.last = f] \in Entry
  BY DEF Entry

LEMMA NextFence ==
  ASSUME next \in 1..(MaxFence + 1), next <= MaxFence, base \in 1..next
  PROVE  next \in 0..MaxFence /\ next + 1 \in 1..(MaxFence + 1) /\ base \in 1..(next + 1)
  BY BoundAssumption

LEMMA RingFacts ==
  ASSUME NEW S, NEW q \in Seq(S)
  PROVE  /\ Len(q) \in Nat
         /\ \A e \in S : /\ Append(q, e) \in Seq(S)
                         /\ Len(Append(q, e)) = Len(q) + 1
         /\ q # <<>> => /\ Head(q) \in S
                        /\ Tail(q) \in Seq(S)
                        /\ Len(Tail(q)) = Len(q) - 1
                        /\ Len(q) > 0
         /\ \A i \in 1..Len(q) : q[i] \in S
  OBVIOUS

----------------------------------------------------------------------------
(* Type correctness. *)

LEMMA InitTypeOK == Init => TypeOK
<1> SUFFICES ASSUME Init PROVE TypeOK
  OBVIOUS
<1> USE DEF Init
<1>1. /\ subQ \in Seq(Entry) /\ Len(subQ) < SubDepth
      /\ notQ \in Seq(Entry) /\ Len(notQ) < NotDepth
      /\ told \in Seq(Entry)
  BY DepthAssumption
<1>2. /\ lastDone \in 0..MaxFence /\ submitted \in 0..MaxFence /\ completed \in 0..MaxFence
      /\ starts \in 0..MaxStarts /\ next \in 1..(MaxFence + 1) /\ base \in 1..next
  BY BoundAssumption
<1>3. /\ pc \in [Threads -> CallerPC \cup WorkerPC]
      /\ \A c \in Callers : pc[c] \in CallerPC
      /\ \A w \in Workers : pc[w] \in WorkerPC
  BY ThreadsAssumption DEF Threads, CallerPC, WorkerPC
<1>4. item \in [Threads -> Entry] /\ dpcItem \in Entry
  BY EntryFacts
<1>5. /\ thread \in Workers \cup {NoThread} /\ stop \in BOOLEAN /\ wake \in BOOLEAN
      /\ dpcQueued \in BOOLEAN /\ dpc \in {"idle", "drain", "notify"}
      /\ life \in {"down", "up", "stopping", "joining", "closing"} /\ up \in BOOLEAN
      /\ lost \subseteq Entry
  OBVIOUS
<1>6. QED
  BY <1>1, <1>2, <1>3, <1>4, <1>5 DEF TypeOK

(* The steps by which a dxgk thread begins or continues a DDI. *)
LEMMA CallerTypeOK ==
  ASSUME TypeOK, NEW c \in Callers,
         Submit(c) \/ Preempt(c) \/ Reset(c) \/ EnqueueOk(c) \/ EnqueueFull(c) \/ Signal(c)
           \/ DrainMarker(c) \/ DrainSubmit(c) \/ DrainDone(c)
  PROVE  TypeOK'
<1> USE ThreadsAssumption, DepthAssumption, BoundAssumption, EntryFacts
    DEF TypeOK, Threads, Goto, Hold, CallerPC, WorkerPC
<1>a. /\ Len(subQ) \in Nat
      /\ Append(subQ, item[c]) \in Seq(Entry)
      /\ Len(Append(subQ, item[c])) = Len(subQ) + 1
  BY RingFacts
<1>b. subQ # <<>> => /\ Head(subQ) \in Entry
                     /\ Tail(subQ) \in Seq(Entry)
                     /\ Len(Tail(subQ)) < SubDepth
  <2>1. Len(subQ) \in Nat
    BY RingFacts
  <2>2. QED
    BY <2>1, RingFacts
<1>1. CASE Submit(c)
  <2>1. /\ next \in 0..MaxFence /\ next + 1 \in 1..(MaxFence + 1) /\ base \in 1..(next + 1)
        /\ Request(next, FALSE) \in Entry
    BY <1>1, NextFence DEF Submit
  <2>2. next' = next + 1 /\ submitted' = next /\ base' = base
    BY <1>1 DEF Submit
  <2>3. QED
    BY <1>1, <2>1, <2>2 DEF Submit
<1>2. CASE Preempt(c)
  <2>1. /\ next + 1 \in 1..(MaxFence + 1) /\ base \in 1..(next + 1)
        /\ Request(next, TRUE) \in Entry
    BY <1>2, NextFence DEF Preempt
  <2>2. next' = next + 1 /\ base' = base
    BY <1>2 DEF Preempt
  <2>3. QED
    BY <1>2, <2>1, <2>2 DEF Preempt
<1>3. CASE Reset(c)
  BY <1>3 DEF Reset, Enter
<1>4. CASE EnqueueOk(c)
  <2>1. subQ' \in Seq(Entry) /\ Len(subQ') < SubDepth
    <3>1. subQ' = Append(subQ, item[c]) /\ Len(subQ) # SubDepth - 1
      BY <1>4 DEF EnqueueOk, RingFull
    <3>2. QED
      BY <1>a, <3>1
  <2>2. QED
    BY <1>4, <2>1 DEF EnqueueOk
<1>5. CASE EnqueueFull(c)
  BY <1>5 DEF EnqueueFull, Inline
<1>6. CASE Signal(c)
  BY <1>6 DEF Signal
<1>7. CASE DrainMarker(c)
  BY <1>7, <1>b DEF DrainMarker, DequeueSub
<1>8. CASE DrainSubmit(c)
  BY <1>8, <1>b DEF DrainSubmit, DequeueSub
<1>9. CASE DrainDone(c)
  BY <1>9 DEF DrainDone
<1>10. QED
  BY <1>1, <1>2, <1>3, <1>4, <1>5, <1>6, <1>7, <1>8, <1>9

(* Completing a fence, on whichever thread. *)
LEMMA CompletionTypeOK ==
  ASSUME TypeOK, NEW t \in Threads, CompletionStep(t)
  PROVE  TypeOK'
<1> USE ThreadsAssumption, DepthAssumption, BoundAssumption, EntryFacts
    DEF TypeOK, Threads, Goto, Hold, CallerPC, WorkerPC
<1>1. CASE Mark(t)
  <2>1. /\ lastDone' \in 0..MaxFence
        /\ UNCHANGED <<subQ, notQ, submitted, completed, item, thread, stop, wake, dpcQueued,
                       dpc, dpcItem, life, up, starts, next, base, told, lost>>
    BY <1>1 DEF Mark
  <2>2. /\ pc' \in [Threads -> CallerPC \cup WorkerPC]
        /\ \A c \in Callers : pc'[c] \in CallerPC
        /\ \A w \in Workers : pc'[w] \in WorkerPC
    BY <1>1 DEF Mark
  <2>3. QED
    BY <2>1, <2>2
<1>2. CASE ReadLast(t)
  BY <1>2, BoundaryEntry DEF ReadLast
<1>3. CASE Push(t)
  <2>1. Len(notQ) \in Nat /\ item[t] \in Entry
    BY RingFacts
  <2>2. notQ' \in Seq(Entry) /\ Len(notQ') < NotDepth /\ lost' \subseteq Entry
    <3>1. CASE ~RingFull(notQ, NotDepth)
      <4>1. notQ' = Append(notQ, item[t]) /\ lost' = lost
        BY <1>3, <3>1 DEF Push, PushFence
      <4>2. Append(notQ, item[t]) \in Seq(Entry) /\ Len(Append(notQ, item[t])) = Len(notQ) + 1
        BY <2>1
      <4>3. QED
        <5>1. Len(notQ) # NotDepth - 1
          BY <3>1 DEF RingFull
        <5>2. QED
          BY <2>1, <4>1, <4>2, <5>1
    <3>2. CASE RingFull(notQ, NotDepth)
      <4>1. notQ # <<>>
        BY <3>2 DEF RingFull
      <4>2. Head(notQ) \in Entry /\ Tail(notQ) \in Seq(Entry) /\ Len(Tail(notQ)) = Len(notQ) - 1
        BY <4>1, RingFacts
      <4>3. notQ' = Append(Tail(notQ), item[t]) /\ lost' = lost \cup {Head(notQ)}
        BY <1>3, <3>2 DEF Push, PushFence
      <4>4. notQ' \in Seq(Entry) /\ Len(notQ') = Len(Tail(notQ)) + 1
        BY <2>1, <4>2, <4>3
      <4>5. QED
        BY <2>1, <4>2, <4>3, <4>4
    <3>3. QED
      BY <3>1, <3>2
  <2>3. QED
    BY <1>3, <2>2 DEF Push
<1>4. CASE Kick(t)
  BY <1>4 DEF Kick
<1>5. QED
  BY <1>1, <1>2, <1>3, <1>4 DEF CompletionStep

(* The worker's own steps. *)
LEMMA WorkerTypeOK ==
  ASSUME TypeOK, NEW w \in Workers, Wait(w) \/ CheckStop(w) \/ TakeNext(w) \/ TakeNone(w)
  PROVE  TypeOK'
<1> USE ThreadsAssumption, DepthAssumption, BoundAssumption, EntryFacts
    DEF TypeOK, Threads, Goto, Hold, CallerPC, WorkerPC
<1>1. CASE Wait(w)
  BY <1>1 DEF Wait
<1>2. CASE CheckStop(w)
  BY <1>2 DEF CheckStop
<1>3. CASE TakeNext(w)
  <2>1. Len(subQ) \in Nat
    BY RingFacts
  <2>2. Head(subQ) \in Entry /\ Tail(subQ) \in Seq(Entry) /\ Len(Tail(subQ)) < SubDepth
    BY <1>3, <2>1, RingFacts DEF TakeNext
  <2>3. QED
    BY <1>3, <2>2 DEF TakeNext, DequeueSub, Inline
<1>4. CASE TakeNone(w)
  BY <1>4 DEF TakeNone
<1>5. QED
  BY <1>1, <1>2, <1>3, <1>4

LEMMA DpcTypeOK == TypeOK /\ DpcStep => TypeOK'
<1> SUFFICES ASSUME TypeOK, DpcStep PROVE TypeOK'
  OBVIOUS
<1> USE DepthAssumption, BoundAssumption, EntryFacts DEF TypeOK
<1>1. CASE DpcStart
  BY <1>1 DEF DpcStart
<1>2. CASE DpcTake
  <2>1. Len(notQ) \in Nat
    BY RingFacts
  <2>2. Head(notQ) \in Entry /\ Tail(notQ) \in Seq(Entry) /\ Len(Tail(notQ)) < NotDepth
    BY <1>2, <2>1, RingFacts DEF DpcTake
  <2>3. QED
    BY <1>2, <2>2 DEF DpcTake
<1>3. CASE DpcEnd
  BY <1>3 DEF DpcEnd
<1>4. CASE DpcNotify
  BY <1>4, RingFacts DEF DpcNotify
<1>5. QED
  BY <1>1, <1>2, <1>3, <1>4 DEF DpcStep

(* StartDevice and StopDevice. *)
LEMMA LifeTypeOK == TypeOK /\ (Start \/ StopBegin \/ StopStep) => TypeOK'
<1> SUFFICES ASSUME TypeOK, Start \/ StopBegin \/ StopStep PROVE TypeOK'
  OBVIOUS
<1> USE ThreadsAssumption, DepthAssumption, BoundAssumption DEF TypeOK, Threads, Goto
<1>1. CASE Start
  <2>1. ResetRing => /\ subQ' \in Seq(Entry) /\ Len(subQ') < SubDepth
                     /\ lost' \subseteq Entry /\ lastDone' \in 0..MaxFence
    BY RingFacts DEF ResetRing
  <2>2. PICK outcome \in StartOutcomes : SchedInit(outcome)
    BY <1>1 DEF Start
  <2>3. \/ \E w \in Workers : InitOk(w)
        \/ InitNoThread
        \/ \E w \in Workers : InitOrphan(w)
        \/ InitSkipped
    BY <1>1, <2>2 DEF Start, SchedInit
  <2>4. /\ subQ' \in Seq(Entry) /\ Len(subQ') < SubDepth
        /\ lost' \subseteq Entry /\ lastDone' \in 0..MaxFence
    BY <2>1, <2>3 DEF InitOk, InitNoThread, InitOrphan, InitSkipped
  <2>5. /\ pc' \in [Threads -> CallerPC \cup WorkerPC]
        /\ \A c \in Callers : pc'[c] \in CallerPC
        /\ \A w \in Workers : pc'[w] \in WorkerPC
        /\ thread' \in Workers \cup {NoThread} /\ stop' \in BOOLEAN /\ wake' \in BOOLEAN
    BY <2>3 DEF InitOk, InitNoThread, InitOrphan, InitSkipped, CallerPC, WorkerPC
  <2>6. QED
    BY <1>1, <2>4, <2>5 DEF Start
<1>2. CASE StopBegin
  BY <1>2 DEF StopBegin
<1>3. CASE StopStep
  BY <1>3 DEF StopStep, StopSignal, StopJoin, StopClose
<1>4. QED
  BY <1>1, <1>2, <1>3

LEMMA NextTypeOK == TypeOK /\ [Next]_vars => TypeOK'
<1> SUFFICES ASSUME TypeOK, [Next]_vars PROVE TypeOK'
  OBVIOUS
<1>1. CASE \E c \in Callers : Submit(c) \/ Preempt(c) \/ Reset(c) \/ CallerStep(c)
  BY <1>1, CallerTypeOK, CompletionTypeOK DEF CallerStep, Threads
<1>2. CASE \E w \in Workers : WorkerStep(w)
  BY <1>2, WorkerTypeOK, CompletionTypeOK DEF WorkerStep, Threads
<1>3. CASE DpcStep
  BY <1>3, DpcTypeOK
<1>4. CASE Start \/ StopBegin \/ StopStep
  BY <1>4, LifeTypeOK
<1>5. CASE UNCHANGED vars
  BY <1>5 DEF vars, TypeOK
<1>6. QED
  BY <1>1, <1>2, <1>3, <1>4, <1>5 DEF Next, Finished

(* Every variable keeps its type; in particular the two rings of            *)
(* WinMaliSchedEnqueue_ and WinMaliSchedPushFence_ hold at most depth - 1   *)
(* entries, whoever pushes.                                                 *)
THEOREM TypeCorrect == Spec => []TypeOK
<1>1. Init => TypeOK
  BY InitTypeOK
<1>2. TypeOK /\ [Next]_vars => TypeOK'
  BY NextTypeOK
<1>3. QED
  BY <1>1, <1>2, PTL DEF Spec

----------------------------------------------------------------------------
(* The worker SchedInit created and SchedTeardown joins.  An orphan worker  *)
(* breaks both results below (run sched_orphan), so they assume that        *)
(* ObReferenceObjectByHandle never fails.                                   *)

OneThread == \A w \in Workers : pc[w] # "none" => w = thread
Joined    == life \in {"closing", "down"} => thread = NoThread
WorkerInv == TypeOK /\ OneThread /\ Joined /\ NoLostWakeup

LEMMA InitWorkerInv == Init => WorkerInv
<1> SUFFICES ASSUME Init PROVE WorkerInv
  OBVIOUS
<1>1. TypeOK
  BY InitTypeOK
<1>2. OneThread /\ Joined /\ NoLostWakeup
  BY DEF Init, OneThread, Joined, NoLostWakeup, Threads
<1>3. QED
  BY <1>1, <1>2 DEF WorkerInv

(* Steps of a dxgk thread: SchedEnqueue_ promises the wake-up with the      *)
(* entry, and nobody takes that promise back before KeSetEvent.             *)
LEMMA CallerWorkerInv ==
  ASSUME WorkerInv, NEW c \in Callers,
         Submit(c) \/ Preempt(c) \/ Reset(c) \/ CallerStep(c)
  PROVE  OneThread' /\ Joined' /\ NoLostWakeup'
<1> USE ThreadsAssumption
    DEF WorkerInv, TypeOK, OneThread, Joined, NoLostWakeup, Threads, Goto
<1>1. \A w \in Workers : w # c /\ w \in Threads
  OBVIOUS
<1>2. CASE Submit(c) \/ Preempt(c) \/ Reset(c)
  BY <1>1, <1>2 DEF Submit, Preempt, Reset, Enter
<1>3. CASE EnqueueOk(c)
  BY <1>1, <1>3 DEF EnqueueOk
<1>4. CASE EnqueueFull(c)
  BY <1>1, <1>4 DEF EnqueueFull
<1>5. CASE Signal(c)
  BY <1>1, <1>5 DEF Signal
<1>6. CASE DrainMarker(c)
  BY <1>1, <1>6 DEF DrainMarker, DequeueSub
<1>7. CASE DrainSubmit(c)
  BY <1>1, <1>7 DEF DrainSubmit, DequeueSub
<1>8. CASE DrainDone(c)
  BY <1>1, <1>8 DEF DrainDone
<1>9. CASE CompletionStep(c)
  BY <1>1, <1>9 DEF CompletionStep, Mark, ReadLast, Push, Kick
<1>10. QED
  BY <1>2, <1>3, <1>4, <1>5, <1>6, <1>7, <1>8, <1>9 DEF CallerStep

(* Steps of the worker: it waits only after it found the ring empty. *)
LEMMA WorkerWorkerInv ==
  ASSUME WorkerInv, NEW w \in Workers, WorkerStep(w)
  PROVE  OneThread' /\ Joined' /\ NoLostWakeup'
<1> USE ThreadsAssumption
    DEF WorkerInv, TypeOK, OneThread, Joined, NoLostWakeup, Threads, Goto
<1>1. \A c \in Callers : w # c /\ c \in Threads
  OBVIOUS
<1>2. w = thread /\ w \in Threads
  BY DEF WorkerStep, Wait, CheckStop, TakeNext, TakeNone, CompletionStep, Mark, ReadLast, Push, Kick
<1>3. CASE Wait(w)
  BY <1>1, <1>2, <1>3 DEF Wait
<1>4. CASE CheckStop(w)
  BY <1>1, <1>2, <1>4 DEF CheckStop
<1>5. CASE TakeNext(w)
  BY <1>1, <1>2, <1>5 DEF TakeNext, Inline
<1>6. CASE TakeNone(w)
  BY <1>1, <1>2, <1>6 DEF TakeNone
<1>7. CASE CompletionStep(w)
  BY <1>1, <1>2, <1>7 DEF CompletionStep, Mark, ReadLast, Push, Kick
<1>8. QED
  BY <1>3, <1>4, <1>5, <1>6, <1>7 DEF WorkerStep

LEMMA LifeWorkerInv ==
  ASSUME WorkerInv, "orphan" \notin StartOutcomes, Start \/ StopBegin \/ StopStep
  PROVE  OneThread' /\ Joined' /\ NoLostWakeup'
<1> USE ThreadsAssumption
    DEF WorkerInv, TypeOK, OneThread, Joined, NoLostWakeup, Threads, Goto
<1>1. CASE Start
  <2>1. thread = NoThread /\ \A w \in Workers : pc[w] = "none"
    BY <1>1 DEF Start
  <2>2. (\E w \in Workers : InitOk(w)) \/ InitNoThread \/ InitSkipped
    BY <1>1 DEF Start, SchedInit
  <2>3. CASE \E w \in Workers : InitOk(w)
    BY <1>1, <2>1, <2>3 DEF Start, InitOk, ResetRing
  <2>4. CASE InitNoThread \/ InitSkipped
    BY <1>1, <2>1, <2>4 DEF Start, InitNoThread, InitSkipped
  <2>5. QED
    BY <2>2, <2>3, <2>4
<1>2. CASE StopBegin
  BY <1>2 DEF StopBegin
<1>3. CASE StopStep
  BY <1>3 DEF StopStep, StopSignal, StopJoin, StopClose
<1>4. QED
  BY <1>1, <1>2, <1>3

LEMMA NextWorkerInv ==
  ASSUME "orphan" \notin StartOutcomes
  PROVE  WorkerInv /\ [Next]_vars => WorkerInv'
<1> SUFFICES ASSUME WorkerInv, [Next]_vars PROVE WorkerInv'
  OBVIOUS
<1>1. TypeOK'
  BY NextTypeOK DEF WorkerInv
<1>2. OneThread' /\ Joined' /\ NoLostWakeup'
  <2>1. CASE \E c \in Callers : Submit(c) \/ Preempt(c) \/ Reset(c) \/ CallerStep(c)
    BY <2>1, CallerWorkerInv
  <2>2. CASE \E w \in Workers : WorkerStep(w)
    BY <2>2, WorkerWorkerInv
  <2>3. CASE DpcStep
    BY <2>3 DEF DpcStep, DpcStart, DpcTake, DpcEnd, DpcNotify,
                WorkerInv, OneThread, Joined, NoLostWakeup
  <2>4. CASE Start \/ StopBegin \/ StopStep
    BY <2>4, LifeWorkerInv
  <2>5. CASE UNCHANGED vars
    BY <2>5 DEF vars, WorkerInv, OneThread, Joined, NoLostWakeup
  <2>6. QED
    BY <2>1, <2>2, <2>3, <2>4, <2>5 DEF Next, Finished
<1>3. QED
  BY <1>1, <1>2 DEF WorkerInv

(* The wake-up protocol of WinMaliSchedEnqueue_ and WinMaliSchedWorker_ is  *)
(* sound: KeSetEvent after the lock is released, with an auto-reset event,  *)
(* never leaves the worker asleep over a request.                           *)
THEOREM WakeupNotLost ==
  ASSUME "orphan" \notin StartOutcomes
  PROVE  Spec => []NoLostWakeup
<1>1. Init => WorkerInv
  BY InitWorkerInv
<1>2. WorkerInv /\ [Next]_vars => WorkerInv'
  BY NextWorkerInv
<1>3. WorkerInv => NoLostWakeup
  BY DEF WorkerInv
<1>4. QED
  BY <1>1, <1>2, <1>3, PTL DEF Spec

(* WinMaliSchedTeardown returns only when the worker has left its loop, so  *)
(* FwTeardown never pulls the ring from under a job.                        *)
THEOREM TeardownAfterWorker ==
  ASSUME "orphan" \notin StartOutcomes
  PROVE  Spec => []NoJobAfterTeardown
<1>1. Init => WorkerInv
  BY InitWorkerInv
<1>2. WorkerInv /\ [Next]_vars => WorkerInv'
  BY NextWorkerInv
<1>3. WorkerInv => NoJobAfterTeardown
  BY ThreadsAssumption DEF WorkerInv, OneThread, Joined, NoJobAfterTeardown
<1>4. QED
  BY <1>1, <1>2, <1>3, PTL DEF Spec

----------------------------------------------------------------------------
(* Where fence ids are: no request is in two places and none is forgotten,  *)
(* whatever mix of submits, preempts, resets, stops and restarts runs.      *)

(* Fence ids of rings and of threads. *)

LEMMA AppendIds ==
  ASSUME NEW q \in Seq(Entry), NEW e \in Entry
  PROVE  /\ IdsIn(Append(q, e)) = IdsIn(q) \cup {e.fence}
         /\ DistinctIds(q) /\ e.fence \notin IdsIn(q) => DistinctIds(Append(q, e))
<1> DEFINE r == Append(q, e)
<1>1. /\ Len(q) \in Nat /\ Len(r) = Len(q) + 1
      /\ \A i \in 1..Len(q) : r[i] = q[i]
      /\ r[Len(q) + 1] = e
  OBVIOUS
<1>2. 1..Len(r) = (1..Len(q)) \cup {Len(q) + 1}
  BY <1>1
<1> HIDE DEF r
<1>3. IdsIn(r) = IdsIn(q) \cup {e.fence}
  BY <1>1, <1>2 DEF IdsIn
<1>4. ASSUME DistinctIds(q), e.fence \notin IdsIn(q)
      PROVE  DistinctIds(r)
  BY <1>1, <1>2, <1>4 DEF DistinctIds, IdsIn
<1>5. QED
  BY <1>3, <1>4 DEF r

LEMMA HeadTailIds ==
  ASSUME NEW q \in Seq(Entry), q # <<>>
  PROVE  /\ IdsIn(q) = IdsIn(Tail(q)) \cup {Head(q).fence}
         /\ DistinctIds(q) => DistinctIds(Tail(q)) /\ Head(q).fence \notin IdsIn(Tail(q))
<1> DEFINE r == Tail(q)
<1>1. /\ Len(q) \in Nat /\ Len(q) > 0 /\ Len(r) = Len(q) - 1
      /\ \A i \in 1..Len(r) : r[i] = q[i + 1]
      /\ Head(q) = q[1]
  OBVIOUS
<1> HIDE DEF r
<1>2. /\ \A i \in 1..Len(r) : i + 1 \in 1..Len(q) /\ i + 1 # 1
      /\ \A i \in 1..Len(q) : i = 1 \/ (i - 1 \in 1..Len(r) /\ (i - 1) + 1 = i)
      /\ 1 \in 1..Len(q)
  BY <1>1
<1>3. IdsIn(q) = IdsIn(r) \cup {q[1].fence}
  <2>1. ASSUME NEW f \in IdsIn(q) PROVE f \in IdsIn(r) \cup {q[1].fence}
    <3>1. PICK i \in 1..Len(q) : f = q[i].fence
      BY <2>1 DEF IdsIn
    <3>2. CASE i = 1
      BY <3>1, <3>2
    <3>3. CASE i # 1
      <4>1. i - 1 \in 1..Len(r) /\ r[i - 1] = q[i]
        BY <1>1, <1>2, <3>3
      <4>2. QED
        BY <3>1, <4>1 DEF IdsIn
    <3>4. QED
      BY <3>2, <3>3
  <2>2. IdsIn(r) \subseteq IdsIn(q) /\ q[1].fence \in IdsIn(q)
    BY <1>1, <1>2 DEF IdsIn
  <2>3. QED
    BY <2>1, <2>2
<1>4. ASSUME DistinctIds(q) PROVE DistinctIds(r)
  <2>1. SUFFICES ASSUME NEW i \in 1..Len(r), NEW j \in 1..Len(r), r[i].fence = r[j].fence
                 PROVE  i = j
    BY DEF DistinctIds
  <2>2. q[i + 1].fence = q[j + 1].fence /\ i + 1 \in 1..Len(q) /\ j + 1 \in 1..Len(q)
    BY <1>1, <1>2, <2>1
  <2>3. i + 1 = j + 1
    BY <1>4, <2>2 DEF DistinctIds
  <2>4. QED
    BY <2>3
<1>5. ASSUME DistinctIds(q) PROVE q[1].fence \notin IdsIn(r)
  <2>1. SUFFICES ASSUME NEW i \in 1..Len(r), r[i].fence = q[1].fence PROVE FALSE
    BY DEF IdsIn
  <2>2. q[i + 1].fence = q[1].fence /\ i + 1 \in 1..Len(q) /\ i + 1 # 1
    BY <1>1, <1>2, <2>1
  <2>3. QED
    BY <1>2, <1>5, <2>2 DEF DistinctIds
<1>6. QED
  BY <1>1, <1>3, <1>4, <1>5 DEF r

(* What a thread holds changes one id only. *)
DistinctHeld ==
    \A s, t \in Threads : item[s].fence = item[t].fence /\ item[s].fence # 0 => s = t

LEMMA HoldIds ==
  ASSUME item \in [Threads -> Entry], NEW t \in Threads, NEW e \in Entry, Hold(t, e),
         DistinctHeld, e.fence \notin HeldIds
  PROVE  /\ DistinctHeld'
         /\ HeldIds' = (HeldIds \ {item[t].fence}) \cup ({e.fence} \ {0})
         /\ item'[t] = e
         /\ \A s \in Threads : s # t => item'[s] = item[s]
<1>1. item'[t] = e /\ \A s \in Threads : s # t => item'[s] = item[s]
  BY DEF Hold
<1>2. DistinctHeld'
  BY <1>1 DEF DistinctHeld, HeldIds
<1>3. HeldIds' = (HeldIds \ {item[t].fence}) \cup ({e.fence} \ {0})
  BY <1>1 DEF HeldIds, DistinctHeld
<1>4. QED
  BY <1>1, <1>2, <1>3

----------------------------------------------------------------------------
(* The invariant: every id handed out so far is in exactly one place, and a *)
(* thread is at a step that holds a request exactly when it holds one.      *)

Known  == InDriver \cup IdsIn(told) \cup Ids(lost)
Unique == DistinctIds(subQ) /\ DistinctIds(notQ) /\ DistinctIds(told) /\ DistinctHeld
Apart  ==
    /\ IdsIn(subQ) \cap IdsIn(notQ) = {}
    /\ HeldIds \cap (IdsIn(subQ) \cup IdsIn(notQ)) = {}
    /\ dpcItem.fence \notin IdsIn(subQ) \cup IdsIn(notQ) \cup HeldIds
    /\ IdsIn(told) \cap Ids(lost) = {}
    /\ InDriver \cap (IdsIn(told) \cup Ids(lost)) = {}
IdInv == TypeOK /\ HoldsRequest /\ Unique /\ Apart /\ Known = 1..(next - 1)

LEMMA IdInvFacts ==
  ASSUME IdInv
  PROVE  /\ next \notin Known /\ 0 \notin Known
         /\ subQ \in Seq(Entry) /\ notQ \in Seq(Entry) /\ told \in Seq(Entry)
         /\ item \in [Threads -> Entry] /\ dpcItem \in Entry
         /\ subQ # <<>> => Head(subQ) \in Entry /\ Head(subQ).fence # 0
         /\ notQ # <<>> => Head(notQ) \in Entry /\ Head(notQ).fence # 0
         /\ NoItem \in Entry /\ NoItem.fence = 0
<1>1. next \notin Known /\ 0 \notin Known /\ next \in Nat
  BY DEF IdInv, TypeOK
<1>2. subQ \in Seq(Entry) /\ notQ \in Seq(Entry) /\ told \in Seq(Entry)
      /\ item \in [Threads -> Entry] /\ dpcItem \in Entry
  BY DEF IdInv, TypeOK
<1>3. subQ # <<>> => Head(subQ) \in Entry /\ Head(subQ).fence # 0
  BY <1>1, <1>2, RingFacts, HeadTailIds DEF Known, InDriver
<1>4. notQ # <<>> => Head(notQ) \in Entry /\ Head(notQ).fence # 0
  BY <1>1, <1>2, RingFacts, HeadTailIds DEF Known, InDriver
<1>5. QED
  BY <1>1, <1>2, <1>3, <1>4, EntryFacts DEF NoItem

LEMMA InitIdInv == Init => IdInv
<1> SUFFICES ASSUME Init PROVE IdInv
  OBVIOUS
<1>1. TypeOK
  BY InitTypeOK
<1>2. /\ IdsIn(subQ) = {} /\ IdsIn(notQ) = {} /\ IdsIn(told) = {}
      /\ DistinctIds(subQ) /\ DistinctIds(notQ) /\ DistinctIds(told)
  <2>1. Len(<<>>) = 0 /\ 1..0 = {}
    OBVIOUS
  <2>2. QED
    BY <2>1 DEF Init, IdsIn, DistinctIds
<1>3. Ids(lost) = {}
  BY DEF Init, Ids
<1>4. HeldIds = {} /\ DistinctHeld /\ dpcItem.fence = 0
  BY DEF Init, HeldIds, DistinctHeld, NoItem
<1>5. HoldsRequest
  BY DEF Init, HoldsRequest, NoItem, HoldPC
<1>6. next = 1
  BY DEF Init
<1>7. QED
  BY <1>1, <1>2, <1>3, <1>4, <1>5, <1>6 DEF IdInv, Unique, Apart, Known, InDriver

(* A step that only moves a thread between two steps that both hold a       *)
(* request, or that both hold none, and leaves every request where it is.   *)
Still == UNCHANGED <<subQ, notQ, item, dpc, dpcItem, told, lost, next>>

LEMMA StillIds ==
  ASSUME IdInv, Still, NEW t \in Threads, NEW l, Goto(t, l), (pc[t] \in HoldPC) = (l \in HoldPC)
  PROVE  HoldsRequest' /\ Unique' /\ Apart' /\ Known' = 1..(next' - 1)
<1>1. HoldsRequest'
  BY DEF IdInv, TypeOK, Still, Goto, HoldsRequest
<1>2. Unique' /\ Apart' /\ Known' = 1..(next' - 1)
  BY DEF IdInv, Still, Unique, Apart, Known, InDriver, HeldIds, DistinctHeld
<1>3. QED
  BY <1>1, <1>2

(* SubmitCommand, SubmitCommandVirtual, PreemptCommand: a new id. *)
LEMMA IssueIds ==
  ASSUME IdInv, NEW c \in Callers, Submit(c) \/ Preempt(c)
  PROVE  HoldsRequest' /\ Unique' /\ Apart' /\ Known' = 1..(next' - 1)
<1>1. PICK p \in BOOLEAN, l \in {"enq", "mark", "last"} :
           /\ next <= MaxFence /\ pc[c] = "idle"
           /\ next' = next + 1
           /\ Hold(c, Request(next, p))
           /\ Goto(c, l)
           /\ UNCHANGED <<subQ, notQ, dpc, dpcItem, told, lost>>
  BY DEF Submit, Preempt, Enter
<1>2. c \in Threads /\ next \in 1..MaxFence /\ next \notin Known
  BY <1>1, IdInvFacts DEF IdInv, TypeOK, Threads
<1>3. Request(next, p) \in Entry /\ Request(next, p).fence = next
  BY <1>2, EntryFacts DEF Request
<1>4. item[c].fence = 0
  BY <1>1, <1>2 DEF IdInv, HoldsRequest, HoldPC
<1>5. /\ DistinctHeld' /\ HeldIds' = HeldIds \cup {next}
      /\ item'[c].fence = next
      /\ \A s \in Threads : s # c => item'[s] = item[s]
  <2>1. next \notin HeldIds /\ 0 \notin HeldIds
    BY <1>2 DEF Known, InDriver, HeldIds
  <2>2. QED
    BY <1>1, <1>2, <1>3, <1>4, <2>1, HoldIds, IdInvFacts DEF IdInv, Unique
<1>6. HoldsRequest'
  BY <1>1, <1>2, <1>5 DEF IdInv, TypeOK, HoldsRequest, Goto, HoldPC
<1>7. Unique'
  BY <1>1, <1>5 DEF IdInv, Unique
<1>8. Apart'
  BY <1>1, <1>2, <1>5 DEF IdInv, Apart, InDriver, Known
<1>9. Known' = Known \cup {next}
  BY <1>1, <1>2, <1>5 DEF InDriver, Known
<1>10. Known' = 1..(next' - 1)
  BY <1>1, <1>2, <1>9 DEF IdInv
<1>11. QED
  BY <1>6, <1>7, <1>8, <1>10

(* SchedEnqueue_ puts the caller's request at the tail of SubmitQueue. *)
LEMMA EnqueueIds ==
  ASSUME IdInv, NEW c \in Callers, EnqueueOk(c)
  PROVE  HoldsRequest' /\ Unique' /\ Apart' /\ Known' = 1..(next' - 1)
<1>1. /\ pc[c] = "enq" /\ subQ' = Append(subQ, item[c])
      /\ Hold(c, NoItem) /\ Goto(c, "wake")
      /\ UNCHANGED <<notQ, dpc, dpcItem, told, lost, next>>
  BY DEF EnqueueOk
<1>2. c \in Threads /\ item[c] \in Entry
  BY IdInvFacts DEF Threads
<1>3. item[c].fence # 0 /\ item[c].fence \in HeldIds
  BY <1>1, <1>2 DEF IdInv, HoldsRequest, HoldPC, HeldIds
<1>4. /\ DistinctHeld' /\ HeldIds' = HeldIds \ {item[c].fence}
      /\ item'[c].fence = 0
      /\ \A s \in Threads : s # c => item'[s] = item[s]
  <2>1. 0 \notin HeldIds
    BY DEF HeldIds
  <2>2. QED
    BY <1>1, <1>2, <2>1, HoldIds, IdInvFacts DEF IdInv, Unique
<1>5. IdsIn(subQ') = IdsIn(subQ) \cup {item[c].fence} /\ DistinctIds(subQ')
  BY <1>1, <1>2, <1>3, AppendIds, IdInvFacts DEF IdInv, Unique, Apart
<1>6. HoldsRequest'
  BY <1>1, <1>2, <1>4 DEF IdInv, TypeOK, HoldsRequest, Goto, HoldPC
<1>7. Unique'
  BY <1>1, <1>4, <1>5 DEF IdInv, Unique
<1>8. Apart'
  BY <1>1, <1>3, <1>4, <1>5 DEF IdInv, Apart, InDriver
<1>9. Known' = Known
  BY <1>1, <1>3, <1>4, <1>5 DEF InDriver, Known
<1>10. QED
  BY <1>1, <1>6, <1>7, <1>8, <1>9 DEF IdInv

(* The worker and ResetEngine take the oldest request off SubmitQueue. *)
LEMMA TakeIds ==
  ASSUME IdInv, NEW t \in Threads,
         subQ # <<>>, DequeueSub, pc[t] \notin HoldPC, Hold(t, Head(subQ)),
         NEW l \in HoldPC, Goto(t, l),
         UNCHANGED <<notQ, dpc, dpcItem, told, lost, next>>
  PROVE  HoldsRequest' /\ Unique' /\ Apart' /\ Known' = 1..(next' - 1)
<1>1. /\ Head(subQ) \in Entry /\ Head(subQ).fence # 0
      /\ IdsIn(subQ) = IdsIn(subQ') \cup {Head(subQ).fence}
      /\ DistinctIds(subQ') /\ Head(subQ).fence \notin IdsIn(subQ')
  BY IdInvFacts, HeadTailIds DEF IdInv, Unique, DequeueSub
<1>2. item[t].fence = 0
  BY DEF IdInv, HoldsRequest
<1>3. /\ DistinctHeld' /\ HeldIds' = HeldIds \cup {Head(subQ).fence}
      /\ item'[t].fence = Head(subQ).fence
      /\ \A s \in Threads : s # t => item'[s] = item[s]
  <2>1. Head(subQ).fence \notin HeldIds /\ 0 \notin HeldIds
    BY <1>1 DEF IdInv, Apart, HeldIds
  <2>2. QED
    BY <1>1, <1>2, <2>1, HoldIds, IdInvFacts DEF IdInv, Unique
<1>4. HoldsRequest'
  BY <1>1, <1>3 DEF IdInv, TypeOK, HoldsRequest, Goto
<1>5. Unique'
  BY <1>1, <1>3 DEF IdInv, Unique
<1>6. Apart'
  BY <1>1, <1>3 DEF IdInv, Apart, InDriver
<1>7. Known' = Known
  BY <1>1, <1>3 DEF InDriver, Known
<1>8. QED
  BY <1>4, <1>5, <1>6, <1>7 DEF IdInv

(* ResetEngine drops a preempt marker. *)
LEMMA DropIds ==
  ASSUME IdInv, NEW c \in Callers, DrainMarker(c)
  PROVE  HoldsRequest' /\ Unique' /\ Apart' /\ Known' = 1..(next' - 1)
<1>1. /\ subQ # <<>> /\ subQ' = Tail(subQ) /\ lost' = lost \cup {Head(subQ)}
      /\ UNCHANGED <<notQ, pc, item, dpc, dpcItem, told, next>>
  BY DEF DrainMarker, DequeueSub
<1>2. /\ Head(subQ).fence # 0
      /\ IdsIn(subQ) = IdsIn(subQ') \cup {Head(subQ).fence}
      /\ DistinctIds(subQ') /\ Head(subQ).fence \notin IdsIn(subQ')
  BY <1>1, IdInvFacts, HeadTailIds DEF IdInv, Unique
<1>3. Ids(lost') = Ids(lost) \cup {Head(subQ).fence}
  BY <1>1 DEF Ids
<1>4. HeldIds' = HeldIds /\ DistinctHeld' = DistinctHeld /\ HoldsRequest'
  BY <1>1 DEF HeldIds, DistinctHeld, IdInv, HoldsRequest
<1>5. Unique'
  BY <1>1, <1>2, <1>4 DEF IdInv, Unique
<1>6. Apart'
  <2>1. InDriver' \subseteq InDriver /\ Head(subQ).fence \notin InDriver'
    BY <1>1, <1>2, <1>4 DEF IdInv, Apart, InDriver
  <2>2. Head(subQ).fence \notin IdsIn(told)
    BY <1>2 DEF IdInv, Apart, InDriver
  <2>3. InDriver' \cap (IdsIn(told') \cup Ids(lost')) = {}
    BY <1>1, <1>3, <2>1 DEF IdInv, Apart
  <2>4. IdsIn(told') \cap Ids(lost') = {}
    BY <1>1, <1>3, <2>2 DEF IdInv, Apart
  <2>5. /\ IdsIn(subQ') \cap IdsIn(notQ') = {}
        /\ HeldIds' \cap (IdsIn(subQ') \cup IdsIn(notQ')) = {}
        /\ dpcItem'.fence \notin IdsIn(subQ') \cup IdsIn(notQ') \cup HeldIds'
    BY <1>1, <1>2, <1>4 DEF IdInv, Apart
  <2>6. QED
    BY <2>3, <2>4, <2>5 DEF Apart
<1>7. Known' = Known
  BY <1>1, <1>2, <1>3, <1>4 DEF InDriver, Known
<1>8. QED
  BY <1>1, <1>4, <1>5, <1>6, <1>7 DEF IdInv

(* SchedPushFence_ moves the request to FenceQueue; a full ring gives its   *)
(* oldest entry up.                                                         *)
LEMMA PushIds ==
  ASSUME IdInv, NEW t \in Threads, Push(t)
  PROVE  HoldsRequest' /\ Unique' /\ Apart' /\ Known' = 1..(next' - 1)
<1>1. PICK l \in {"kick", "drain1"} :
           /\ pc[t] \in {"push", "rpush"} /\ PushFence(item[t])
           /\ Hold(t, NoItem) /\ Goto(t, l)
           /\ UNCHANGED <<subQ, dpc, dpcItem, told, next>>
  BY DEF Push
<1>2. item[t] \in Entry
  BY IdInvFacts
<1>3. item[t].fence # 0 /\ item[t].fence \in HeldIds
  BY <1>1 DEF IdInv, HoldsRequest, HoldPC, HeldIds
<1>4. /\ DistinctHeld' /\ HeldIds' = HeldIds \ {item[t].fence}
      /\ item'[t].fence = 0
      /\ \A s \in Threads : s # t => item'[s] = item[s]
  <2>1. 0 \notin HeldIds
    BY DEF HeldIds
  <2>2. QED
    BY <1>1, <2>1, HoldIds, IdInvFacts DEF IdInv, Unique
<1>5. HoldsRequest'
  BY <1>1, <1>4 DEF IdInv, TypeOK, HoldsRequest, Goto, HoldPC
<1>6. CASE ~RingFull(notQ, NotDepth)
  <2>1. notQ' = Append(notQ, item[t]) /\ lost' = lost
    BY <1>1, <1>6 DEF PushFence
  <2>2. IdsIn(notQ') = IdsIn(notQ) \cup {item[t].fence} /\ DistinctIds(notQ')
    BY <1>2, <1>3, <2>1, AppendIds, IdInvFacts DEF IdInv, Unique, Apart
  <2>3. Unique'
    BY <1>1, <1>4, <2>2 DEF IdInv, Unique
  <2>4. Apart'
    BY <1>1, <1>3, <1>4, <2>1, <2>2 DEF IdInv, Apart, InDriver
  <2>5. Known' = Known
    BY <1>1, <1>3, <1>4, <2>1, <2>2 DEF InDriver, Known
  <2>6. QED
    BY <1>1, <1>5, <2>3, <2>4, <2>5 DEF IdInv
<1>7. CASE RingFull(notQ, NotDepth)
  <2>1. notQ # <<>>
    BY <1>7, DepthAssumption DEF RingFull
  <2>2. notQ' = Append(Tail(notQ), item[t]) /\ lost' = lost \cup {Head(notQ)}
    BY <1>1, <1>7 DEF PushFence
  <2>3. /\ Tail(notQ) \in Seq(Entry) /\ Head(notQ).fence # 0
        /\ IdsIn(notQ) = IdsIn(Tail(notQ)) \cup {Head(notQ).fence}
        /\ DistinctIds(Tail(notQ)) /\ Head(notQ).fence \notin IdsIn(Tail(notQ))
    BY <2>1, IdInvFacts, HeadTailIds, RingFacts DEF IdInv, Unique
  <2>4. IdsIn(notQ') = IdsIn(Tail(notQ)) \cup {item[t].fence} /\ DistinctIds(notQ')
    BY <1>2, <1>3, <2>2, <2>3, AppendIds DEF IdInv, Apart
  <2>5. Ids(lost') = Ids(lost) \cup {Head(notQ).fence}
    BY <2>2 DEF Ids
  <2>6. Unique'
    BY <1>1, <1>4, <2>4 DEF IdInv, Unique
  <2>7. Apart'
    BY <1>1, <1>3, <1>4, <2>3, <2>4, <2>5 DEF IdInv, Apart, InDriver
  <2>8. Known' = Known
    BY <1>1, <1>3, <1>4, <2>3, <2>4, <2>5 DEF InDriver, Known
  <2>9. QED
    BY <1>1, <1>5, <2>6, <2>7, <2>8 DEF IdInv
<1>8. QED
  BY <1>6, <1>7

(* A preempt marker takes its boundary: the id it holds stays. *)
LEMMA BoundaryIds ==
  ASSUME IdInv, NEW t \in Threads, ReadLast(t)
  PROVE  HoldsRequest' /\ Unique' /\ Apart' /\ Known' = 1..(next' - 1)
<1>1. /\ pc[t] = "last" /\ item' = [item EXCEPT ![t] = [item[t] EXCEPT !.last = lastDone]]
      /\ Goto(t, "push")
      /\ UNCHANGED <<subQ, notQ, dpc, dpcItem, told, lost, next>>
  BY DEF ReadLast, Hold
<1>2. \A s \in Threads : item'[s].fence = item[s].fence
  <2>1. item'[t] = [item[t] EXCEPT !.last = lastDone]
    BY <1>1, IdInvFacts
  <2>2. item[t] \in Entry
    BY IdInvFacts
  <2>3. item'[t].fence = item[t].fence
    BY <2>1, <2>2 DEF Entry
  <2>4. \A s \in Threads : s # t => item'[s] = item[s]
    BY <1>1, IdInvFacts
  <2>5. QED
    BY <2>3, <2>4
<1>3. HeldIds' = HeldIds /\ (DistinctHeld => DistinctHeld')
  BY <1>2 DEF HeldIds, DistinctHeld
<1>4. HoldsRequest'
  BY <1>1, <1>2 DEF IdInv, TypeOK, HoldsRequest, Goto, HoldPC
<1>5. Unique' /\ Apart' /\ Known' = 1..(next' - 1)
  BY <1>1, <1>3 DEF IdInv, Unique, Apart, Known, InDriver
<1>6. QED
  BY <1>4, <1>5

(* The DPC routine takes an entry and announces it. *)
LEMMA DpcIds ==
  ASSUME IdInv, DpcStep
  PROVE  HoldsRequest' /\ Unique' /\ Apart' /\ Known' = 1..(next' - 1)
<1>1. HeldIds' = HeldIds /\ DistinctHeld' = DistinctHeld
      /\ \A t \in Threads : item'[t] = item[t] /\ pc'[t] = pc[t]
  BY DEF DpcStep, DpcStart, DpcTake, DpcEnd, DpcNotify, HeldIds, DistinctHeld
<1>2. CASE DpcStart \/ DpcEnd
  <2>1. dpc # "notify" /\ dpc' # "notify"
    BY <1>2 DEF DpcStart, DpcEnd
  <2>2. QED
    BY <1>1, <1>2, <2>1 DEF DpcStart, DpcEnd, IdInv, HoldsRequest, Unique, Apart, Known, InDriver
<1>3. CASE DpcTake
  <2>1. /\ dpc = "drain" /\ notQ # <<>> /\ notQ' = Tail(notQ) /\ dpcItem' = Head(notQ)
        /\ dpc' = "notify"
        /\ UNCHANGED <<subQ, pc, item, told, lost, next>>
    BY <1>3 DEF DpcTake
  <2>2. /\ Head(notQ).fence # 0
        /\ IdsIn(notQ) = IdsIn(notQ') \cup {Head(notQ).fence}
        /\ DistinctIds(notQ') /\ Head(notQ).fence \notin IdsIn(notQ')
    BY <2>1, IdInvFacts, HeadTailIds DEF IdInv, Unique
  <2>3. dpcItem.fence = 0
    BY <2>1 DEF IdInv, HoldsRequest
  <2>4. HoldsRequest'
    BY <1>1, <2>1, <2>2 DEF IdInv, HoldsRequest
  <2>5. Unique'
    BY <1>1, <2>1, <2>2 DEF IdInv, Unique
  <2>6. Apart'
    BY <1>1, <2>1, <2>2, <2>3 DEF IdInv, Apart, InDriver
  <2>7. Known' = Known
    BY <1>1, <2>1, <2>2, <2>3 DEF InDriver, Known
  <2>8. QED
    BY <2>1, <2>4, <2>5, <2>6, <2>7 DEF IdInv
<1>4. CASE DpcNotify
  <2>1. /\ dpc = "notify" /\ told' = Append(told, dpcItem) /\ dpcItem' = NoItem
        /\ dpc' = "drain"
        /\ UNCHANGED <<subQ, notQ, pc, item, lost, next>>
    BY <1>4 DEF DpcNotify
  <2>2. dpcItem \in Entry /\ dpcItem.fence # 0 /\ dpcItem'.fence = 0
    BY <2>1, IdInvFacts DEF IdInv, HoldsRequest
  <2>3. IdsIn(told') = IdsIn(told) \cup {dpcItem.fence} /\ DistinctIds(told')
    BY <2>1, <2>2, IdInvFacts, AppendIds DEF IdInv, Unique, Apart, InDriver
  <2>4. HoldsRequest'
    BY <1>1, <2>1, <2>2 DEF IdInv, HoldsRequest
  <2>5. Unique'
    BY <1>1, <2>1, <2>3 DEF IdInv, Unique
  <2>6. Apart'
    <3>1. 0 \notin Known /\ 0 \notin HeldIds
      BY IdInvFacts DEF HeldIds
    <3>2. QED
      BY <1>1, <2>1, <2>2, <2>3, <3>1 DEF IdInv, Apart, InDriver, Known
  <2>7. Known' = Known
    BY <1>1, <2>1, <2>2, <2>3 DEF InDriver, Known
  <2>8. QED
    BY <2>1, <2>4, <2>5, <2>6, <2>7 DEF IdInv
<1>5. QED
  BY <1>2, <1>3, <1>4 DEF DpcStep

(* StartDevice wipes the ring; StopDevice touches no request. *)
LEMMA LifeIds ==
  ASSUME IdInv, Start \/ StopBegin \/ StopStep
  PROVE  HoldsRequest' /\ Unique' /\ Apart' /\ Known' = 1..(next' - 1)
<1>1. CASE Start
  <2>1. UNCHANGED <<notQ, item, dpc, dpcItem, told, next>>
    BY <1>1 DEF Start
  <2>2. HeldIds' = HeldIds /\ DistinctHeld' = DistinctHeld
    BY <2>1 DEF HeldIds, DistinctHeld
  <2>3. PICK outcome : SchedInit(outcome)
    BY <1>1 DEF Start
  <2>4. HoldsRequest'
    <3>1. \A t \in Threads : (pc'[t] \in HoldPC) = (pc[t] \in HoldPC)
      BY <2>3 DEF SchedInit, InitOk, InitNoThread, InitOrphan, InitSkipped,
                  Goto, HoldPC, IdInv, TypeOK, Threads
    <3>2. QED
      BY <2>1, <3>1 DEF IdInv, HoldsRequest
  <2>5. CASE ResetRing
    <3>1. IdsIn(subQ') = {} /\ DistinctIds(subQ')
      <4>1. Len(<<>>) = 0 /\ 1..0 = {}
        OBVIOUS
      <4>2. QED
        BY <2>5, <4>1 DEF ResetRing, IdsIn, DistinctIds
    <3>2. Ids(lost') = Ids(lost) \cup IdsIn(subQ)
      BY <2>5 DEF ResetRing, Ids, IdsIn
    <3>3. Unique'
      BY <2>1, <2>2, <3>1 DEF IdInv, Unique
    <3>4. Apart'
      BY <2>1, <2>2, <3>1, <3>2 DEF IdInv, Apart, InDriver
    <3>5. Known' = Known
      BY <2>1, <2>2, <3>1, <3>2 DEF InDriver, Known
    <3>6. QED
      BY <2>1, <2>4, <3>3, <3>4, <3>5 DEF IdInv
  <2>6. CASE InitSkipped
    BY <2>1, <2>2, <2>4, <2>6 DEF InitSkipped, IdInv, Unique, Apart, InDriver, Known
  <2>7. QED
    BY <2>3, <2>5, <2>6 DEF SchedInit, InitOk, InitNoThread, InitOrphan
<1>2. CASE StopBegin \/ StopStep
  <2>1. UNCHANGED <<subQ, notQ, pc, item, dpc, dpcItem, told, lost, next>>
    BY <1>2 DEF StopBegin, StopStep, StopSignal, StopJoin, StopClose
  <2>2. QED
    BY <2>1 DEF IdInv, HoldsRequest, Unique, Apart, InDriver, Known, HeldIds, DistinctHeld
<1>3. QED
  BY <1>1, <1>2

LEMMA NextIdInv == IdInv /\ [Next]_vars => IdInv'
<1> SUFFICES ASSUME IdInv, [Next]_vars PROVE IdInv'
  OBVIOUS
<1>1. TypeOK'
  BY NextTypeOK DEF IdInv
<1>2. ASSUME NEW t \in Threads, CompletionStep(t)
      PROVE  HoldsRequest' /\ Unique' /\ Apart' /\ Known' = 1..(next' - 1)
  <2>1. CASE Mark(t)
    BY <2>1, StillIds DEF Mark, Still, HoldPC
  <2>2. CASE Kick(t)
    BY <2>2, StillIds DEF Kick, Still, HoldPC
  <2>3. QED
    BY <1>2, <2>1, <2>2, BoundaryIds, PushIds DEF CompletionStep
<1>3. ASSUME NEW c \in Callers, Submit(c) \/ Preempt(c) \/ Reset(c) \/ CallerStep(c)
      PROVE  HoldsRequest' /\ Unique' /\ Apart' /\ Known' = 1..(next' - 1)
  <2>1. c \in Threads
    BY DEF Threads
  <2>2. CASE Reset(c) \/ EnqueueFull(c) \/ Signal(c) \/ DrainDone(c)
    <3>1. /\ Still
          /\ \E l : Goto(c, l) /\ (pc[c] \in HoldPC) = (l \in HoldPC)
      BY <2>2 DEF Reset, Enter, EnqueueFull, Inline, Signal, DrainDone, Still, HoldPC
    <3>2. QED
      BY <2>1, <3>1, StillIds
  <2>3. CASE DrainSubmit(c)
    BY <2>1, <2>3, TakeIds DEF DrainSubmit, HoldPC
  <2>4. QED
    BY <1>2, <1>3, <2>1, <2>2, <2>3, IssueIds, EnqueueIds, DropIds DEF CallerStep
<1>4. ASSUME NEW w \in Workers, WorkerStep(w)
      PROVE  HoldsRequest' /\ Unique' /\ Apart' /\ Known' = 1..(next' - 1)
  <2>1. w \in Threads
    BY DEF Threads
  <2>2. CASE Wait(w) \/ CheckStop(w) \/ TakeNone(w)
    <3>1. /\ Still
          /\ \E l : Goto(w, l) /\ (pc[w] \in HoldPC) = (l \in HoldPC)
      BY <2>2 DEF Wait, CheckStop, TakeNone, Still, HoldPC
    <3>2. QED
      BY <2>1, <3>1, StillIds
  <2>3. CASE TakeNext(w)
    BY <2>1, <2>3, TakeIds DEF TakeNext, Inline, HoldPC
  <2>4. QED
    BY <1>2, <1>4, <2>1, <2>2, <2>3 DEF WorkerStep
<1>5. CASE UNCHANGED vars
  BY <1>1, <1>5 DEF vars, IdInv, HoldsRequest, Unique, Apart, InDriver, Known, HeldIds, DistinctHeld
<1>6. QED
  BY <1>1, <1>3, <1>4, <1>5, DpcIds, LifeIds DEF Next, Finished, IdInv

----------------------------------------------------------------------------
(* Theorems. *)

LEMMA IdInvAlways == Spec => []IdInv
<1>1. Init => IdInv
  BY InitIdInv
<1>2. IdInv /\ [Next]_vars => IdInv'
  BY NextIdInv
<1>3. QED
  BY <1>1, <1>2, PTL DEF Spec

(* A thread or the DPC routine holds a request exactly at the steps of      *)
(* WinMaliSchedWorker_, the DDIs and WinMaliKmdDpcRoutine that use one.     *)
THEOREM RequestHeld == Spec => []HoldsRequest
<1>1. IdInv => HoldsRequest
  BY DEF IdInv
<1>2. QED
  BY <1>1, IdInvAlways, PTL

(* The worker, ResetEngine, inline callers and the DPC never consume one    *)
(* entry twice, and no fence is announced twice.                            *)
THEOREM NeverConsumedTwice == Spec => []NeverTwice
<1>1. IdInv => NeverTwice
  BY DEF IdInv, Unique, Apart, DistinctHeld, NeverTwice
<1>2. QED
  BY <1>1, IdInvAlways, PTL

(* No path of the submit and preempt DDIs, the worker, ResetEngine or the   *)
(* DPC forgets a request.                                                   *)
THEOREM NothingForgotten == Spec => []AllAccounted
<1>1. IdInv => AllAccounted
  BY DEF IdInv, Known, AllAccounted
<1>2. QED
  BY <1>1, IdInvAlways, PTL

(* A submit is lost only by overflow of FenceQueue or by SchedInit.         *)
THEOREM LostOnlyBy == Spec => SubmitLostOnlyBy
<1> DEFINE Lost == \A e \in lost' \ lost :
                     \/ e.preempt
                     \/ RingFull(notQ, NotDepth) /\ e = Head(notQ)
                     \/ life = "down"
<1>1. [Next]_vars => [Lost]_vars
  <2>1. ASSUME NEW t, CompletionStep(t) PROVE Lost
    BY <2>1 DEF CompletionStep, Mark, ReadLast, Push, PushFence, Kick
  <2>2. ASSUME NEW c, Submit(c) \/ Preempt(c) \/ Reset(c) \/ CallerStep(c) PROVE Lost
    <3>1. CASE DrainMarker(c)
      BY <3>1 DEF DrainMarker
    <3>2. CASE Submit(c) \/ Preempt(c) \/ Reset(c)
      BY <3>2 DEF Submit, Preempt, Reset
    <3>3. CASE EnqueueOk(c) \/ EnqueueFull(c) \/ Signal(c) \/ DrainSubmit(c) \/ DrainDone(c)
      BY <3>3 DEF EnqueueOk, EnqueueFull, Signal, DrainSubmit, DrainDone
    <3>4. QED
      BY <2>1, <2>2, <3>1, <3>2, <3>3 DEF CallerStep
  <2>3. ASSUME NEW w, WorkerStep(w) PROVE Lost
    BY <2>1, <2>3 DEF WorkerStep, Wait, CheckStop, TakeNext, TakeNone
  <2>4. CASE DpcStep
    BY <2>4 DEF DpcStep, DpcStart, DpcTake, DpcEnd, DpcNotify
  <2>5. CASE Start \/ StopBegin \/ StopStep
    BY <2>5 DEF Start, StopBegin, StopStep, StopSignal, StopJoin, StopClose
  <2>6. QED
    BY <2>2, <2>3, <2>4, <2>5 DEF Next, Finished
<1>2. QED
  BY <1>1, PTL DEF Spec, SubmitLostOnlyBy

Completing == \E t \in Threads : pc[t] \in {"kick", "rmark", "rpush", "drain1"}
Pending    == \E i \in 1..Len(notQ) : notQ[i].fence >= base
Announcing == dpcQueued \/ dpc # "idle"

(* A thread that still has to queue a DPC keeps that duty until Kick. *)
LEMMA DutyKept ==
  ASSUME TypeOK, NEW t \in Threads, NEW l, Goto(t, l),
         l \in {"kick", "rmark", "rpush", "drain1"}
           \/ pc[t] \notin {"kick", "rmark", "rpush", "drain1"}
  PROVE  /\ Completing => Completing'
         /\ l \in {"kick", "rmark", "rpush", "drain1"} => Completing'
<1>1. pc'[t] = l /\ \A s \in Threads : s # t => pc'[s] = pc[s]
  BY DEF TypeOK, Goto
<1>2. QED
  BY <1>1 DEF Completing

LEMMA DpcComingNext == IdInv /\ DpcComing /\ [Next]_vars => DpcComing'
<1> SUFFICES ASSUME IdInv, up /\ Pending => Announcing \/ Completing, [Next]_vars
             PROVE  (up /\ Pending => Announcing \/ Completing)'
  BY DEF DpcComing, Pending, Announcing, Completing
<1>1. TypeOK
  BY DEF IdInv
<1>2. ASSUME NEW t \in Threads, CompletionStep(t)
      PROVE  (up /\ Pending => Announcing \/ Completing)'
  <2>1. CASE Kick(t)
    BY <2>1 DEF Kick, Announcing
  <2>2. CASE Push(t)
    <3>1. Completing'
      BY <1>1, <2>2, DutyKept DEF Push
    <3>2. QED
      BY <3>1
  <2>3. CASE Mark(t)
    <3>1. Completing => Completing'
      BY <1>1, <2>3, DutyKept DEF Mark
    <3>2. QED
      BY <2>3, <3>1 DEF Mark, Pending, Announcing
  <2>4. CASE ReadLast(t)
    <3>1. Completing => Completing'
      BY <1>1, <2>4, DutyKept DEF ReadLast
    <3>2. QED
      BY <2>4, <3>1 DEF ReadLast, Pending, Announcing
  <2>5. QED
    BY <1>2, <2>1, <2>2, <2>3, <2>4 DEF CompletionStep
<1>3. ASSUME NEW c \in Callers, Submit(c) \/ Preempt(c) \/ Reset(c) \/ CallerStep(c)
      PROVE  (up /\ Pending => Announcing \/ Completing)'
  <2>1. c \in Threads
    BY DEF Threads
  <2>2. CASE DrainMarker(c)
    BY <2>2 DEF DrainMarker, Pending, Announcing, Completing
  <2>3. CASE Submit(c) \/ Preempt(c) \/ Reset(c)
    <3>1. Completing => Completing'
      BY <1>1, <2>1, <2>3, DutyKept DEF Submit, Preempt, Reset, Enter
    <3>2. QED
      BY <2>3, <3>1 DEF Submit, Preempt, Reset, Pending, Announcing
  <2>4. CASE EnqueueOk(c) \/ EnqueueFull(c) \/ Signal(c) \/ DrainSubmit(c) \/ DrainDone(c)
    <3>1. Completing => Completing'
      BY <1>1, <2>1, <2>4, DutyKept DEF EnqueueOk, EnqueueFull, Signal, DrainSubmit, DrainDone
    <3>2. QED
      BY <2>4, <3>1 DEF EnqueueOk, EnqueueFull, Signal, DrainSubmit, DrainDone,
                        Pending, Announcing
  <2>5. QED
    BY <1>2, <1>3, <2>1, <2>2, <2>3, <2>4 DEF CallerStep
<1>4. ASSUME NEW w \in Workers, WorkerStep(w)
      PROVE  (up /\ Pending => Announcing \/ Completing)'
  <2>1. w \in Threads
    BY DEF Threads
  <2>2. CASE Wait(w) \/ CheckStop(w) \/ TakeNext(w) \/ TakeNone(w)
    <3>1. Completing => Completing'
      BY <1>1, <2>1, <2>2, DutyKept DEF Wait, CheckStop, TakeNext, TakeNone
    <3>2. QED
      BY <2>2, <3>1 DEF Wait, CheckStop, TakeNext, TakeNone, Pending, Announcing
  <2>3. QED
    BY <1>2, <1>4, <2>1, <2>2 DEF WorkerStep
<1>5. CASE DpcStep
  <2>1. CASE DpcStart
    BY <2>1 DEF DpcStart, Pending, Announcing
  <2>2. CASE DpcTake \/ DpcNotify
    BY <2>2 DEF DpcTake, DpcNotify, Announcing
  <2>3. CASE DpcEnd
    <3>1. Len(<<>>) = 0 /\ 1..0 = {}
      OBVIOUS
    <3>2. ~Pending'
      BY <2>3, <3>1 DEF DpcEnd, Pending
    <3>3. QED
      BY <3>2
  <2>4. QED
    BY <1>5, <2>1, <2>2, <2>3 DEF DpcStep
<1>6. CASE Start
  <2>1. notQ' = notQ /\ base' = next
    BY <1>6 DEF Start
  <2>2. IdsIn(notQ) \subseteq 1..(next - 1) /\ next \in Nat
    BY DEF IdInv, TypeOK, Known, InDriver
  <2>3. ASSUME NEW i \in 1..Len(notQ) PROVE ~(notQ[i].fence >= next)
    <3>1. notQ[i].fence \in 1..(next - 1)
      BY <2>2 DEF IdsIn
    <3>2. QED
      BY <2>2, <3>1
  <2>4. ~Pending'
    BY <2>1, <2>3 DEF Pending
  <2>5. QED
    BY <2>4
<1>7. CASE StopBegin \/ StopStep
  BY <1>7 DEF StopBegin, StopStep, StopSignal, StopJoin, StopClose, Pending, Announcing, Completing
<1>8. CASE UNCHANGED vars
  BY <1>8 DEF vars, Pending, Announcing, Completing
<1>9. QED
  BY <1>3, <1>4, <1>5, <1>6, <1>7, <1>8 DEF Next, Finished

(* Whoever pushed on FenceQueue, and whatever WinMaliKmdDpcRoutine was      *)
(* doing then, a DPC is coming for every entry of the session.              *)
THEOREM DpcAlwaysComing == Spec => []DpcComing
<1>1. Init => IdInv /\ DpcComing
  BY InitIdInv DEF Init, DpcComing
<1>2. IdInv /\ DpcComing /\ [Next]_vars => (IdInv /\ DpcComing)'
  BY NextIdInv, DpcComingNext
<1>3. QED
  BY <1>1, <1>2, PTL DEF Spec

----------------------------------------------------------------------------
(* The scheduler implements the fence ledger. *)

Issued    == 1..(next - 1)
Announced == [i \in 1..Len(told) |-> told[i].fence]

LEMMA LedgerFacts ==
  ASSUME IdInv
  PROVE  /\ Ledger!Told = IdsIn(told)
         /\ Ledger!Open = Issued \ (IdsIn(told) \cup Ids(lost))
         /\ InDriver \subseteq Ledger!Open
         /\ Issued \subseteq 1..MaxFence
<1>1. Len(told) \in Nat
  BY IdInvFacts
<1>2. Len(Announced) = Len(told) /\ \A i \in 1..Len(told) : Announced[i] = told[i].fence
  BY <1>1 DEF Announced
<1>3. Ledger!Told = IdsIn(told)
  BY <1>2 DEF Ledger!Told, Announced, IdsIn
<1>4. Ledger!Open = Issued \ (IdsIn(told) \cup Ids(lost))
  BY <1>3 DEF Ledger!Open, Issued
<1>5. InDriver \subseteq Ledger!Open
  BY <1>4 DEF IdInv, Apart, Known, Issued
<1>6. Issued \subseteq 1..MaxFence
  BY BoundAssumption DEF IdInv, TypeOK, Issued
<1>7. QED
  BY <1>3, <1>4, <1>5, <1>6

(* What leaves the driver unannounced is forsaken. *)
LEMMA ForsakeStep ==
  ASSUME IdInv, NEW F, F \subseteq InDriver, Ids(lost') = Ids(lost) \cup F, UNCHANGED <<told, next>>
  PROVE  Ledger!LedgerNext
<1>1. F \subseteq Ledger!Open /\ F \in SUBSET (1..MaxFence)
  BY LedgerFacts
<1>2. Ledger!Forsake(F)
  BY <1>1 DEF Ledger!Forsake
<1>3. QED
  BY <1>1, <1>2 DEF Ledger!LedgerNext

LEMMA IssueStep ==
  ASSUME IdInv, next' = next + 1, next <= MaxFence, UNCHANGED <<told, lost>>
  PROVE  Ledger!LedgerNext
<1>1. next \in 1..MaxFence /\ next \notin Issued
  BY DEF IdInv, TypeOK, Issued
<1>2. 1..(next' - 1) = Issued \cup {next}
  BY <1>1 DEF Issued
<1>3. Ledger!Issue(next)
  BY <1>1, <1>2 DEF Ledger!Issue, Issued, Ids
<1>4. QED
  BY <1>1, <1>3 DEF Ledger!LedgerNext

LEMMA AnnounceStep ==
  ASSUME IdInv, DpcNotify
  PROVE  Ledger!LedgerNext
<1>1. dpc = "notify" /\ told' = Append(told, dpcItem) /\ UNCHANGED <<lost, next>>
  BY DEF DpcNotify
<1>2. dpcItem.fence # 0 /\ dpcItem \in Entry /\ told \in Seq(Entry)
  BY <1>1, IdInvFacts DEF IdInv, HoldsRequest
<1>3. dpcItem.fence \in Ledger!Open /\ dpcItem.fence \in 1..MaxFence
  BY <1>2, LedgerFacts DEF InDriver, Ledger!Open, Issued
<1>4. /\ Len(told) \in Nat /\ Len(told') = Len(told) + 1
      /\ \A i \in 1..Len(told) : told'[i] = told[i]
      /\ told'[Len(told) + 1] = dpcItem
  BY <1>1, <1>2
<1>5. Announced' = Append(Announced, dpcItem.fence)
  <2>1. Announced \in Seq(0..MaxFence) /\ Len(Announced) = Len(told)
    <3>1. \A i \in 1..Len(told) : told[i].fence \in 0..MaxFence
      BY <1>2, EntryFacts, RingFacts
    <3>2. QED
      BY <1>4, <3>1 DEF Announced
  <2>2. /\ Append(Announced, dpcItem.fence) =
             [i \in 1..(Len(told) + 1) |-> IF i = Len(told) + 1 THEN dpcItem.fence
                                                                 ELSE Announced[i]]
    BY <1>2, <2>1, EntryFacts
  <2>3. \A i \in 1..(Len(told) + 1) :
           told'[i].fence = IF i = Len(told) + 1 THEN dpcItem.fence ELSE Announced[i]
    BY <1>4 DEF Announced
  <2>4. QED
    BY <1>4, <2>2, <2>3 DEF Announced
<1>6. PICK f \in 1..MaxFence : f = dpcItem.fence
  BY <1>3
<1>7. Ledger!Announce(f)
  BY <1>1, <1>3, <1>5, <1>6 DEF Ledger!Announce, Announced, Ids
<1>8. QED
  BY <1>7 DEF Ledger!LedgerNext

LEMMA LedgerStep == IdInv /\ [Next]_vars => [Ledger!LedgerNext]_(Ledger!ledger)
<1> SUFFICES ASSUME IdInv, [Next]_vars PROVE [Ledger!LedgerNext]_(Ledger!ledger)
  OBVIOUS
<1>1. UNCHANGED <<told, lost, next>> => UNCHANGED Ledger!ledger
  BY DEF Ledger!ledger, Ids
<1>2. ASSUME NEW t \in Threads, CompletionStep(t)
      PROVE  Ledger!LedgerNext \/ UNCHANGED <<told, lost, next>>
  <2>1. CASE Push(t)
    <3>1. CASE RingFull(notQ, NotDepth)
      <4>1. lost' = lost \cup {Head(notQ)} /\ UNCHANGED <<told, next>>
        BY <2>1, <3>1 DEF Push, PushFence
      <4>2. notQ # <<>>
        BY <3>1, DepthAssumption DEF RingFull
      <4>3. Ids(lost') = Ids(lost) \cup {Head(notQ).fence}
        BY <4>1 DEF Ids
      <4>4. {Head(notQ).fence} \subseteq InDriver
        BY <4>2, IdInvFacts, HeadTailIds DEF InDriver
      <4>5. QED
        BY <4>1, <4>3, <4>4, ForsakeStep
    <3>2. CASE ~RingFull(notQ, NotDepth)
      BY <2>1, <3>2 DEF Push, PushFence
    <3>3. QED
      BY <3>1, <3>2
  <2>2. QED
    BY <1>2, <2>1 DEF CompletionStep, Mark, ReadLast, Kick
<1>3. ASSUME NEW c \in Callers, Submit(c) \/ Preempt(c) \/ Reset(c) \/ CallerStep(c)
      PROVE  Ledger!LedgerNext \/ UNCHANGED <<told, lost, next>>
  <2>1. CASE Submit(c) \/ Preempt(c)
    BY <2>1, IssueStep DEF Submit, Preempt
  <2>2. CASE DrainMarker(c)
    <3>1. lost' = lost \cup {Head(subQ)} /\ subQ # <<>> /\ UNCHANGED <<told, next>>
      BY <2>2 DEF DrainMarker
    <3>2. Ids(lost') = Ids(lost) \cup {Head(subQ).fence}
      BY <3>1 DEF Ids
    <3>3. {Head(subQ).fence} \subseteq InDriver
      BY <3>1, IdInvFacts, HeadTailIds DEF InDriver
    <3>4. QED
      BY <3>1, <3>2, <3>3, ForsakeStep
  <2>3. CASE Reset(c) \/ EnqueueOk(c) \/ EnqueueFull(c) \/ Signal(c) \/ DrainSubmit(c) \/ DrainDone(c)
    BY <2>3 DEF Reset, EnqueueOk, EnqueueFull, Signal, DrainSubmit, DrainDone
  <2>4. QED
    BY <1>2, <1>3, <2>1, <2>2, <2>3 DEF CallerStep, Threads
<1>4. ASSUME NEW w \in Workers, WorkerStep(w)
      PROVE  Ledger!LedgerNext \/ UNCHANGED <<told, lost, next>>
  BY <1>2, <1>4 DEF WorkerStep, Wait, CheckStop, TakeNext, TakeNone, Threads
<1>5. CASE DpcStep
  <2>1. CASE DpcNotify
    BY <2>1, AnnounceStep
  <2>2. CASE DpcStart \/ DpcTake \/ DpcEnd
    BY <1>1, <2>2 DEF DpcStart, DpcTake, DpcEnd
  <2>3. QED
    BY <1>5, <2>1, <2>2 DEF DpcStep
<1>6. CASE Start
  <2>1. UNCHANGED <<told, next>>
    BY <1>6 DEF Start
  <2>2. CASE ResetRing
    <3>1. Ids(lost') = Ids(lost) \cup IdsIn(subQ)
      BY <2>2 DEF ResetRing, Ids, IdsIn
    <3>2. QED
      BY <2>1, <3>1, ForsakeStep DEF InDriver
  <2>3. CASE InitSkipped
    BY <1>1, <2>1, <2>3 DEF InitSkipped
  <2>4. QED
    BY <1>6, <2>2, <2>3 DEF Start, SchedInit, InitOk, InitNoThread, InitOrphan
<1>7. CASE StopBegin \/ StopStep
  BY <1>1, <1>7 DEF StopBegin, StopStep, StopSignal, StopJoin, StopClose
<1>8. CASE UNCHANGED vars
  BY <1>1, <1>8 DEF vars
<1>9. QED
  BY <1>1, <1>3, <1>4, <1>5, <1>6, <1>7, <1>8 DEF Next, Finished

(* A request is in exactly one place: a ring, a thread, the DPC, announced  *)
(* by WinMaliKmdDpcRoutine, or lost.                                        *)
THEOREM RequestsAccounted == Spec => []AccountedOnce
BY NeverConsumedTwice, NothingForgotten, PTL DEF AccountedOnce

(* Behind the rings, the worker, the inline paths, ResetEngine and the DPC  *)
(* stands the ledger dxgk relies on: each fence announced at most once,     *)
(* after it was submitted, and never after the driver gave it up.           *)
THEOREM ImplementsLedger == Spec => LedgerImplemented
<1>1. Init => Ledger!LedgerInit
  <2>1. Len(<<>>) = 0 /\ 1..0 = {}
    OBVIOUS
  <2>2. ASSUME Init PROVE Ledger!LedgerInit
    <3>1. next = 1 /\ told = <<>> /\ lost = {}
      BY <2>2 DEF Init
    <3>2. 1..(next - 1) = {} /\ Ids(lost) = {}
      BY <3>1 DEF Ids
    <3>3. [i \in 1..Len(told) |-> told[i].fence] = <<>>
      BY <2>1, <3>1
    <3>4. QED
      BY <3>2, <3>3 DEF Ledger!LedgerInit
  <2>3. QED
    BY <2>2
<1>2. IdInv /\ [Next]_vars => [Ledger!LedgerNext]_(Ledger!ledger)
  BY LedgerStep
<1>3. QED
  BY <1>1, <1>2, IdInvAlways, PTL DEF Spec, LedgerImplemented, Ledger!LedgerSpec

----------------------------------------------------------------------------
(* The order of announcements.  With one dxgk thread, no reset, one session *)
(* and room in the ring, requests pass through the driver in the order dxgk *)
(* made them, and a preempt marker reads a boundary that parts those before *)
(* it from those behind it.                                                 *)
InSeries == (\A c, d \in Callers : c = d) /\ "reset" \notin Ops /\ MaxStarts <= 1
RoomLeft == \A c \in Callers : pc[c] = "enq" => ~RingFull(subQ, SubDepth)

Running(t) == pc[t] \in {"mark", "last", "push"}
Carries(t) == Running(t) \/ pc[t] = "enq"

\* Either the worker completes requests or, in a session without one, the
\* caller does; and nothing is left over from an earlier session.
NotStarted ==
    /\ life = "down" /\ thread = NoThread /\ next = 1 /\ dpc # "notify"
    /\ subQ = <<>> /\ notQ = <<>> /\ told = <<>>
    /\ \A w \in Workers : pc[w] = "none"
CallerLane(c) ==
    /\ pc[c] \in {"idle", "enq", "wake", "mark", "last", "push", "kick"}
    /\ pc[c] # "idle" => life = "up"
    /\ pc[c] \in {"enq", "wake"} => thread # NoThread
    /\ pc[c] \in {"mark", "last", "push", "kick"} => thread = NoThread
Lane ==
    /\ starts = 0 => NotStarted
    /\ \A c \in Callers : CallerLane(c)
    /\ \A w \in Workers : w # thread => pc[w] = "none" \/ (stop /\ pc[w] \in {"wait", "woken"})
    /\ life = "up" => IF thread = NoThread THEN subQ = <<>> ELSE ~stop

EntriesOf(q) == {q[i] : i \in 1..Len(q)}
AtDpc  == IF dpc = "notify" THEN {dpcItem} ELSE {}
Past   == EntriesOf(told) \cup AtDpc \cup EntriesOf(notQ)
Below(A, B) == \A x \in A, y \in B : x.fence < y.fence
Ascends(q) == \A i, j \in 1..Len(q) : i < j => q[i].fence < q[j].fence

\* Fence ids grow from what was announced to what dxgk asks for next.
Order ==
    /\ Ascends(notQ) /\ Ascends(subQ)
    /\ Below(EntriesOf(told), AtDpc \cup EntriesOf(notQ)) /\ Below(AtDpc, EntriesOf(notQ))
    /\ Below(Past, EntriesOf(subQ))
    /\ \A t \in Threads : Carries(t) => Below(Past, {item[t]}) /\ item[t].fence < next
    /\ \A t \in Threads : Running(t) => Below({item[t]}, EntriesOf(subQ))
    /\ \A t \in Threads : pc[t] = "enq" => Below(EntriesOf(subQ), {item[t]})
    /\ \A t, u \in Threads : pc[t] = "enq" /\ Running(u) => item[u].fence < item[t].fence
    /\ \A x \in Past \cup EntriesOf(subQ) : x.fence < next

\* SchedLastCompletedFence is the last submit that has been completed.
Marks ==
    /\ \A t \in Threads : pc[t] = "mark" => ~item[t].preempt
    /\ \A t \in Threads : pc[t] = "last" => item[t].preempt
    /\ lastDone < next
    /\ \A y \in EntriesOf(subQ) : lastDone < y.fence
    /\ \A t \in Threads : pc[t] \in {"mark", "last", "enq"} => lastDone < item[t].fence
    /\ \A t \in Threads : pc[t] = "push" /\ ~item[t].preempt => item[t].fence <= lastDone
    /\ \A x \in Past : ~x.preempt => x.fence <= lastDone

\* What a marker carries parts the submits before it from those behind it.
Parts(m) ==
    m.preempt => /\ m.last < m.fence
                 /\ \A x \in Past : ~x.preempt /\ x.fence < m.fence => x.fence <= m.last
Boundaries ==
    /\ \A m \in AtDpc \cup EntriesOf(notQ) : Parts(m)
    /\ \A t \in Threads : pc[t] = "push" => Parts(item[t])

\* GpuCompletedFence is behind everything still to be announced.
CompletedBehind ==
    /\ completed < next
    /\ \A x \in AtDpc \cup EntriesOf(notQ) \cup EntriesOf(subQ) : completed < x.fence
    /\ \A t \in Threads : Carries(t) => completed < item[t].fence


LEMMA EntriesFacts ==
  ASSUME NEW q \in Seq(Entry)
  PROVE  /\ EntriesOf(q) \subseteq Entry /\ (q = <<>> => EntriesOf(q) = {})
         /\ \A e \in Entry :
              /\ EntriesOf(Append(q, e)) = EntriesOf(q) \cup {e}
              /\ Ascends(q) /\ Below(EntriesOf(q), {e}) => Ascends(Append(q, e))
         /\ q # <<>> => /\ EntriesOf(q) = EntriesOf(Tail(q)) \cup {Head(q)}
                        /\ Ascends(q) => Ascends(Tail(q)) /\ Below({Head(q)}, EntriesOf(Tail(q)))
<1>1. EntriesOf(q) \subseteq Entry /\ (q = <<>> => EntriesOf(q) = {})
  BY DEF EntriesOf
<1>2. ASSUME NEW e \in Entry
      PROVE  /\ EntriesOf(Append(q, e)) = EntriesOf(q) \cup {e}
             /\ Ascends(q) /\ Below(EntriesOf(q), {e}) => Ascends(Append(q, e))
  <2> DEFINE r == Append(q, e)
  <2>1. /\ Len(q) \in Nat /\ Len(r) = Len(q) + 1
        /\ \A i \in 1..Len(q) : r[i] = q[i]
        /\ r[Len(q) + 1] = e
    OBVIOUS
  <2>2. 1..Len(r) = (1..Len(q)) \cup {Len(q) + 1}
    BY <2>1
  <2> HIDE DEF r
  <2>3. EntriesOf(r) = EntriesOf(q) \cup {e}
    BY <2>1, <2>2 DEF EntriesOf
  <2>4. ASSUME Ascends(q), Below(EntriesOf(q), {e}), NEW i \in 1..Len(r), NEW j \in 1..Len(r), i < j
        PROVE  r[i].fence < r[j].fence
    <3>1. i \in 1..Len(q)
      BY <2>1, <2>4
    <3>2. CASE j \in 1..Len(q)
      BY <2>1, <2>4, <3>1, <3>2 DEF Ascends
    <3>3. CASE j = Len(q) + 1
      BY <2>1, <2>4, <3>1, <3>3 DEF Below, EntriesOf
    <3>4. QED
      BY <2>2, <3>2, <3>3
  <2>5. QED
    BY <2>3, <2>4 DEF r, Ascends
<1>3. ASSUME q # <<>>
      PROVE  /\ EntriesOf(q) = EntriesOf(Tail(q)) \cup {Head(q)}
             /\ Ascends(q) => Ascends(Tail(q)) /\ Below({Head(q)}, EntriesOf(Tail(q)))
  <2> DEFINE r == Tail(q)
  <2>1. /\ Len(q) \in Nat /\ Len(q) > 0 /\ Len(r) = Len(q) - 1
        /\ \A i \in 1..Len(r) : r[i] = q[i + 1]
        /\ Head(q) = q[1]
    BY <1>3
  <2> HIDE DEF r
  <2>2. /\ \A i \in 1..Len(r) : i + 1 \in 1..Len(q) /\ 1 < i + 1
        /\ \A i \in 1..Len(q) : i = 1 \/ (i - 1 \in 1..Len(r) /\ (i - 1) + 1 = i)
        /\ 1 \in 1..Len(q)
    BY <2>1
  <2>3. \A x \in EntriesOf(q) : x \in EntriesOf(r) \cup {q[1]}
    <3> SUFFICES ASSUME NEW i \in 1..Len(q), i # 1 PROVE q[i] \in EntriesOf(r)
      BY DEF EntriesOf
    <3>1. i - 1 \in 1..Len(r) /\ r[i - 1] = q[i]
      BY <2>1, <2>2
    <3>2. QED
      BY <3>1 DEF EntriesOf
  <2>4. EntriesOf(r) \subseteq EntriesOf(q) /\ q[1] \in EntriesOf(q)
    BY <2>1, <2>2 DEF EntriesOf
  <2>5. ASSUME Ascends(q) PROVE Ascends(r)
    <3> SUFFICES ASSUME NEW i \in 1..Len(r), NEW j \in 1..Len(r), i < j PROVE r[i].fence < r[j].fence
      BY DEF Ascends
    <3>1. i + 1 \in 1..Len(q) /\ j + 1 \in 1..Len(q) /\ i + 1 < j + 1
      BY <2>1, <2>2
    <3>2. q[i + 1].fence < q[j + 1].fence
      BY <2>5, <3>1 DEF Ascends
    <3>3. QED
      BY <2>1, <3>2
  <2>6. ASSUME Ascends(q) PROVE Below({q[1]}, EntriesOf(r))
    <3> SUFFICES ASSUME NEW i \in 1..Len(r) PROVE q[1].fence < r[i].fence
      BY DEF Below, EntriesOf
    <3>1. i + 1 \in 1..Len(q) /\ 1 \in 1..Len(q) /\ 1 < i + 1
      BY <2>2
    <3>2. QED
      BY <2>1, <2>6, <3>1 DEF Ascends
  <2>7. QED
    BY <2>1, <2>3, <2>4, <2>5, <2>6 DEF r
<1>4. QED
  BY <1>1, <1>2, <1>3

LEMMA FifoTypes ==
  ASSUME IdInv
  PROVE  /\ subQ \in Seq(Entry) /\ notQ \in Seq(Entry) /\ told \in Seq(Entry)
         /\ item \in [Threads -> Entry] /\ dpcItem \in Entry /\ DOMAIN pc = Threads
         /\ next \in Nat /\ lastDone \in Nat /\ completed \in Nat /\ MaxFence \in Nat
         /\ \A e \in Entry : e.fence \in Nat /\ e.last \in Nat /\ e.preempt \in BOOLEAN
         /\ Past \subseteq Entry /\ AtDpc \subseteq Entry /\ EntriesOf(notQ) \subseteq Entry
         /\ EntriesOf(subQ) \subseteq Entry /\ EntriesOf(told) \subseteq Entry
         /\ \A t \in Threads : Carries(t) => item[t].fence > 0
         /\ dpc = "notify" => dpcItem.fence > 0
         /\ \A c \in Callers : pc[c] \in CallerPC
         /\ \A w \in Workers : pc[w] \in WorkerPC
<1>1. /\ subQ \in Seq(Entry) /\ notQ \in Seq(Entry) /\ told \in Seq(Entry)
      /\ item \in [Threads -> Entry] /\ dpcItem \in Entry /\ DOMAIN pc = Threads
      /\ next \in Nat /\ lastDone \in Nat /\ completed \in Nat /\ MaxFence \in Nat
      /\ \A c \in Callers : pc[c] \in CallerPC
      /\ \A w \in Workers : pc[w] \in WorkerPC
  BY BoundAssumption DEF IdInv, TypeOK
<1>2. \A e \in Entry : e.fence \in Nat /\ e.last \in Nat /\ e.preempt \in BOOLEAN
  BY <1>1 DEF Entry
<1>3. /\ EntriesOf(notQ) \subseteq Entry /\ AtDpc \subseteq Entry
      /\ EntriesOf(subQ) \subseteq Entry /\ EntriesOf(told) \subseteq Entry
  BY <1>1, EntriesFacts DEF AtDpc
<1>4. \A t \in Threads : Carries(t) => item[t].fence > 0
  BY <1>1, <1>2 DEF IdInv, HoldsRequest, Carries, Running, HoldPC
<1>5. dpc = "notify" => dpcItem.fence > 0
  BY <1>1, <1>2 DEF IdInv, HoldsRequest
<1>6. QED
  BY <1>1, <1>2, <1>3, <1>4, <1>5 DEF Past

(* One thread completes requests, and one at most brings them.              *)
LEMMA Lone ==
  ASSUME IdInv, Lane, InSeries
  PROVE  /\ \A s, t \in Threads : Running(s) /\ Running(t) => s = t
         /\ \A s, t \in Threads : pc[s] = "enq" /\ pc[t] = "enq" => s = t
         /\ \A s, t \in Threads : pc[s] = "enq" /\ Running(t) => t \in Workers
         /\ \A w \in Workers : Running(w) \/ pc[w] \in {"take", "kick"} => w = thread
<1>1. \A w \in Workers : Running(w) \/ pc[w] \in {"take", "kick"} => w = thread
  BY DEF Lane, Running
<1>2. \A c \in Callers : /\ Running(c) => thread = NoThread
                         /\ pc[c] = "enq" => thread # NoThread
  BY DEF Lane, CallerLane, Running
<1>3. \A w \in Workers : pc[w] # "enq"
  BY FifoTypes DEF WorkerPC
<1>4. QED
  BY <1>1, <1>2, <1>3, ThreadsAssumption DEF Threads, InSeries

(* What a step that touches no request leaves as it was.                    *)
Fifo == Order /\ Marks /\ Boundaries /\ CompletedBehind
Calm ==
    /\ UNCHANGED <<subQ, notQ, told, dpcItem, item, next, lastDone, completed>>
    /\ (dpc' = "notify") = (dpc = "notify")
    /\ \A t \in Threads : Carries(t)' => pc'[t] = pc[t]

LEMMA CalmFifo ==
  ASSUME Fifo, Calm
  PROVE  Fifo'
<1>1. /\ AtDpc' = AtDpc /\ Past' = Past
      /\ EntriesOf(subQ)' = EntriesOf(subQ) /\ EntriesOf(notQ)' = EntriesOf(notQ)
      /\ EntriesOf(told)' = EntriesOf(told)
  BY DEF Calm, AtDpc, Past
<1>2. \A t \in Threads : /\ Running(t)' => Running(t) /\ pc'[t] = pc[t]
                         /\ pc'[t] = "enq" => pc[t] = "enq"
                         /\ Carries(t)' => Carries(t) /\ pc'[t] = pc[t]
  BY DEF Calm, Carries, Running
<1>3. Order'
  BY <1>1, <1>2 DEF Fifo, Order, Calm
<1>4. Marks'
  <2>1. \A t \in Threads : pc'[t] \in {"mark", "last", "push", "enq"} => pc[t] = pc'[t]
    BY <1>2 DEF Carries, Running
  <2>2. QED
    BY <1>1, <2>1 DEF Fifo, Marks, Calm
<1>5. Boundaries'
  <2>1. \A t \in Threads : pc'[t] = "push" => pc[t] = "push"
    BY <1>2 DEF Carries, Running
  <2>2. \A m : Parts(m) => Parts(m)'
    BY <1>1 DEF Parts
  <2>3. QED
    BY <1>1, <2>1, <2>2 DEF Fifo, Boundaries, Calm
<1>6. CompletedBehind'
  BY <1>1, <1>2 DEF Fifo, CompletedBehind, Calm
<1>7. QED
  BY <1>3, <1>4, <1>5, <1>6 DEF Fifo

(* Who completes requests does not change while a session runs.             *)
LEMMA LaneNext ==
  ASSUME IdInv, Lane, InSeries, RoomLeft, [Next]_vars
  PROVE  Lane'
<1>1. /\ DOMAIN pc = Threads /\ Callers \cap Workers = {} /\ NoThread \notin Workers
      /\ \A c \in Callers : c \in Threads /\ c \notin Workers
      /\ \A w \in Workers : w \in Threads /\ w \notin Callers
      /\ starts \in Nat /\ MaxStarts <= 1 /\ MaxStarts \in Nat
      /\ thread \in Workers \cup {NoThread} /\ stop \in BOOLEAN
  BY FifoTypes, ThreadsAssumption, BoundAssumption DEF Threads, InSeries, IdInv, TypeOK
<1>2. ASSUME NEW c \in Callers, Submit(c) \/ Preempt(c) \/ Reset(c) \/ CallerStep(c)
      PROVE  Lane'
  <2>1. /\ starts # 0 /\ life = "up" /\ UNCHANGED <<starts, life, thread, stop>>
        /\ \A s \in Threads \ {c} : pc'[s] = pc[s]
        /\ subQ' = <<>> \/ subQ' = subQ \/ pc[c] = "enq"
    BY <1>1, <1>2 DEF Lane, CallerLane, NotStarted, Submit, Preempt, Reset, Enter, CallerStep, CompletionStep,
       EnqueueOk, EnqueueFull, Signal, DrainMarker, DrainSubmit, DrainDone, Mark, ReadLast,
       Push, Kick, Goto, InSeries
  <2>2. CallerLane(c)'
    <3>1. CallerLane(c)
      BY DEF Lane
    <3>2. CASE Submit(c) \/ Preempt(c)
      <4>1. pc'[c] \in IF WorkerUsable THEN {"enq"} ELSE {"mark", "last"}
        BY <1>1, <3>2 DEF Submit, Preempt, Goto
      <4>2. IF WorkerUsable THEN thread # NoThread ELSE thread = NoThread
        BY <1>1, <2>1 DEF Lane, WorkerUsable
      <4>3. QED
        BY <2>1, <4>1, <4>2 DEF CallerLane
    <3>3. CASE EnqueueOk(c) \/ Signal(c) \/ Mark(c) \/ ReadLast(c) \/ Push(c) \/ Kick(c)
      BY <1>1, <2>1, <3>1, <3>3 DEF CallerLane, EnqueueOk, Signal, Mark, ReadLast, Push, Kick, Goto
    <3>4. ~EnqueueFull(c)
      BY DEF EnqueueFull, RoomLeft
    <3>5. QED
      BY <1>2, <3>1, <3>2, <3>3, <3>4 DEF CallerLane, Reset, Enter, CallerStep, CompletionStep,
         DrainMarker, DrainSubmit, DrainDone, InSeries
  <2>3. \A d \in Callers : d = c
    BY DEF InSeries
  <2>4. life' = "up" => IF thread' = NoThread THEN subQ' = <<>> ELSE ~stop'
    BY <2>1 DEF Lane, CallerLane
  <2>5. QED
    BY <1>1, <2>1, <2>2, <2>3, <2>4 DEF Lane
<1>3. ASSUME NEW w \in Workers, WorkerStep(w)
      PROVE  Lane'
  <2>1. /\ starts # 0 /\ UNCHANGED <<starts, life, thread, stop>>
        /\ \A s \in Threads \ {w} : pc'[s] = pc[s]
        /\ subQ' = subQ \/ subQ # <<>>
        /\ pc[w] # "none"
    BY <1>1, <1>3 DEF Lane, NotStarted, WorkerStep, CompletionStep,
       Wait, CheckStop, TakeNext, TakeNone, Mark, ReadLast, Push, Kick, Goto
  <2>2. w # thread => pc'[w] = "none" \/ (stop' /\ pc'[w] \in {"wait", "woken"})
    BY <1>1, <1>3, <2>1 DEF Lane, WorkerStep, CompletionStep,
       Wait, CheckStop, TakeNext, TakeNone, Mark, ReadLast, Push, Kick, Goto
  <2>3. \A c \in Callers : CallerLane(c)'
    BY <1>1, <2>1 DEF Lane, CallerLane
  <2>4. life' = "up" => IF thread' = NoThread THEN subQ' = <<>> ELSE ~stop'
    BY <2>1 DEF Lane
  <2>5. QED
    BY <1>1, <2>1, <2>2, <2>3, <2>4 DEF Lane
<1>4. CASE DpcStep
  <2>1. UNCHANGED <<starts, life, thread, stop, pc, subQ, next>>
    BY <1>4 DEF DpcStep, DpcStart, DpcTake, DpcEnd, DpcNotify
  <2>2. NotStarted => NotStarted'
    BY <1>4, <2>1 DEF NotStarted, DpcStep, DpcStart, DpcTake, DpcEnd, DpcNotify
  <2>3. QED
    BY <2>1, <2>2 DEF Lane, CallerLane
<1>5. CASE Start
  <2>1. NotStarted /\ starts' # 0 /\ life' = "up" /\ starts = 0
    BY <1>1, <1>5 DEF Start, Lane
  <2>2. \A c \in Callers : pc[c] = "idle"
    BY <2>1 DEF Lane, CallerLane, NotStarted
  <2>3. ASSUME NEW w \in Workers, InitOk(w) \/ InitOrphan(w)
        PROVE  Lane'
    BY <1>1, <2>1, <2>2, <2>3 DEF Lane, CallerLane, NotStarted, InitOk, InitOrphan, ResetRing, Goto
  <2>4. CASE InitNoThread \/ InitSkipped
    BY <1>1, <2>1, <2>2, <2>4 DEF Lane, CallerLane, NotStarted, InitNoThread, InitSkipped, ResetRing
  <2>5. QED
    BY <1>5, <2>3, <2>4 DEF Start, SchedInit
<1>6. CASE StopBegin \/ StopStep
  <2>1. /\ starts # 0 /\ UNCHANGED <<starts, subQ, pc>> /\ life' # "up"
        /\ thread' = thread \/ (thread' = NoThread /\ pc[thread] = "none")
        /\ stop' = stop \/ stop' = TRUE
        /\ life = "up" => \A c \in Callers : pc[c] = "idle"
    BY <1>6 DEF Lane, NotStarted, StopBegin, StopStep, StopSignal, StopJoin, StopClose
  <2>2. \A c \in Callers : pc[c] = "idle"
    BY <1>6, <2>1 DEF Lane, CallerLane, StopBegin, StopStep, StopSignal, StopJoin, StopClose
  <2>3. \A w \in Workers : w # thread' => pc'[w] = "none" \/ (stop' /\ pc'[w] \in {"wait", "woken"})
    BY <2>1 DEF Lane
  <2>4. QED
    BY <2>1, <2>2, <2>3 DEF Lane, CallerLane
<1>7. CASE UNCHANGED vars
  BY <1>7 DEF vars, Lane, CallerLane, NotStarted
<1>8. QED
  BY <1>2, <1>3, <1>4, <1>5, <1>6, <1>7 DEF Next, Finished

----------------------------------------------------------------------------
(* SubmitCommand and PreemptCommand bring the newest request.               *)
LEMMA IssueFifo ==
  ASSUME IdInv, Lane, InSeries, Fifo, NEW c \in Callers, Submit(c) \/ Preempt(c)
  PROVE  Fifo'
<1>1. /\ c \in Threads /\ pc[c] = "idle" /\ next' = next + 1
      /\ item'[c] \in Entry /\ item'[c].fence = next
      /\ pc'[c] \in {"enq", IF item'[c].preempt THEN "last" ELSE "mark"}
      /\ pc'[c] # "enq" => subQ = <<>>
      /\ \A t \in Threads \ {c} : pc'[t] = pc[t] /\ item'[t] = item[t]
      /\ UNCHANGED <<subQ, notQ, lastDone, completed, dpc, dpcItem, told>>
  <2>1. c \in Threads /\ pc[c] = "idle" /\ life = "up" /\ next \in 0..MaxFence
    <3>1. next \in 1..(MaxFence + 1) /\ base \in 1..next
      BY DEF IdInv, TypeOK
    <3>2. pc[c] = "idle" /\ life = "up" /\ next <= MaxFence
      BY DEF Submit, Preempt, Enter
    <3>3. QED
      BY <3>1, <3>2, NextFence DEF Threads
  <2>2. ~WorkerUsable => subQ = <<>>
    BY <2>1 DEF Lane, WorkerUsable
  <2>3. \A p \in BOOLEAN : /\ Request(next, p) \in Entry /\ Request(next, p).fence = next
                           /\ Request(next, p).preempt = p
    BY <2>1, EntryFacts DEF Request
  <2>4. CASE Submit(c)
    BY <2>1, <2>2, <2>3, <2>4, FifoTypes DEF Submit, Hold, Goto
  <2>5. CASE Preempt(c)
    BY <2>1, <2>2, <2>3, <2>5, FifoTypes DEF Preempt, Hold, Goto
  <2>6. QED
    BY <2>4, <2>5
<1>2. /\ AtDpc' = AtDpc /\ Past' = Past /\ EntriesOf(subQ)' = EntriesOf(subQ)
      /\ EntriesOf(notQ)' = EntriesOf(notQ) /\ EntriesOf(told)' = EntriesOf(told)
      /\ pc'[c] # "enq" => EntriesOf(subQ) = {}
  BY <1>1, EntriesFacts, FifoTypes DEF AtDpc, Past
<1>3. ASSUME NEW t \in Threads, NEW u \in Threads, pc'[t] = "enq", Running(u)'
      PROVE  item'[u].fence < item'[t].fence
  <2>1. t = c /\ u # c
    BY <1>1, <1>3, FifoTypes DEF Running, Threads, WorkerPC, InSeries
  <2>2. item[u].fence < next
    BY <1>1, <1>3, <2>1 DEF Fifo, Order, Carries, Running
  <2>3. QED
    BY <1>1, <2>1, <2>2
<1>4. Order'
  <2>1. \A t \in Threads : Carries(t)' => Below(Past, {item[t]})' /\ item'[t].fence < next'
    BY <1>1, <1>2, FifoTypes DEF Fifo, Order, Below, Carries, Running
  <2>2. \A t \in Threads : Running(t)' => Below({item[t]}, EntriesOf(subQ))'
    BY <1>1, <1>2, FifoTypes DEF Fifo, Order, Below, Running
  <2>3. \A t \in Threads : pc'[t] = "enq" => Below(EntriesOf(subQ), {item[t]})'
    BY <1>1, <1>2, FifoTypes DEF Fifo, Order, Below
  <2>4. \A x \in Past' \cup EntriesOf(subQ)' : x.fence < next'
    BY <1>1, <1>2, FifoTypes DEF Fifo, Order
  <2>5. QED
    BY <1>1, <1>2, <1>3, <2>1, <2>2, <2>3, <2>4 DEF Fifo, Order
<1>5. Marks'
  <2>1. \A t \in Threads : /\ pc'[t] = "mark" => ~item'[t].preempt
                           /\ pc'[t] = "last" => item'[t].preempt
                           /\ pc'[t] = "push" => t # c
    BY <1>1 DEF Fifo, Marks
  <2>2. lastDone < next /\ lastDone' < next'
    BY <1>1, FifoTypes DEF Fifo, Marks
  <2>3. \A t \in Threads : pc'[t] \in {"mark", "last", "enq"} => lastDone' < item'[t].fence
    BY <1>1, <2>2 DEF Fifo, Marks
  <2>4. \A t \in Threads : pc'[t] = "push" /\ ~item'[t].preempt => item'[t].fence <= lastDone'
    BY <1>1, <2>1 DEF Fifo, Marks
  <2>5. QED
    BY <1>1, <1>2, <2>1, <2>2, <2>3, <2>4 DEF Fifo, Marks
<1>6. Boundaries'
  <2>1. \A m : Parts(m) => Parts(m)'
    BY <1>2 DEF Parts
  <2>2. QED
    BY <1>1, <1>2, <2>1 DEF Fifo, Boundaries
<1>7. CompletedBehind'
  BY <1>1, <1>2, FifoTypes DEF Fifo, CompletedBehind, Carries, Running
<1>8. QED
  BY <1>4, <1>5, <1>6, <1>7 DEF Fifo

(* The critical section of SchedEnqueue_ puts the newest request last.      *)
LEMMA EnqueueFifo ==
  ASSUME IdInv, Lane, InSeries, Fifo, NEW c \in Callers, EnqueueOk(c)
  PROVE  Fifo'
<1> DEFINE e == item[c]
           S == EntriesOf(subQ)
<1>1. /\ c \in Threads /\ pc[c] = "enq" /\ e \in Entry /\ subQ \in Seq(Entry)
      /\ subQ' = Append(subQ, e) /\ item'[c] = NoItem /\ pc'[c] = "wake"
      /\ \A t \in Threads \ {c} : pc'[t] = pc[t] /\ item'[t] = item[t]
      /\ UNCHANGED <<notQ, next, lastDone, completed, dpc, dpcItem, told>>
  BY FifoTypes DEF EnqueueOk, Threads, Hold, Goto
<1>2. /\ EntriesOf(subQ') = S \cup {e} /\ Below(S, {e})
      /\ AtDpc' = AtDpc /\ Past' = Past
      /\ EntriesOf(notQ') = EntriesOf(notQ) /\ EntriesOf(told') = EntriesOf(told)
  BY <1>1, EntriesFacts DEF AtDpc, Past, Fifo, Order
<1>3. Ascends(subQ')
  BY <1>1, <1>2, EntriesFacts DEF Fifo, Order
<1>5. \A t \in Threads : Carries(t)' => t # c /\ Carries(t) /\ pc'[t] = pc[t] /\ item'[t] = item[t]
  BY <1>1 DEF Carries, Running
<1>6. \A t \in Threads : /\ Running(t)' => t # c /\ Running(t) /\ item'[t] = item[t] /\ item[t].fence < e.fence
                         /\ pc'[t] # "enq"
  <2>1. \A t \in Threads : Running(t)' => t # c /\ Running(t) /\ item'[t] = item[t]
    BY <1>1 DEF Running
  <2>2. \A t \in Threads : Running(t)' => item[t].fence < e.fence
    BY <1>1, <2>1 DEF Fifo, Order
  <2>3. \A t \in Threads : pc'[t] # "enq"
    BY <1>1, Lone
  <2>4. QED
    BY <2>1, <2>2, <2>3
<1>7. Order'
  <2>1. Below(Past, {e}) /\ e.fence < next
    BY <1>1 DEF Fifo, Order, Carries
  <2>2. Below(Past', EntriesOf(subQ'))
    BY <1>2, <2>1 DEF Fifo, Order, Below
  <2>3. \A t \in Threads : Running(t)' => Below({item'[t]}, EntriesOf(subQ'))
    BY <1>2, <1>6 DEF Fifo, Order, Below
  <2>4. \A t \in Threads : Carries(t)' => Below(Past', {item'[t]}) /\ item'[t].fence < next'
    BY <1>1, <1>2, <1>5 DEF Fifo, Order
  <2>5. \A x \in Past' \cup EntriesOf(subQ') : x.fence < next'
    BY <1>1, <1>2, <2>1 DEF Fifo, Order
  <2>6. /\ Ascends(notQ')
        /\ Below(EntriesOf(told'), AtDpc' \cup EntriesOf(notQ')) /\ Below(AtDpc', EntriesOf(notQ'))
    BY <1>1, <1>2 DEF Fifo, Order
  <2>7. QED
    BY <1>3, <1>6, <2>2, <2>3, <2>4, <2>5, <2>6 DEF Order
<1>8. Marks'
  <2>1. \A t \in Threads : pc'[t] \in {"mark", "last", "push", "enq"} => pc[t] = pc'[t] /\ item'[t] = item[t]
    BY <1>5 DEF Carries, Running
  <2>2. lastDone < e.fence
    BY <1>1 DEF Fifo, Marks
  <2>3. QED
    BY <1>1, <1>2, <2>1, <2>2 DEF Fifo, Marks
<1>9. Boundaries'
  <2>1. \A t \in Threads : pc'[t] = "push" => pc[t] = "push" /\ item'[t] = item[t]
    BY <1>5 DEF Carries, Running
  <2>2. \A m : Parts(m) => Parts(m)'
    BY <1>2 DEF Parts
  <2>3. QED
    BY <1>2, <2>1, <2>2 DEF Fifo, Boundaries
<1>10. CompletedBehind'
  <2>1. completed < e.fence
    BY <1>1 DEF Fifo, CompletedBehind, Carries
  <2>2. QED
    BY <1>1, <1>2, <1>5, <2>1 DEF Fifo, CompletedBehind
<1>11. QED
  BY <1>7, <1>8, <1>9, <1>10 DEF Fifo

(* The worker takes the oldest request, and is the only one to complete.    *)
LEMMA TakeFifo ==
  ASSUME IdInv, Lane, InSeries, Fifo, NEW w \in Workers, TakeNext(w)
  PROVE  Fifo'
<1> DEFINE e == Head(subQ)
           S == EntriesOf(Tail(subQ))
<1>1. /\ w \in Threads /\ pc[w] = "take" /\ subQ \in Seq(Entry) /\ subQ # <<>>
      /\ subQ' = Tail(subQ) /\ e \in Entry /\ item'[w] = e
      /\ pc'[w] = (IF e.preempt THEN "last" ELSE "mark")
      /\ \A t \in Threads \ {w} : pc'[t] = pc[t] /\ item'[t] = item[t]
      /\ UNCHANGED <<notQ, next, lastDone, completed, dpc, dpcItem, told>>
  BY FifoTypes DEF TakeNext, DequeueSub, Threads, Hold, Goto, Inline
<1>2. /\ EntriesOf(subQ) = S \cup {e} /\ EntriesOf(subQ') = S /\ Below({e}, S) /\ Ascends(subQ')
      /\ AtDpc' = AtDpc /\ Past' = Past
      /\ EntriesOf(notQ') = EntriesOf(notQ) /\ EntriesOf(told') = EntriesOf(told)
  BY <1>1, EntriesFacts DEF AtDpc, Past, Fifo, Order
<1>3. \A t \in Threads : Running(t)' => t = w
  <2>1. w = thread /\ thread # NoThread
    BY <1>1, Lone, ThreadsAssumption
  <2>2. \A c \in Callers : ~Running(c)
    BY <2>1 DEF Lane, CallerLane, Running
  <2>3. \A v \in Workers \ {w} : ~Running(v)
    BY <2>1, Lone
  <2>4. QED
    BY <1>1, <2>2, <2>3 DEF Running, Threads
<1>4. \A t \in Threads : t # w /\ Carries(t)' => pc[t] = "enq" /\ pc'[t] = "enq" /\ item'[t] = item[t]
  BY <1>1, <1>3 DEF Carries
<1>6. Order'
  <2>1. Below(Past', {item'[w]}) /\ item'[w].fence < next'
    BY <1>1, <1>2 DEF Fifo, Order, Below
  <2>2. \A t \in Threads : Carries(t)' => Below(Past', {item'[t]}) /\ item'[t].fence < next'
    BY <1>1, <1>2, <1>4, <2>1 DEF Fifo, Order, Carries
  <2>3. Below(Past', EntriesOf(subQ'))
    BY <1>2 DEF Fifo, Order, Below
  <2>4. \A t \in Threads : Running(t)' => Below({item'[t]}, EntriesOf(subQ'))
    BY <1>1, <1>2, <1>3
  <2>5. \A t \in Threads : pc'[t] = "enq" =>
           /\ t # w /\ pc[t] = "enq" /\ item'[t] = item[t]
           /\ Below(EntriesOf(subQ'), {item'[t]}) /\ item'[w].fence < item'[t].fence
    <3> SUFFICES ASSUME NEW t \in Threads, pc'[t] = "enq"
        PROVE  /\ t # w /\ pc[t] = "enq" /\ item'[t] = item[t]
               /\ Below(EntriesOf(subQ'), {item'[t]}) /\ item'[w].fence < item'[t].fence
      OBVIOUS
    <3>1. t # w /\ pc[t] = "enq" /\ item'[t] = item[t]
      BY <1>1
    <3>2. Below(S \cup {e}, {item[t]})
      BY <1>2, <3>1 DEF Fifo, Order
    <3>3. QED
      BY <1>1, <1>2, <3>1, <3>2 DEF Below
  <2>6. \A x \in Past' \cup EntriesOf(subQ') : x.fence < next'
    BY <1>1, <1>2 DEF Fifo, Order
  <2>7. /\ Ascends(notQ')
        /\ Below(EntriesOf(told'), AtDpc' \cup EntriesOf(notQ')) /\ Below(AtDpc', EntriesOf(notQ'))
    BY <1>1, <1>2 DEF Fifo, Order
  <2>8. QED
    BY <1>2, <1>3, <2>2, <2>3, <2>4, <2>5, <2>6, <2>7 DEF Order
<1>7. Marks'
  <2>1. lastDone < e.fence
    BY <1>2 DEF Fifo, Marks
  <2>2. \A t \in Threads : pc'[t] = "enq" => pc[t] = "enq" /\ item'[t] = item[t]
    BY <1>1
  <2>3. \A t \in Threads : pc'[t] \in {"mark", "last", "push"} => t = w
    BY <1>3 DEF Running
  <2>4. pc'[w] # "push" /\ (pc'[w] = "mark" => ~e.preempt) /\ (pc'[w] = "last" => e.preempt)
    BY <1>1
  <2>5. QED
    BY <1>1, <1>2, <2>1, <2>2, <2>3, <2>4 DEF Fifo, Marks
<1>8. Boundaries'
  <2>1. \A t \in Threads : pc'[t] # "push"
    BY <1>1, <1>3 DEF Running
  <2>2. \A m : Parts(m) => Parts(m)'
    BY <1>2 DEF Parts
  <2>3. QED
    BY <1>2, <2>1, <2>2 DEF Fifo, Boundaries
<1>9. CompletedBehind'
  BY <1>1, <1>2, <1>4 DEF Fifo, CompletedBehind, Carries
<1>10. QED
  BY <1>6, <1>7, <1>8, <1>9 DEF Fifo

(* The thread that completes a request is the only one that does.           *)
LEMMA Completer ==
  ASSUME IdInv, Lane, InSeries, NEW t \in Threads, Mark(t) \/ ReadLast(t) \/ Push(t)
  PROVE  /\ Running(t) /\ pc[t] \in {"mark", "last", "push"} /\ item[t] \in Entry
         /\ \A u \in Threads \ {t} : ~Running(u) /\ pc'[u] = pc[u] /\ item'[u] = item[u]
<1>1. /\ t \in Callers \/ t \in Workers
      /\ pc[t] \in {"mark", "rmark", "last", "push", "rpush"}
      /\ item[t] \in Entry /\ item \in [Threads -> Entry] /\ DOMAIN pc = Threads
      /\ \A u \in Threads \ {t} : pc'[u] = pc[u] /\ item'[u] = item[u]
  BY FifoTypes DEF Threads, Mark, ReadLast, Push, Goto, Hold
<1>2. pc[t] \notin {"rmark", "rpush"}
  BY <1>1, FifoTypes DEF Lane, CallerLane, WorkerPC
<1>3. Running(t)
  BY <1>1, <1>2 DEF Running
<1>4. \A u \in Threads \ {t} : ~Running(u)
  BY <1>3, Lone
<1>5. QED
  BY <1>1, <1>2, <1>3, <1>4

(* SchedLastCompletedFence takes the fence of a submit.                     *)
LEMMA MarkFifo ==
  ASSUME IdInv, Lane, InSeries, Fifo, NEW t \in Threads, Mark(t)
  PROVE  Fifo'
<1>1. /\ Running(t) /\ pc[t] = "mark" /\ pc'[t] = "push" /\ lastDone' = item[t].fence
      /\ \A u \in Threads \ {t} : ~Running(u) /\ pc'[u] = pc[u]
      /\ UNCHANGED <<subQ, notQ, told, dpc, dpcItem, item, next, completed>>
  BY Completer, FifoTypes DEF Mark, Goto
<1>2. /\ AtDpc' = AtDpc /\ Past' = Past /\ EntriesOf(subQ') = EntriesOf(subQ)
      /\ EntriesOf(notQ') = EntriesOf(notQ) /\ EntriesOf(told') = EntriesOf(told)
  BY <1>1 DEF AtDpc, Past
<1>3. \A u \in Threads : /\ Running(u)' => u = t
                         /\ pc'[u] = "enq" => u # t /\ pc[u] = "enq"
                         /\ Carries(u)' => Carries(u)
  BY <1>1 DEF Running, Carries
<1>4. Order'
  BY <1>1, <1>2, <1>3 DEF Fifo, Order
<1>5. Marks'
  <2>1. \A u \in Threads : pc'[u] \notin {"mark", "last"} /\ (pc'[u] = "push" => u = t)
    BY <1>1 DEF Running
  <2>2. lastDone' < next'
    BY <1>1 DEF Fifo, Order, Carries
  <2>3. \A y \in EntriesOf(subQ') : lastDone' < y.fence
    BY <1>1, <1>2 DEF Fifo, Order, Below
  <2>4. \A u \in Threads : pc'[u] = "enq" => lastDone' < item'[u].fence
    BY <1>1, <1>3 DEF Fifo, Order
  <2>5. item'[t].fence <= lastDone'
    BY <1>1, FifoTypes, Completer
  <2>6. \A x \in Past' : x.fence <= lastDone'
    <3>1. \A x \in Past : x.fence < item[t].fence /\ x.fence \in Nat /\ item[t].fence \in Nat
      BY <1>1, FifoTypes, Completer DEF Fifo, Order, Carries, Below
    <3>2. QED
      BY <1>1, <1>2, <3>1
  <2>7. QED
    BY <2>1, <2>2, <2>3, <2>4, <2>5, <2>6 DEF Marks
<1>6. Boundaries'
  <2>1. \A u \in Threads : pc'[u] = "push" => ~item'[u].preempt
    BY <1>1 DEF Running, Fifo, Marks
  <2>2. \A m : Parts(m) => Parts(m)'
    BY <1>2 DEF Parts
  <2>3. \A u \in Threads : pc'[u] = "push" => Parts(item[u])'
    BY <1>1, <2>1 DEF Parts
  <2>4. QED
    BY <1>1, <1>2, <2>2, <2>3 DEF Fifo, Boundaries
<1>7. CompletedBehind'
  BY <1>1, <1>2, <1>3 DEF Fifo, CompletedBehind
<1>8. QED
  BY <1>4, <1>5, <1>6, <1>7 DEF Fifo

(* A preempt marker reads its boundary.                                     *)
LEMMA ReadLastFifo ==
  ASSUME IdInv, Lane, InSeries, Fifo, NEW t \in Threads, ReadLast(t)
  PROVE  Fifo'
<1>1. /\ Running(t) /\ pc[t] = "last" /\ pc'[t] = "push"
      /\ item'[t].fence = item[t].fence /\ item'[t].preempt = item[t].preempt
      /\ item'[t].last = lastDone /\ item[t].preempt
      /\ \A u \in Threads \ {t} : ~Running(u) /\ pc'[u] = pc[u] /\ item'[u] = item[u]
      /\ UNCHANGED <<subQ, notQ, told, dpc, dpcItem, lastDone, next, completed>>
  <2>1. /\ pc[t] = "last" /\ pc'[t] = "push" /\ item'[t] = [item[t] EXCEPT !.last = lastDone]
        /\ UNCHANGED <<subQ, notQ, told, dpc, dpcItem, lastDone, next, completed>>
    BY FifoTypes DEF ReadLast, Goto, Hold
  <2>2. item[t].preempt
    BY <2>1 DEF Fifo, Marks
  <2>3. item[t] \in Entry
    BY Completer
  <2>4. /\ item'[t].fence = item[t].fence /\ item'[t].preempt = item[t].preempt
        /\ item'[t].last = lastDone
    BY <2>1, <2>3 DEF Entry
  <2>5. QED
    BY <2>1, <2>2, <2>4, Completer
<1>2. /\ AtDpc' = AtDpc /\ Past' = Past /\ EntriesOf(subQ') = EntriesOf(subQ)
      /\ EntriesOf(notQ') = EntriesOf(notQ) /\ EntriesOf(told') = EntriesOf(told)
  BY <1>1 DEF AtDpc, Past
<1>3. \A u \in Threads : /\ item'[u].fence = item[u].fence
                         /\ Running(u)' => u = t
                         /\ pc'[u] = "enq" => u # t /\ pc[u] = "enq"
                         /\ Carries(u)' => Carries(u)
  BY <1>1 DEF Running, Carries
<1>4. Order'
  BY <1>1, <1>2, <1>3 DEF Fifo, Order, Below
<1>5. Marks'
  <2>1. \A u \in Threads : pc'[u] \notin {"mark", "last"} /\ (pc'[u] = "push" => u = t)
    BY <1>1 DEF Running
  <2>2. QED
    BY <1>1, <1>2, <1>3, <2>1 DEF Fifo, Marks
<1>6. Boundaries'
  <2>1. \A m : Parts(m) => Parts(m)'
    BY <1>2 DEF Parts
  <2>2. Parts(item[t])'
    BY <1>1, <1>2 DEF Parts, Fifo, Marks
  <2>3. \A u \in Threads : pc'[u] = "push" => u = t
    BY <1>1 DEF Running
  <2>4. QED
    BY <1>2, <2>1, <2>2, <2>3 DEF Fifo, Boundaries
<1>7. CompletedBehind'
  BY <1>1, <1>2, <1>3 DEF Fifo, CompletedBehind
<1>8. QED
  BY <1>4, <1>5, <1>6, <1>7 DEF Fifo

(* SchedPushFence_ puts the completed request behind everything on          *)
(* FenceQueue, and may lose the oldest there.                               *)
LEMMA PushFifo ==
  ASSUME IdInv, Lane, InSeries, Fifo, NEW t \in Threads, Push(t)
  PROVE  Fifo'
<1> DEFINE e == item[t]
           N == EntriesOf(notQ)
<1>1. /\ Running(t) /\ pc[t] = "push" /\ pc'[t] = "kick" /\ e \in Entry /\ PushFence(e)
      /\ \A u \in Threads \ {t} : ~Running(u) /\ pc'[u] = pc[u] /\ item'[u] = item[u]
      /\ UNCHANGED <<subQ, told, dpc, dpcItem, lastDone, next, completed>>
  BY Completer, FifoTypes DEF Push, Goto
<1>2. /\ Below(Past, {e}) /\ e.fence < next /\ Below({e}, EntriesOf(subQ)) /\ completed < e.fence
      /\ Parts(e) /\ (~e.preempt => e.fence <= lastDone)
  BY <1>1 DEF Fifo, Order, Carries, Boundaries, Marks, CompletedBehind
<1>3. Below(N, {e})
  BY <1>2 DEF Below, Past
<1>4. EntriesOf(notQ') \subseteq N \cup {e} /\ Ascends(notQ')
  <2>1. notQ \in Seq(Entry) /\ Ascends(notQ)
    BY FifoTypes DEF Fifo, Order
  <2>2. CASE notQ' = Append(notQ, e)
    BY <1>1, <1>3, <2>1, <2>2, EntriesFacts
  <2>3. CASE RingFull(notQ, NotDepth) /\ notQ' = Append(Tail(notQ), e)
    <3>1. notQ # <<>>
      BY <2>1, <2>3, DepthAssumption DEF RingFull
    <3>2. Tail(notQ) \in Seq(Entry) /\ EntriesOf(Tail(notQ)) \subseteq N /\ Ascends(Tail(notQ))
      <4>1. Tail(notQ) \in Seq(Entry)
        BY <2>1, <3>1
      <4>2. N = EntriesOf(Tail(notQ)) \cup {Head(notQ)} /\ Ascends(Tail(notQ))
        BY <2>1, <3>1, EntriesFacts
      <4>3. QED
        BY <4>1, <4>2
    <3>3. Below(EntriesOf(Tail(notQ)), {e})
      BY <1>3, <3>2 DEF Below
    <3>4. QED
      BY <1>1, <2>3, <3>2, <3>3, EntriesFacts
  <2>4. QED
    BY <1>1, <2>2, <2>3 DEF PushFence
<1>5. /\ AtDpc' = AtDpc /\ Past' \subseteq Past \cup {e} /\ EntriesOf(subQ') = EntriesOf(subQ)
      /\ EntriesOf(told') = EntriesOf(told) /\ EntriesOf(told) \cup AtDpc \subseteq Past
  BY <1>1, <1>4 DEF AtDpc, Past
<1>6. \A u \in Threads : /\ ~Running(u)'
                         /\ Carries(u)' => u # t /\ pc[u] = "enq" /\ pc'[u] = "enq" /\ item'[u] = item[u]
  BY <1>1 DEF Running, Carries
<1>7. Order'
  <2>1. Below(EntriesOf(told'), AtDpc' \cup EntriesOf(notQ')) /\ Below(AtDpc', EntriesOf(notQ'))
    BY <1>2, <1>4, <1>5 DEF Fifo, Order, Below
  <2>2. Below(Past', EntriesOf(subQ'))
    BY <1>2, <1>5 DEF Fifo, Order, Below
  <2>3. \A u \in Threads : Carries(u)' => Below(Past', {item'[u]}) /\ item'[u].fence < next'
    <3> SUFFICES ASSUME NEW u \in Threads, Carries(u)'
        PROVE  Below(Past', {item'[u]}) /\ item'[u].fence < next'
      OBVIOUS
    <3>1. u # t /\ pc[u] = "enq" /\ item'[u] = item[u]
      BY <1>6
    <3>2. e.fence < item[u].fence /\ Below(Past, {item[u]}) /\ item[u].fence < next
      BY <1>1, <3>1 DEF Fifo, Order, Carries
    <3>3. QED
      BY <1>1, <1>5, <3>1, <3>2 DEF Below
  <2>4. \A u \in Threads : pc'[u] = "enq" => Below(EntriesOf(subQ'), {item'[u]})
    BY <1>1, <1>5, <1>6 DEF Fifo, Order, Carries
  <2>5. \A x \in Past' \cup EntriesOf(subQ') : x.fence < next'
    BY <1>1, <1>2, <1>5 DEF Fifo, Order
  <2>6. Ascends(subQ')
    BY <1>1 DEF Fifo, Order
  <2>7. QED
    BY <1>4, <1>6, <2>1, <2>2, <2>3, <2>4, <2>5, <2>6 DEF Order
<1>8. Marks'
  <2>1. \A u \in Threads : pc'[u] \notin {"mark", "last", "push"}
    BY <1>6 DEF Running
  <2>2. \A u \in Threads : pc'[u] = "enq" => lastDone' < item'[u].fence
    BY <1>1, <1>6 DEF Fifo, Marks, Carries
  <2>3. \A x \in Past' : ~x.preempt => x.fence <= lastDone'
    BY <1>1, <1>2, <1>5 DEF Fifo, Marks
  <2>4. lastDone' < next' /\ \A y \in EntriesOf(subQ') : lastDone' < y.fence
    BY <1>1, <1>5 DEF Fifo, Marks
  <2>5. QED
    BY <2>1, <2>2, <2>3, <2>4 DEF Marks
<1>9. Boundaries'
  <2>1. \A u \in Threads : pc'[u] # "push"
    BY <1>6 DEF Running
  <2>2. ASSUME NEW m \in AtDpc' \cup EntriesOf(notQ') PROVE Parts(m)'
    <3>1. m \in Entry /\ e.fence \in Nat /\ m.fence \in Nat
      BY <1>1, <1>4, <1>5, FifoTypes
    <3>2. Parts(m) /\ m.fence <= e.fence
      <4>1. CASE m = e
        BY <1>2, <3>1, <4>1
      <4>2. CASE m \in AtDpc \cup N
        BY <1>2, <3>1, <4>2 DEF Fifo, Boundaries, Below, Past
      <4>3. QED
        BY <1>4, <1>5, <4>1, <4>2
    <3>3. \A x \in Past' : x.fence < m.fence => x \in Past
      BY <1>5, <3>1, <3>2
    <3>4. QED
      BY <3>2, <3>3 DEF Parts
  <2>3. QED
    BY <2>1, <2>2 DEF Boundaries
<1>10. CompletedBehind'
  <2>1. \A x \in AtDpc' \cup EntriesOf(notQ') \cup EntriesOf(subQ') : completed' < x.fence
    BY <1>1, <1>2, <1>4, <1>5 DEF Fifo, CompletedBehind
  <2>2. \A u \in Threads : Carries(u)' => completed' < item'[u].fence
    BY <1>1, <1>6 DEF Fifo, CompletedBehind, Carries
  <2>3. QED
    BY <1>1, <2>1, <2>2 DEF Fifo, CompletedBehind
<1>11. QED
  BY <1>7, <1>8, <1>9, <1>10 DEF Fifo

(* The DPC takes the oldest completion off FenceQueue.                      *)
LEMMA DpcTakeFifo ==
  ASSUME IdInv, Fifo, DpcTake
  PROVE  Fifo'
<1> DEFINE e == Head(notQ)
           N == EntriesOf(Tail(notQ))
<1>1. /\ notQ \in Seq(Entry) /\ notQ # <<>> /\ notQ' = Tail(notQ) /\ AtDpc = {} /\ AtDpc' = {e}
      /\ UNCHANGED <<subQ, told, item, pc, lastDone, next, completed>>
  BY FifoTypes DEF DpcTake, AtDpc
<1>2. EntriesOf(notQ) = N \cup {e} /\ EntriesOf(notQ') = N /\ Ascends(notQ') /\ Below({e}, N)
  BY <1>1, EntriesFacts DEF Fifo, Order
<1>3. /\ EntriesOf(subQ') = EntriesOf(subQ) /\ EntriesOf(told') = EntriesOf(told)
      /\ Past' = Past /\ AtDpc' \cup EntriesOf(notQ') = AtDpc \cup EntriesOf(notQ)
  BY <1>1, <1>2 DEF Past
<1>4. \A t \in Threads : Running(t)' = Running(t) /\ Carries(t)' = Carries(t)
  BY <1>1 DEF Running, Carries
<1>5. Order'
  BY <1>1, <1>2, <1>3, <1>4 DEF Fifo, Order
<1>6. Marks'
  BY <1>1, <1>3 DEF Fifo, Marks
<1>7. Boundaries'
  <2>1. \A m : Parts(m) => Parts(m)'
    BY <1>3 DEF Parts
  <2>2. QED
    BY <1>1, <1>3, <2>1 DEF Fifo, Boundaries
<1>8. CompletedBehind'
  BY <1>1, <1>3, <1>4 DEF Fifo, CompletedBehind
<1>9. QED
  BY <1>5, <1>6, <1>7, <1>8 DEF Fifo

(* It announces it, and GpuCompletedFence takes the fence of a submit.      *)
LEMMA DpcNotifyFifo ==
  ASSUME IdInv, Fifo, DpcNotify
  PROVE  Fifo' /\ completed' >= completed
<1> DEFINE e == dpcItem
<1>1. /\ told \in Seq(Entry) /\ told' = Append(told, e) /\ e \in Entry
      /\ AtDpc = {e} /\ AtDpc' = {} /\ completed' \in {completed, e.fence}
      /\ UNCHANGED <<subQ, notQ, item, pc, lastDone, next>>
  BY FifoTypes DEF DpcNotify, AtDpc
<1>2. EntriesOf(told') = EntriesOf(told) \cup {e}
  BY <1>1, EntriesFacts
<1>3. /\ EntriesOf(subQ') = EntriesOf(subQ) /\ EntriesOf(notQ') = EntriesOf(notQ)
      /\ Past' = Past /\ e \in Past
  BY <1>1, <1>2 DEF Past
<1>4. \A t \in Threads : Running(t)' = Running(t) /\ Carries(t)' = Carries(t)
  BY <1>1 DEF Running, Carries
<1>5. Order'
  <2>1. Below(EntriesOf(told'), AtDpc' \cup EntriesOf(notQ')) /\ Below(AtDpc', EntriesOf(notQ'))
    BY <1>1, <1>2, <1>3 DEF Fifo, Order, Below
  <2>2. QED
    BY <1>1, <1>3, <1>4, <2>1 DEF Fifo, Order
<1>6. Marks'
  BY <1>1, <1>3 DEF Fifo, Marks
<1>7. Boundaries'
  <2>1. \A m : Parts(m) => Parts(m)'
    BY <1>3 DEF Parts
  <2>2. QED
    BY <1>1, <1>3, <2>1 DEF Fifo, Boundaries
<1>8. completed' < next' /\ completed' >= completed
  BY <1>1, <1>3, FifoTypes DEF Fifo, Order, CompletedBehind
<1>9. CompletedBehind'
  <2>1. \A x \in EntriesOf(notQ) \cup EntriesOf(subQ) : completed < x.fence /\ e.fence < x.fence
    BY <1>1, <1>3 DEF Fifo, Order, CompletedBehind, Below
  <2>2. \A t \in Threads : Carries(t) => completed < item[t].fence /\ e.fence < item[t].fence
    BY <1>3 DEF Fifo, Order, CompletedBehind, Below
  <2>3. QED
    BY <1>1, <1>3, <1>4, <1>8, <2>1, <2>2 DEF CompletedBehind
<1>10. QED
  BY <1>5, <1>6, <1>7, <1>8, <1>9 DEF Fifo

(* Without requests anywhere the order is trivial.                          *)
Empty ==
    /\ subQ = <<>> /\ notQ = <<>> /\ told = <<>> /\ dpc # "notify"
    /\ \A t \in Threads : ~Carries(t)
    /\ lastDone < next /\ completed < next

LEMMA EmptyFifo == Empty => Fifo
<1> SUFFICES ASSUME Empty PROVE Fifo
  OBVIOUS
<1>1. /\ EntriesOf(subQ) = {} /\ EntriesOf(notQ) = {} /\ EntriesOf(told) = {}
      /\ AtDpc = {} /\ Past = {} /\ Len(subQ) = 0 /\ Len(notQ) = 0
  BY DEF Empty, EntriesOf, AtDpc, Past
<1>2. \A t \in Threads : ~Carries(t) /\ ~Running(t) /\ pc[t] \notin {"mark", "last", "push", "enq"}
  BY DEF Empty, Carries, Running
<1>3. Order
  BY <1>1, <1>2 DEF Order, Ascends, Below
<1>4. Marks
  BY <1>1, <1>2 DEF Marks, Empty
<1>5. Boundaries /\ CompletedBehind
  BY <1>1, <1>2 DEF Boundaries, CompletedBehind, Empty
<1>6. QED
  BY <1>3, <1>4, <1>5 DEF Fifo

LEMMA StartFifo ==
  ASSUME IdInv, Lane, InSeries, Fifo, Start
  PROVE  Fifo'
<1>1. NotStarted
  <2>1. starts \in Nat /\ MaxStarts \in Nat
    BY BoundAssumption DEF IdInv, TypeOK
  <2>2. starts = 0
    BY <2>1 DEF Start, InSeries
  <2>3. QED
    BY <2>2 DEF Lane
<1>2. /\ next' = next /\ notQ' = <<>> /\ told' = <<>> /\ dpc' = dpc /\ dpc # "notify"
      /\ completed' = completed /\ completed < next /\ lastDone < next /\ next \in Nat /\ next > 0
  BY <1>1, FifoTypes DEF Start, NotStarted, Fifo, Marks, CompletedBehind, IdInv, TypeOK
<1>3. subQ' = <<>> /\ lastDone' \in {0, lastDone}
  BY <1>1 DEF NotStarted, Start, SchedInit, InitOk, InitNoThread, InitOrphan, InitSkipped, ResetRing
<1>4. \A t \in Threads : pc'[t] \in {"idle", "none", "wait"}
  <2>1. \A t \in Threads : pc[t] \in {"idle", "none"}
    BY <1>1 DEF Lane, CallerLane, NotStarted, Threads
  <2>2. pc' = pc \/ \E w \in Workers : pc' = [pc EXCEPT ![w] = "wait"]
    BY DEF Start, SchedInit, InitOk, InitNoThread, InitOrphan, InitSkipped, Goto
  <2>3. QED
    BY <2>1, <2>2, FifoTypes
<1>5. Empty'
  BY <1>2, <1>3, <1>4 DEF Empty, Carries, Running
<1>6. Empty' => Fifo'
  BY EmptyFifo, PTL
<1>7. QED
  BY <1>5, <1>6

(* Everything else moves no request and announces none.                     *)
LEMMA CalmStep ==
  ASSUME IdInv, Lane, InSeries, RoomLeft, Fifo,
         \/ \E c \in Callers : EnqueueFull(c) \/ Signal(c) \/ Reset(c) \/ DrainMarker(c)
                               \/ DrainSubmit(c) \/ DrainDone(c)
         \/ \E w \in Workers : Wait(w) \/ CheckStop(w) \/ TakeNone(w)
         \/ \E t \in Threads : Kick(t)
         \/ DpcStart \/ DpcEnd \/ StopBegin \/ StopStep \/ UNCHANGED vars
  PROVE  Fifo' /\ completed' = completed
<1>1. Calm
  <2>1. ASSUME NEW c \in Callers, EnqueueFull(c) \/ Signal(c) \/ Reset(c) \/ DrainMarker(c)
                                  \/ DrainSubmit(c) \/ DrainDone(c)
        PROVE  Calm
    <3>1. ~EnqueueFull(c)
      BY DEF EnqueueFull, RoomLeft
    <3>2. ~Reset(c) /\ ~DrainMarker(c) /\ ~DrainSubmit(c) /\ ~DrainDone(c)
      BY DEF Lane, CallerLane, InSeries, Reset, Enter, DrainMarker, DrainSubmit, DrainDone
    <3>3. QED
      BY <2>1, <3>1, <3>2, FifoTypes DEF Signal, Goto, Calm, Carries, Running
  <2>2. ASSUME NEW w \in Workers, Wait(w) \/ CheckStop(w) \/ TakeNone(w)
        PROVE  Calm
    BY <2>2, FifoTypes DEF Wait, CheckStop, TakeNone, Goto, Calm, Carries, Running
  <2>3. ASSUME NEW t \in Threads, Kick(t)
        PROVE  Calm
    BY <2>3, FifoTypes DEF Kick, Goto, Calm, Carries, Running
  <2>4. CASE DpcStart \/ DpcEnd
    BY <2>4 DEF DpcStart, DpcEnd, Calm
  <2>5. CASE StopBegin \/ StopStep
    BY <2>5 DEF StopBegin, StopStep, StopSignal, StopJoin, StopClose, Calm
  <2>6. CASE UNCHANGED vars
    BY <2>6 DEF vars, Calm
  <2>7. QED
    BY <2>1, <2>2, <2>3, <2>4, <2>5, <2>6
<1>2. QED
  BY <1>1, CalmFifo DEF Calm

LEMMA FifoNext ==
  ASSUME IdInv, Lane, InSeries, RoomLeft, Fifo, [Next]_vars
  PROVE  Fifo' /\ completed' >= completed
<1>1. completed \in Nat /\ Callers \subseteq Threads /\ Workers \subseteq Threads
  BY FifoTypes DEF Threads
<1>2. ASSUME NEW t \in Threads, CompletionStep(t)
      PROVE  Fifo' /\ completed' >= completed
  <2>1. CASE Mark(t)
    BY <1>1, <2>1, MarkFifo DEF Mark
  <2>2. CASE ReadLast(t)
    BY <1>1, <2>2, ReadLastFifo DEF ReadLast
  <2>3. CASE Push(t)
    BY <1>1, <2>3, PushFifo DEF Push
  <2>4. CASE Kick(t)
    BY <1>1, <2>4, CalmStep
  <2>5. QED
    BY <1>2, <2>1, <2>2, <2>3, <2>4 DEF CompletionStep
<1>3. ASSUME NEW c \in Callers, Submit(c) \/ Preempt(c) \/ Reset(c) \/ CallerStep(c)
      PROVE  Fifo' /\ completed' >= completed
  <2>1. CASE Submit(c) \/ Preempt(c)
    <3>1. completed' = completed
      BY <2>1 DEF Submit, Preempt
    <3>2. QED
      BY <1>1, <2>1, <3>1, IssueFifo
  <2>2. CASE EnqueueOk(c)
    BY <1>1, <2>2, EnqueueFifo DEF EnqueueOk
  <2>3. CASE EnqueueFull(c) \/ Signal(c) \/ Reset(c) \/ DrainMarker(c) \/ DrainSubmit(c) \/ DrainDone(c)
    BY <1>1, <2>3, CalmStep
  <2>4. QED
    BY <1>1, <1>2, <1>3, <2>1, <2>2, <2>3 DEF CallerStep
<1>4. ASSUME NEW w \in Workers, WorkerStep(w)
      PROVE  Fifo' /\ completed' >= completed
  <2>1. CASE TakeNext(w)
    BY <1>1, <2>1, TakeFifo DEF TakeNext
  <2>2. CASE Wait(w) \/ CheckStop(w) \/ TakeNone(w)
    BY <1>1, <2>2, CalmStep
  <2>3. QED
    BY <1>1, <1>2, <1>4, <2>1, <2>2 DEF WorkerStep
<1>5. CASE DpcStep
  <2>1. CASE DpcTake
    BY <1>1, <2>1, DpcTakeFifo DEF DpcTake
  <2>2. CASE DpcNotify
    BY <2>2, DpcNotifyFifo
  <2>3. CASE DpcStart \/ DpcEnd
    BY <1>1, <2>3, CalmStep
  <2>4. QED
    BY <1>5, <2>1, <2>2, <2>3 DEF DpcStep
<1>6. CASE Start
  BY <1>1, <1>6, StartFifo DEF Start
<1>7. CASE StopBegin \/ StopStep \/ UNCHANGED vars
  BY <1>1, <1>7, CalmStep
<1>8. QED
  BY <1>3, <1>4, <1>5, <1>6, <1>7 DEF Next, Finished

LEMMA FifoAlways ==
  ASSUME InSeries
  PROVE  Spec /\ []RoomLeft => [](IdInv /\ Lane /\ Fifo)
<1>1. Init => Lane /\ Fifo
  <2> SUFFICES ASSUME Init PROVE Lane /\ Fifo
    OBVIOUS
  <2>1. Lane
    BY ThreadsAssumption DEF Init, Lane, NotStarted, CallerLane, Threads
  <2>2. Empty
    BY DEF Init, Empty, Carries, Running
  <2>3. QED
    BY <2>1, <2>2, EmptyFifo
<1>2. IdInv /\ Lane /\ Fifo /\ RoomLeft /\ [Next]_vars => (Lane /\ Fifo)'
  BY InSeries, LaneNext, FifoNext
<1>3. QED
  BY <1>1, <1>2, IdInvAlways, PTL DEF Spec

(* PreemptCommand reports an exact boundary: the marker goes through        *)
(* SubmitQueue behind every earlier submit and reads                        *)
(* SchedLastCompletedFence where it is completed, so whatever is announced  *)
(* before it is within the boundary and whatever comes later is beyond it   *)
(* (Ddi.c:670-672, 1014-1018).  A full ring sends a caller past the queue,  *)
(* a second caller or ResetEngine past a request the worker holds, and a    *)
(* restart clears SchedLastCompletedFence but not FenceQueue: hence the     *)
(* hypotheses.                                                              *)
THEOREM BoundaryExactHolds ==
  ASSUME InSeries
  PROVE  Spec /\ []RoomLeft => []BoundaryExact
<1>1. IdInv /\ Lane /\ Fifo => BoundaryExact
  <2> SUFFICES ASSUME IdInv, Lane, Fifo, dpc = "notify", dpcItem.preempt
               PROVE  /\ \A i \in 1..Len(told) : told[i].preempt \/ told[i].fence <= dpcItem.last
                      /\ \A f \in SubmitsInDriver : f > dpcItem.last /\ f > dpcItem.fence
    BY DEF BoundaryExact
  <2> DEFINE m == dpcItem
  <2>1. /\ m \in AtDpc /\ AtDpc = {m} /\ m \in Entry /\ m.fence \in Nat /\ m.last \in Nat
        /\ Parts(m) /\ m.last < m.fence
    BY FifoTypes DEF AtDpc, Fifo, Boundaries, Parts
  <2>2. ASSUME NEW i \in 1..Len(told) PROVE told[i].preempt \/ told[i].fence <= m.last
    <3>1. told[i] \in EntriesOf(told) /\ told[i] \in Past
      BY DEF EntriesOf, Past
    <3>2. told[i].fence < m.fence
      BY <2>1, <3>1 DEF Fifo, Order, Below
    <3>3. QED
      BY <2>1, <3>1, <3>2 DEF Parts
  <2>3. ASSUME NEW x \in EntriesOf(subQ) \cup EntriesOf(notQ)
        PROVE  x.fence > m.fence
    <3>1. m.fence < x.fence
      BY <2>1 DEF Fifo, Order, Below, Past
    <3>2. x.fence \in Nat
      BY FifoTypes
    <3>3. QED
      BY <2>1, <3>1, <3>2
  <2>4. ASSUME NEW t \in Threads, item[t].fence # 0
        PROVE  item[t].fence > m.fence
    <3>1. pc[t] \in HoldPC
      BY <2>4 DEF IdInv, HoldsRequest
    <3>2. Carries(t)
      BY <3>1, FifoTypes DEF HoldPC, Carries, Running, Lane, CallerLane, WorkerPC, Threads
    <3>3. m.fence < item[t].fence /\ item[t].fence \in Nat
      BY <2>1, <3>2, FifoTypes DEF Fifo, Order, Below, Past
    <3>4. QED
      BY <2>1, <3>3
  <2>5. ASSUME NEW f \in SubmitsInDriver PROVE f \in Nat /\ f > m.fence
    <3>1. PICK x \in EntriesOf(subQ) \cup EntriesOf(notQ) \cup {item[t] : t \in Threads} \cup {m} :
             x.fence = f /\ x.fence # 0 /\ ~x.preempt
      BY DEF SubmitsInDriver, EntriesOf
    <3>2. x # m
      BY <3>1
    <3>3. x.fence > m.fence /\ x \in Entry
      BY <2>3, <2>4, <3>1, <3>2, FifoTypes
    <3>4. QED
      BY <3>1, <3>3, FifoTypes
  <2>6. \A f \in SubmitsInDriver : f > m.last /\ f > m.fence
    BY <2>1, <2>5
  <2>7. QED
    BY <2>2, <2>6
<1>2. QED
  BY <1>1, FifoAlways, PTL

(* GpuCompletedFence, which the DPC writes with no lock and                 *)
(* QueryCurrentFence reports, only grows (Kmd.h:114).                       *)
THEOREM CompletionInOrderHolds ==
  ASSUME InSeries
  PROVE  Spec /\ []RoomLeft => CompletionInOrder
<1>1. IdInv /\ Lane /\ Fifo /\ RoomLeft /\ [Next]_vars => [completed' >= completed]_vars
  BY InSeries, FifoNext
<1>2. QED
  BY <1>1, FifoAlways, PTL DEF Spec, CompletionInOrder
==============================================================================
