--------------------------- MODULE CsfSubmitProofs ---------------------------
(***************************************************************************)
(* Proofs about CsfSubmit: success means execution, in the right address   *)
(* space and once, for every set of callers, every ring size and every     *)
(* behaviour of the jobs and of the MCU that the module allows.            *)
(***************************************************************************)
EXTENDS CsfSubmit, FiniteSetTheorems, TLAPS

(* The positions between Acquire and Unlock. *)
Inside == {"term", "start", "append", "wake", "poll", "expired", "recover", "failed",
           "rterm", "rstart", "unlock"}

LockInv == \A t \in Threads : pc[t] \in Inside <=> lock = t

(* What the owner of the lock knows: the job it is about to append has a    *)
(* number nobody used, the slot is stopped or started for it on an empty    *)
(* ring, and the job it polls for is the newest one and not answered.       *)
HolderInv ==
    \A t \in Threads :
        /\ pc[t] \in {"term", "start", "append"} => kqSeq < MaxJobs
        /\ pc[t] = "append" => csg.run /\ csg.as = AsOf(t) /\ cur = NoJob /\ insert = extract
        /\ pc[t] \in {"wake", "poll", "expired"} =>
              my[t] = kqSeq /\ kqSeq >= 1 /\ kqSeq \notin good \cup bad

(* The job the MCU executes is one that was appended for the AS the slot is *)
(* bound to, and has not run.                                               *)
CurInv ==
    cur # NoJob =>
        /\ csg.run /\ cur.as = csg.as /\ cur.seq <= kqSeq /\ extract < RingSlots
        /\ ~cur.signalled => cur.seq \notin RanJobs

(* At most one trampoline is ahead of the MCU, and it is the newest.        *)
RingInv ==
    /\ insert <= extract + 1
    /\ csg.run /\ cur = NoJob /\ extract < insert =>
          /\ ring[SlotOf(extract)].seq = kqSeq /\ ring[SlotOf(extract)].as = csg.as
          /\ kqSeq >= 1 /\ kqSeq \notin RanJobs

(* The sequence object counts the jobs that have run.                       *)
RanInv == RanJobs \subseteq 1..kqSeq /\ RanOnce

AnswerInv ==
    /\ SuccessMeansRan
    /\ bad \subseteq 1..kqSeq /\ good \cap bad = {}

CsfInv ==
    /\ TypeOK /\ LockInv /\ HolderInv /\ CurInv /\ RingInv
    /\ RanInv /\ AnswerInv /\ RightAddressSpace

----------------------------------------------------------------------------
(* A ring counter designates a slot; below the ring's size it designates    *)
(* its own.                                                                 *)
LEMMA SlotFacts ==
    /\ \A n \in Nat : SlotOf(n) \in Slot
    /\ \A n \in Slot : SlotOf(n) = n
  BY CsfAssumption DEF SlotOf, Slot

(* Counting the jobs that ran.                                              *)
LEMMA RanCount ==
  ASSUME NEW S, NEW n \in Nat, S \subseteq 1..n
  PROVE  /\ IsFiniteSet(S) /\ Cardinality(S) \in Nat
         /\ Cardinality(S) >= n => S = 1..n
         /\ \A x : x \notin S => Cardinality(S \cup {x}) = Cardinality(S) + 1
<1>1. IsFiniteSet(1..n) /\ Cardinality(1..n) = n
  BY FS_Interval
<1>2. IsFiniteSet(S) /\ Cardinality(S) \in Nat /\ Cardinality(S) <= n
      /\ (Cardinality(S) = n => S = 1..n)
  BY <1>1, FS_Subset, FS_CardinalityType
<1>3. QED
  BY <1>2, FS_AddElement

USE DEF driver, mcu, caller, Goto

LEMMA InitInv == Init => CsfInv
<1> SUFFICES ASSUME Init
             PROVE  CsfInv
  OBVIOUS
<1>1. RanJobs = {} /\ NoJob \notin Active
  BY DEF Init, RanJobs, NoJob, Active
<1>2. TypeOK
  <2>1. BringupAs \in Spaces /\ cur \in Active \cup {NoJob}
    BY DEF Init, Spaces
  <2>2. csg \in [run : BOOLEAN, idle : BOOLEAN, as : Spaces]
    BY <2>1 DEF Init
  <2>3. ring \in [Slot -> [seq : 0..MaxJobs, as : Spaces]]
    BY <2>1, CsfAssumption DEF Init
  <2>4. QED
    BY <2>1, <2>2, <2>3, CsfAssumption DEF Init, TypeOK
<1>3. LockInv /\ HolderInv
  BY CsfAssumption DEF Init, LockInv, HolderInv, Inside, Threads
<1>4. CurInv /\ RingInv
  BY DEF Init, CurInv, RingInv
<1>5. RanInv /\ AnswerInv /\ RightAddressSpace
  BY <1>1, FS_EmptySet
     DEF Init, RanInv, RanOnce, AnswerInv, SuccessMeansRan, RightAddressSpace
<1>6. QED
  BY <1>2, <1>3, <1>4, <1>5 DEF CsfInv

----------------------------------------------------------------------------
(* Steps of the callers.                                                    *)

(* A step that leaves the slot, the ring and the counters alone.            *)
LEMMA Frame ==
  ASSUME CsfInv, UNCHANGED <<kqSeq, insert, ring, extract, seqno, csg, cur, ran>>
  PROVE  /\ CurInv' /\ RingInv' /\ RanInv' /\ RightAddressSpace'
         /\ UNCHANGED <<good, bad>> => AnswerInv'
  BY DEF CsfInv, CurInv, RingInv, RanInv, RanOnce, AnswerInv, SuccessMeansRan,
         RightAddressSpace, RanJobs, SlotOf

(* Of a step of the owner of the lock inside its call, HolderInv is only    *)
(* about that owner.                                                        *)
LEMMA OwnerStep ==
  ASSUME CsfInv, NEW t \in Threads, pc[t] \in Inside, NEW l \in Inside,
         pc' = [pc EXCEPT ![t] = l], UNCHANGED lock
  PROVE  /\ LockInv' /\ pc'[t] = l
         /\ (/\ l \in {"term", "start", "append"} => kqSeq' < MaxJobs
             /\ l = "append" => csg'.run /\ csg'.as = AsOf(t) /\ cur' = NoJob /\ insert' = extract'
             /\ l \in {"wake", "poll", "expired"} =>
                   my'[t] = kqSeq' /\ kqSeq' >= 1 /\ kqSeq' \notin good' \cup bad')
            => HolderInv'
<1>1. \A u \in Threads \ {t} : pc'[u] = pc[u] /\ pc[u] \notin Inside
  BY DEF CsfInv, TypeOK, LockInv
<1>2. pc'[t] = l
  BY DEF CsfInv, TypeOK
<1>3. QED
  BY <1>1, <1>2 DEF CsfInv, LockInv, HolderInv, Inside

(* TERMINATE stops the slot and drops the job, or changes nothing there.     *)
LEMMA TerminateFacts ==
  ASSUME CsfInv, TerminateCsg
  PROVE  /\ started' \in BOOLEAN /\ csg' \in [run : BOOLEAN, idle : BOOLEAN, as : Spaces]
         /\ cur' \in Active \cup {NoJob} /\ extract' \in 0..RingSlots /\ extract' >= extract
         /\ UNCHANGED <<csg, cur, extract>> \/ (~csg'.run /\ cur' = NoJob)
<1>1. CASE UNCHANGED <<csg, cur, extract>>
  <2>1. /\ csg \in [run : BOOLEAN, idle : BOOLEAN, as : Spaces]
        /\ cur \in Active \cup {NoJob} /\ extract \in 0..RingSlots
    BY DEF CsfInv, TypeOK
  <2>2. extract' \in 0..RingSlots /\ extract' >= extract
    BY <1>1, <2>1, CsfAssumption
  <2>3. started' \in BOOLEAN
    BY DEF TerminateCsg
  <2>4. QED
    BY <1>1, <2>1, <2>2, <2>3
<1>2. CASE /\ csg' = [csg EXCEPT !.run = FALSE] /\ cur' = NoJob
           /\ extract' \in IF cur = NoJob THEN {extract} ELSE {extract, extract + 1}
  <2>1. extract \in 0..RingSlots /\ (cur # NoJob => extract < RingSlots) /\ RingSlots \in Nat
    BY CsfAssumption DEF CsfInv, TypeOK, CurInv
  <2>2. extract' \in 0..RingSlots /\ extract' >= extract
    BY <1>2, <2>1
  <2>3. csg' \in [run : BOOLEAN, idle : BOOLEAN, as : Spaces] /\ ~csg'.run
    BY <1>2 DEF CsfInv, TypeOK
  <2>4. QED
    BY <1>2, <2>2, <2>3 DEF TerminateCsg
<1>3. QED
  BY <1>1, <1>2 DEF TerminateCsg

(* An acknowledged START finds the slot stopped, and so without a job.      *)
LEMMA StartFacts ==
  ASSUME CsfInv, NEW as \in Spaces, NEW ack \in Acks, StartCsg(as, ack)
  PROVE  /\ ack \in BOOLEAN /\ insert' = extract /\ insert' \in 0..RingSlots
         /\ started' \in BOOLEAN /\ csg' \in [run : BOOLEAN, idle : BOOLEAN, as : Spaces]
         /\ ack => cur = NoJob /\ csg'.run /\ csg'.as = as
         /\ UNCHANGED csg \/ cur = NoJob
<1>1. ack \in BOOLEAN /\ (ack => cur = NoJob)
  BY CsfAssumption DEF Acks, CsfInv, CurInv
<1>2. CASE ack
  <2>1. /\ csg' = [run |-> TRUE, idle |-> FALSE, as |-> as] /\ started' = TRUE
        /\ insert' = extract /\ extract \in 0..RingSlots
    BY <1>2 DEF CsfInv, TypeOK, StartCsg, ProgramRing
  <2>2. QED
    BY <1>1, <1>2, <2>1
<1>3. CASE ~ack
  BY <1>1, <1>3 DEF CsfInv, TypeOK, StartCsg, ProgramRing
<1>4. QED
  BY <1>2, <1>3

LEMMA EnterInv ==
  ASSUME CsfInv, NEW t \in Threads, Enter(t)
  PROVE  CsfInv'
<1>1. TypeOK'
  BY CsfAssumption DEF CsfInv, TypeOK, Enter
<1>2. LockInv' /\ HolderInv'
  BY CsfAssumption DEF CsfInv, TypeOK, LockInv, HolderInv, Inside, Threads, Enter
<1>3. QED
  BY <1>1, <1>2, Frame DEF CsfInv, Enter

LEMMA AcquireInv ==
  ASSUME CsfInv, NEW t \in Threads, Acquire(t)
  PROVE  CsfInv'
<1>1. TypeOK'
  BY CsfAssumption DEF CsfInv, TypeOK, Acquire, Threads
<1>2. LockInv' /\ HolderInv'
  BY CsfAssumption DEF CsfInv, TypeOK, LockInv, HolderInv, Inside, Threads, Acquire
<1>3. QED
  BY <1>1, <1>2, Frame DEF CsfInv, Acquire

LEMMA UnlockInv ==
  ASSUME CsfInv, NEW t \in Threads, Unlock(t)
  PROVE  CsfInv'
<1>1. TypeOK'
  BY CsfAssumption DEF CsfInv, TypeOK, Unlock
<1>2. LockInv' /\ HolderInv'
  BY CsfAssumption DEF CsfInv, TypeOK, LockInv, HolderInv, Inside, Threads, Unlock
<1>3. QED
  BY <1>1, <1>2, Frame DEF CsfInv, Unlock

LEMMA TerminateInv ==
  ASSUME CsfInv, NEW t \in Threads, Terminate(t)
  PROVE  CsfInv'
<1>1. TypeOK'
  BY TerminateFacts DEF CsfInv, TypeOK, Terminate
<1>2. LockInv' /\ HolderInv'
  BY OwnerStep DEF CsfInv, HolderInv, Inside, Terminate
<1>3. CurInv' /\ RingInv'
  BY TerminateFacts DEF CsfInv, TypeOK, CurInv, RingInv, RanJobs, SlotOf, Terminate
<1>4. RanInv' /\ AnswerInv' /\ RightAddressSpace'
  BY DEF CsfInv, RanInv, RanOnce, AnswerInv, SuccessMeansRan,
         RightAddressSpace, RanJobs, Terminate
<1>5. QED
  BY <1>1, <1>2, <1>3, <1>4 DEF CsfInv

LEMMA StartInv ==
  ASSUME CsfInv, NEW t \in Threads, Start(t)
  PROVE  CsfInv'
<1>1. AsOf(t) \in Spaces
  BY DEF AsOf, Spaces, Threads
<1>2. PICK ack \in Acks : StartCsg(AsOf(t), ack) /\ Goto(t, IF ack THEN "append" ELSE "failed")
  BY DEF Start
<1>3. /\ ack \in BOOLEAN /\ insert' = extract /\ insert' \in 0..RingSlots
      /\ started' \in BOOLEAN /\ csg' \in [run : BOOLEAN, idle : BOOLEAN, as : Spaces]
      /\ ack => cur = NoJob /\ csg'.run /\ csg'.as = AsOf(t)
      /\ UNCHANGED csg \/ cur = NoJob
  BY <1>1, <1>2, StartFacts
<1>4. /\ pc[t] = "start" /\ kqSeq < MaxJobs
      /\ UNCHANGED <<lock, my, answer, kqSeq, ring, extract, seqno, cur, stalled, ran, calls, good, bad>>
  BY DEF Start, CsfInv, HolderInv
<1>5. TypeOK'
  BY <1>2, <1>3, <1>4 DEF CsfInv, TypeOK
<1>6. LockInv' /\ HolderInv'
  BY <1>2, <1>3, <1>4, OwnerStep DEF Inside
<1>7. CurInv' /\ RingInv'
  BY <1>3, <1>4 DEF CsfInv, TypeOK, CurInv, RingInv, RanJobs
<1>8. RanInv' /\ AnswerInv' /\ RightAddressSpace'
  BY <1>4 DEF CsfInv, RanInv, RanOnce, AnswerInv, SuccessMeansRan,
         RightAddressSpace, RanJobs
<1>9. QED
  BY <1>5, <1>6, <1>7, <1>8 DEF CsfInv

LEMMA AppendInv ==
  ASSUME CsfInv, NEW t \in Threads, Append(t)
  PROVE  CsfInv'
<1>1. SlotOf(insert) \in Slot /\ (insert \in Slot => SlotOf(insert) = insert)
  BY SlotFacts DEF CsfInv, TypeOK
<1>2. /\ kqSeq \in 0..MaxJobs /\ kqSeq < MaxJobs /\ kqSeq' = kqSeq + 1
      /\ kqSeq' \notin RanJobs /\ kqSeq' \notin good' \cup bad' /\ my'[t] = kqSeq'
  BY CsfAssumption DEF CsfInv, TypeOK, HolderInv, RanInv, AnswerInv,
         SuccessMeansRan, Append
<1>3. TypeOK'
  BY <1>1, <1>2, CsfAssumption DEF CsfInv, TypeOK, Append, AsOf, Spaces, Slot,
         Threads
<1>4. LockInv' /\ HolderInv'
  <2>1. /\ pc[t] = "append" /\ pc' = [pc EXCEPT ![t] = "wake"] /\ UNCHANGED lock
        /\ kqSeq' >= 1
    BY <1>2, CsfAssumption DEF Append
  <2>2. QED
    BY <1>2, <2>1, OwnerStep DEF Inside
<1>5. CurInv' /\ RingInv'
  BY <1>1, <1>2, CsfAssumption DEF CsfInv, TypeOK, HolderInv, CurInv, RingInv,
         RanJobs, SlotOf, Slot, Append
<1>6. RanInv' /\ AnswerInv' /\ RightAddressSpace'
  BY <1>2 DEF CsfInv, RanInv, RanOnce, AnswerInv, SuccessMeansRan,
         RightAddressSpace, RanJobs, Append
<1>7. QED
  BY <1>3, <1>4, <1>5, <1>6 DEF CsfInv

LEMMA WakeInv ==
  ASSUME CsfInv, NEW t \in Threads, Wake(t)
  PROVE  CsfInv'
<1>1. TypeOK'
  BY CsfAssumption DEF CsfInv, TypeOK, Wake
<1>2. LockInv' /\ HolderInv'
  BY OwnerStep DEF CsfInv, HolderInv, Inside, Wake
<1>3. CurInv' /\ RingInv'
  BY DEF CsfInv, TypeOK, CurInv, RingInv, RanJobs, SlotOf, Wake
<1>4. RanInv' /\ AnswerInv' /\ RightAddressSpace'
  BY DEF CsfInv, RanInv, RanOnce, AnswerInv, SuccessMeansRan,
         RightAddressSpace, RanJobs, Wake
<1>5. QED
  BY <1>1, <1>2, <1>3, <1>4 DEF CsfInv

(* seqno >= my[t] = kqSeq says that as many jobs have run as were appended. *)
LEMMA PollOkInv ==
  ASSUME CsfInv, NEW t \in Threads, PollOk(t)
  PROVE  CsfInv'
<1>1. my[t] = kqSeq /\ kqSeq \in 1..MaxJobs /\ kqSeq \notin good \cup bad
  BY CsfAssumption DEF CsfInv, TypeOK, HolderInv, PollOk
<1>2. RanJobs \subseteq 1..kqSeq /\ Cardinality(RanJobs) >= kqSeq
  BY <1>1 DEF CsfInv, RanInv, RanOnce, PollOk, Signalled
<1>3. kqSeq \in RanJobs
  <2>1. kqSeq \in Nat /\ kqSeq \in 1..kqSeq
    BY <1>1, CsfAssumption
  <2>2. RanJobs = 1..kqSeq
    BY <1>2, <2>1, RanCount
  <2>3. QED
    BY <2>1, <2>2
<1>4. TypeOK'
  BY <1>1, CsfAssumption DEF CsfInv, TypeOK, PollOk
<1>5. LockInv' /\ HolderInv'
  BY OwnerStep DEF Inside, PollOk
<1>6. AnswerInv'
  BY <1>1, <1>3 DEF CsfInv, AnswerInv, SuccessMeansRan, RanJobs, PollOk
<1>7. QED
  BY <1>4, <1>5, <1>6, Frame DEF CsfInv, PollOk

LEMMA PollLastInv ==
  ASSUME CsfInv, NEW t \in Threads, PollLast(t)
  PROVE  CsfInv'
<1>1. TypeOK'
  BY CsfAssumption DEF CsfInv, TypeOK, PollLast
<1>2. LockInv' /\ HolderInv'
  BY OwnerStep DEF CsfInv, HolderInv, Inside, PollLast
<1>3. QED
  BY <1>1, <1>2, Frame DEF CsfInv, PollLast

LEMMA PollTimeoutInv ==
  ASSUME CsfInv, NEW t \in Threads, PollTimeout(t)
  PROVE  CsfInv'
<1>1. my[t] = kqSeq /\ kqSeq \in 1..MaxJobs /\ kqSeq \notin good \cup bad
  BY CsfAssumption DEF CsfInv, TypeOK, HolderInv, PollTimeout
<1>2. TypeOK'
  BY <1>1, CsfAssumption DEF CsfInv, TypeOK, PollTimeout
<1>3. LockInv' /\ HolderInv'
  BY OwnerStep DEF Inside, PollTimeout
<1>4. bad' = bad \cup {kqSeq} /\ UNCHANGED <<good, ran, kqSeq>>
  BY <1>1 DEF PollTimeout
<1>5. bad' \subseteq 1..kqSeq /\ good \cap bad' = {}
  BY <1>1, <1>4 DEF CsfInv, AnswerInv
<1>6. AnswerInv'
  BY <1>4, <1>5 DEF CsfInv, AnswerInv, SuccessMeansRan, RanJobs
<1>7. QED
  BY <1>2, <1>3, <1>6, Frame DEF CsfInv, PollTimeout

LEMMA RecoverInv ==
  ASSUME CsfInv, NEW t \in Threads, Recover(t)
  PROVE  CsfInv'
<1>1. (cur' = NoJob <=> cur = NoJob) /\ cur' \in Active \cup {NoJob}
     /\ cur'.seq = cur.seq /\ cur'.as = cur.as /\ cur'.signalled = cur.signalled
  BY DEF CsfInv, TypeOK, Active, NoJob, Recover
<1>2. TypeOK'
  BY <1>1, CsfAssumption DEF CsfInv, TypeOK, Recover
<1>3. LockInv' /\ HolderInv'
  BY OwnerStep DEF Inside, Recover
<1>4. CurInv' /\ RingInv'
  BY <1>1 DEF CsfInv, CurInv, RingInv, RanJobs, SlotOf, Recover
<1>5. RanInv' /\ AnswerInv' /\ RightAddressSpace'
  BY DEF CsfInv, RanInv, RanOnce, AnswerInv, SuccessMeansRan,
         RightAddressSpace, RanJobs, Recover
<1>6. QED
  BY <1>2, <1>3, <1>4, <1>5 DEF CsfInv

LEMMA FailedInv ==
  ASSUME CsfInv, NEW t \in Threads, Failed(t)
  PROVE  CsfInv'
<1>1. TypeOK'
  BY CsfAssumption DEF CsfInv, TypeOK, Failed
<1>2. LockInv' /\ HolderInv'
  BY OwnerStep DEF Inside, Failed
<1>3. QED
  BY <1>1, <1>2, Frame DEF CsfInv, Failed

LEMMA ResetTerminateInv ==
  ASSUME CsfInv, NEW t \in Threads, ResetTerminate(t)
  PROVE  CsfInv'
<1>1. TypeOK'
  BY TerminateFacts DEF CsfInv, TypeOK, ResetTerminate
<1>2. LockInv' /\ HolderInv'
  BY OwnerStep DEF Inside, ResetTerminate
<1>3. CurInv' /\ RingInv'
  BY TerminateFacts DEF CsfInv, TypeOK, CurInv, RingInv, RanJobs, SlotOf,
         ResetTerminate
<1>4. RanInv' /\ AnswerInv' /\ RightAddressSpace'
  BY DEF CsfInv, RanInv, RanOnce, AnswerInv, SuccessMeansRan,
         RightAddressSpace, RanJobs, ResetTerminate
<1>5. QED
  BY <1>1, <1>2, <1>3, <1>4 DEF CsfInv

LEMMA ResetStartInv ==
  ASSUME CsfInv, NEW t \in Threads, ResetStart(t)
  PROVE  CsfInv'
<1>1. PICK ack \in Acks : StartCsg(BringupAs, ack)
  BY DEF ResetStart
<1>2. /\ insert' = extract /\ insert' \in 0..RingSlots
      /\ started' \in BOOLEAN /\ csg' \in [run : BOOLEAN, idle : BOOLEAN, as : Spaces]
      /\ UNCHANGED csg \/ cur = NoJob
  BY <1>1, StartFacts DEF Spaces
<1>3. /\ pc[t] = "rstart" /\ pc' = [pc EXCEPT ![t] = "unlock"]
      /\ UNCHANGED <<lock, my, answer, kqSeq, ring, extract, seqno, cur, stalled, ran, calls, good, bad>>
  BY DEF ResetStart
<1>4. TypeOK'
  BY <1>2, <1>3 DEF CsfInv, TypeOK
<1>5. LockInv' /\ HolderInv'
  BY <1>3, OwnerStep DEF Inside
<1>6. CurInv' /\ RingInv'
  BY <1>2, <1>3 DEF CsfInv, TypeOK, CurInv, RingInv, RanJobs
<1>7. RanInv' /\ AnswerInv' /\ RightAddressSpace'
  BY <1>3 DEF CsfInv, RanInv, RanOnce, AnswerInv, SuccessMeansRan,
         RightAddressSpace, RanJobs
<1>8. QED
  BY <1>4, <1>5, <1>6, <1>7 DEF CsfInv

----------------------------------------------------------------------------
(* Steps of the MCU.                                                        *)

(* What no caller did.                                                      *)
LEMMA CallersFrame ==
  ASSUME CsfInv, UNCHANGED <<lock, caller, kqSeq, good, bad>>,
         \A t \in Threads : pc[t] = "append" =>
             csg'.run /\ csg'.as = csg.as /\ cur' = NoJob /\ insert' = extract'
  PROVE  LockInv' /\ HolderInv'
  BY DEF CsfInv, LockInv, HolderInv

LEMMA FetchInv ==
  ASSUME CsfInv, Fetch
  PROVE  CsfInv'
<1>1. cur = NoJob /\ csg.run /\ extract < insert /\ insert <= RingSlots /\ extract \in Slot
  BY CsfAssumption DEF CsfInv, TypeOK, Slot, Fetch, CanFetch
<1>2. /\ ring[SlotOf(extract)].seq = kqSeq /\ ring[SlotOf(extract)].as = csg.as
      /\ kqSeq \in 1..MaxJobs /\ kqSeq \notin RanJobs
  BY <1>1 DEF CsfInv, TypeOK, RingInv
<1>3. cur' \in Active /\ cur'.seq = kqSeq /\ cur'.as = csg.as /\ cur' # NoJob
  BY <1>2 DEF CsfInv, TypeOK, Active, NoJob, Fetch
<1>4. RanJobs' = RanJobs /\ insert \in Nat /\ kqSeq \in Nat /\ UNCHANGED <<kqSeq, insert, extract, csg, ring>>
  BY CsfAssumption DEF CsfInv, TypeOK, RanJobs, Fetch
<1>5. TypeOK'
  BY <1>3 DEF CsfInv, TypeOK, Fetch
<1>6. LockInv' /\ HolderInv'
  BY <1>1, CallersFrame DEF CsfInv, TypeOK, HolderInv, Fetch
<1>7. CurInv' /\ RingInv'
  <2>1. extract < RingSlots
    BY <1>1, CsfAssumption DEF Slot
  <2>2. CurInv'
    BY <1>1, <1>2, <1>3, <1>4, <2>1 DEF CurInv
  <2>3. RingInv'
    BY <1>3, <1>4 DEF CsfInv, RingInv
  <2>4. QED
    BY <2>2, <2>3
<1>8. RanInv' /\ AnswerInv' /\ RightAddressSpace'
  BY DEF CsfInv, RanInv, RanOnce, AnswerInv, SuccessMeansRan,
         RightAddressSpace, RanJobs, Fetch
<1>9. QED
  BY <1>5, <1>6, <1>7, <1>8 DEF CsfInv

LEMMA SyncAddInv ==
  ASSUME CsfInv, SyncAdd
  PROVE  CsfInv'
<1>1. /\ cur \in Active /\ cur # NoJob /\ cur.seq \in 1..kqSeq /\ cur.seq \notin RanJobs
      /\ csg.run /\ cur.as = csg.as /\ extract < RingSlots
  BY DEF CsfInv, TypeOK, CurInv, Active, SyncAdd
<1>2. cur' \in Active /\ cur' # NoJob /\ cur'.as = cur.as /\ cur'.seq = cur.seq /\ cur'.signalled
  BY <1>1 DEF Active, NoJob, SyncAdd
<1>3. \E j : ran' = ran \cup {j} /\ j.seq = cur.seq
  <2>1. [seq |-> cur.seq, want |-> cur.as, got |-> csg.as].seq = cur.seq
    OBVIOUS
  <2>2. QED
    BY <2>1 DEF SyncAdd
<1>4. RanJobs' = RanJobs \cup {cur.seq}
  <2>1. PICK j : ran' = ran \cup {j} /\ j.seq = cur.seq
    BY <1>3
  <2>2. QED
    BY <2>1 DEF RanJobs
<1>5. TypeOK'
  BY <1>1, <1>2 DEF CsfInv, TypeOK, Active, SyncAdd
<1>6. LockInv' /\ HolderInv'
  BY <1>1, CallersFrame DEF CsfInv, HolderInv, SyncAdd
<1>7. CurInv' /\ RingInv'
  BY <1>1, <1>2 DEF CsfInv, CurInv, RingInv, SyncAdd
<1>8. /\ kqSeq \in Nat /\ RanJobs \subseteq 1..kqSeq /\ seqno = Cardinality(RanJobs)
      /\ seqno' = seqno + 1 /\ UNCHANGED <<kqSeq, good, bad>>
  BY CsfAssumption DEF CsfInv, TypeOK, RanInv, RanOnce, SyncAdd
<1>9. RanInv'
  BY <1>1, <1>4, <1>8, RanCount DEF RanInv, RanOnce
<1>10. AnswerInv'
  BY <1>4, <1>8 DEF CsfInv, AnswerInv, SuccessMeansRan
<1>11. RightAddressSpace'
  BY <1>1 DEF CsfInv, RightAddressSpace, SyncAdd
<1>12. QED
  BY <1>5, <1>6, <1>7, <1>9, <1>10, <1>11 DEF CsfInv

LEMMA RetireInv ==
  ASSUME CsfInv, Retire
  PROVE  CsfInv'
<1>1. cur # NoJob /\ extract \in Nat /\ extract < RingSlots /\ insert <= extract + 1 /\ insert \in Nat
  BY CsfAssumption DEF CsfInv, TypeOK, CurInv, RingInv, Retire
<1>2. TypeOK'
  BY <1>1, CsfAssumption DEF CsfInv, TypeOK, Retire
<1>3. LockInv' /\ HolderInv'
  BY <1>1, CallersFrame DEF CsfInv, HolderInv, Retire
<1>4. CurInv' /\ RingInv'
  BY <1>1 DEF CsfInv, CurInv, RingInv, Retire
<1>5. RanInv' /\ AnswerInv' /\ RightAddressSpace'
  BY DEF CsfInv, RanInv, RanOnce, AnswerInv, SuccessMeansRan,
         RightAddressSpace, RanJobs, Retire
<1>6. QED
  BY <1>2, <1>3, <1>4, <1>5 DEF CsfInv

LEMMA PageFaultInv ==
  ASSUME CsfInv, PageFault
  PROVE  CsfInv'
<1>1. TypeOK'
  BY DEF CsfInv, TypeOK, PageFault
<1>2. LockInv' /\ HolderInv'
  BY CallersFrame DEF CsfInv, HolderInv, PageFault
<1>3. QED
  BY <1>1, <1>2, Frame DEF CsfInv, PageFault

LEMMA GoIdleInv ==
  ASSUME CsfInv, GoIdle
  PROVE  CsfInv'
<1>1. TypeOK'
  BY DEF CsfInv, TypeOK, GoIdle
<1>2. LockInv' /\ HolderInv'
  BY CallersFrame DEF CsfInv, TypeOK, HolderInv, GoIdle
<1>3. CurInv' /\ RingInv'
  BY DEF CsfInv, TypeOK, CurInv, RingInv, RanJobs, SlotOf, GoIdle
<1>4. RanInv' /\ AnswerInv' /\ RightAddressSpace'
  BY DEF CsfInv, RanInv, RanOnce, AnswerInv, SuccessMeansRan,
         RightAddressSpace, RanJobs, GoIdle
<1>5. QED
  BY <1>1, <1>2, <1>3, <1>4 DEF CsfInv

----------------------------------------------------------------------------
(* A step that changes nothing.                                             *)
LEMMA StutterInv ==
  ASSUME CsfInv, UNCHANGED vars
  PROVE  CsfInv'
<1>1. TypeOK'
  BY DEF CsfInv, TypeOK, vars
<1>2. LockInv' /\ HolderInv'
  BY DEF CsfInv, LockInv, HolderInv, vars
<1>3. QED
  BY <1>1, <1>2, Frame DEF CsfInv, vars

LEMMA NextInv == CsfInv /\ [Next]_vars => CsfInv'
<1> SUFFICES ASSUME CsfInv, [Next]_vars
             PROVE  CsfInv'
  OBVIOUS
<1>1. ASSUME NEW t \in Threads, Enter(t) \/ Acquire(t)
      PROVE  CsfInv'
  BY <1>1, EnterInv, AcquireInv
<1>2. ASSUME NEW t \in Threads, SubmitStep(t)
      PROVE  CsfInv'
  BY <1>2, TerminateInv, StartInv, AppendInv, WakeInv, PollOkInv, PollLastInv,
     PollTimeoutInv, RecoverInv, FailedInv, ResetTerminateInv, ResetStartInv,
     UnlockInv
     DEF SubmitStep
<1>3. ASSUME McuStep
      PROVE  CsfInv'
  BY <1>3, FetchInv, SyncAddInv, RetireInv, PageFaultInv, GoIdleInv DEF McuStep
<1>4. CASE UNCHANGED vars
  BY <1>4, StutterInv
<1>5. QED
  BY <1>1, <1>2, <1>3, <1>4 DEF Next, Finished

(* CsfInv holds in every state: it is inductive.                            *)
THEOREM Invariance == Spec => []CsfInv
  BY InitInv, NextInv, PTL DEF Spec

(* Every variable keeps its type.  In particular the insert and extract     *)
(* counters never pass the size of the ring, so a trampoline is always      *)
(* written inside it (SubmitStreamCall_).                                   *)
THEOREM TypeCorrect == Spec => []TypeOK
<1>1. CsfInv => TypeOK
  BY DEF CsfInv
<1>2. QED
  BY Invariance, <1>1, PTL

(* A call that returns STATUS_SUCCESS has seen its own job executed, for    *)
(* any number of callers, of jobs and of trampolines in the ring.           *)
THEOREM SuccessIsExecution == Spec => []SuccessMeansRan
<1>1. CsfInv => SuccessMeansRan
  BY DEF CsfInv, AnswerInv
<1>2. QED
  BY Invariance, <1>1, PTL

(* No stream runs in an address space that is not its group's: the rebind   *)
(* between TERMINATE and START cannot be overtaken by a job in the ring.     *)
THEOREM OwnAddressSpace == Spec => []RightAddressSpace
<1>1. CsfInv => RightAddressSpace
  BY DEF CsfInv
<1>2. QED
  BY Invariance, <1>1, PTL

(* The sequence object counts each executed job once, so a trampoline left  *)
(* in the ring by a job that was dropped is never executed again.           *)
THEOREM RunsOnce == Spec => []RanOnce
<1>1. CsfInv => RanOnce
  BY DEF CsfInv, RanInv
<1>2. QED
  BY Invariance, <1>1, PTL

----------------------------------------------------------------------------
(* The refinement.                                                          *)

CVars == Contract!contract

(* A step that leaves the jobs appended, executed and answered alone        *)
(* stutters in the contract.                                                *)
LEMMA Stutters ==
  ASSUME UNCHANGED <<kqSeq, ran, good, bad>>
  PROVE  UNCHANGED CVars
  BY DEF CVars, Contract!contract, RanJobs

LEMMA AppendAsks ==
  ASSUME CsfInv, NEW t \in Threads, Append(t)
  PROVE  Contract!ContractNext
<1>1. kqSeq \in Nat /\ kqSeq + 1 \in 1..MaxJobs /\ kqSeq' = kqSeq + 1
  BY CsfAssumption DEF CsfInv, TypeOK, HolderInv, Append
<1>2. kqSeq + 1 \notin 1..kqSeq /\ 1..kqSeq' = (1..kqSeq) \cup {kqSeq + 1}
  BY <1>1
<1>3. UNCHANGED <<RanJobs, good, bad>>
  BY DEF RanJobs, Append
<1>4. QED
  BY <1>1, <1>2, <1>3 DEF Contract!ContractNext, Contract!Ask

LEMMA SyncAddRuns ==
  ASSUME CsfInv, SyncAdd
  PROVE  Contract!ContractNext
<1>1. cur # NoJob /\ ~cur.signalled /\ cur.seq \in 1..MaxJobs
  BY DEF CsfInv, TypeOK, Active, NoJob, SyncAdd
<1>2. cur.seq \in 1..kqSeq /\ cur.seq \notin RanJobs
  BY <1>1, CsfAssumption DEF CsfInv, TypeOK, CurInv
<1>3. cur.seq \notin good
  BY <1>2 DEF CsfInv, AnswerInv, SuccessMeansRan
<1>4. RanJobs' = RanJobs \cup {cur.seq}
  <2>1. \E j : ran' = ran \cup {j} /\ j.seq = cur.seq
    <3>1. [seq |-> cur.seq, want |-> cur.as, got |-> csg.as].seq = cur.seq
      OBVIOUS
    <3>2. QED
      BY <3>1 DEF SyncAdd
  <2>2. PICK j : ran' = ran \cup {j} /\ j.seq = cur.seq
    BY <2>1
  <2>3. QED
    BY <2>2 DEF RanJobs
<1>5. UNCHANGED <<1..kqSeq, good, bad>>
  BY DEF SyncAdd
<1>6. QED
  BY <1>1, <1>2, <1>3, <1>4, <1>5 DEF Contract!ContractNext, Contract!Run

LEMMA PollOkAnswers ==
  ASSUME CsfInv, NEW t \in Threads, PollOk(t)
  PROVE  Contract!ContractNext
<1>1. my[t] = kqSeq /\ kqSeq \in 1..MaxJobs /\ kqSeq \notin good \cup bad
  BY CsfAssumption DEF CsfInv, TypeOK, HolderInv, PollOk
<1>2. kqSeq \in RanJobs
  <2>1. CsfInv'
    BY PollOkInv
  <2>2. good' = good \cup {kqSeq} /\ RanJobs' = RanJobs
    BY <1>1 DEF PollOk, RanJobs
  <2>3. QED
    BY <2>1, <2>2 DEF CsfInv, AnswerInv, SuccessMeansRan
<1>3. good' = good \cup {kqSeq} /\ UNCHANGED <<1..kqSeq, RanJobs, bad>>
  BY <1>1 DEF PollOk, RanJobs
<1>4. QED
  BY <1>1, <1>2, <1>3 DEF Contract!ContractNext, Contract!AnswerOk

LEMMA PollTimeoutAnswers ==
  ASSUME CsfInv, NEW t \in Threads, PollTimeout(t)
  PROVE  Contract!ContractNext
<1>1. my[t] = kqSeq /\ kqSeq \in 1..MaxJobs /\ kqSeq \notin good \cup bad
  BY CsfAssumption DEF CsfInv, TypeOK, HolderInv, PollTimeout
<1>2. bad' = bad \cup {kqSeq} /\ UNCHANGED <<1..kqSeq, RanJobs, good>>
  BY <1>1 DEF PollTimeout, RanJobs
<1>3. kqSeq \in 1..kqSeq
  BY <1>1, CsfAssumption
<1>4. QED
  BY <1>1, <1>2, <1>3 DEF Contract!ContractNext, Contract!AnswerError

LEMMA StepImplements ==
  CsfInv /\ [Next]_vars => [Contract!ContractNext]_CVars
<1> SUFFICES ASSUME CsfInv, [Next]_vars
             PROVE  Contract!ContractNext \/ UNCHANGED CVars
  OBVIOUS
<1>1. ASSUME NEW t \in Threads, Enter(t) \/ Acquire(t)
      PROVE  UNCHANGED CVars
  BY <1>1, Stutters DEF Enter, Acquire
<1>2. ASSUME NEW t \in Threads, SubmitStep(t)
      PROVE  Contract!ContractNext \/ UNCHANGED CVars
  <2>1. CASE Append(t) \/ PollOk(t) \/ PollTimeout(t)
    BY <2>1, AppendAsks, PollOkAnswers, PollTimeoutAnswers
  <2>2. CASE \/ Terminate(t) \/ Start(t) \/ Wake(t) \/ PollLast(t) \/ Recover(t)
             \/ Failed(t) \/ ResetTerminate(t) \/ ResetStart(t) \/ Unlock(t)
    <3>1. UNCHANGED <<kqSeq, ran, good, bad>>
      BY <2>2 DEF Terminate, Start, Wake, PollLast, Recover, Failed, ResetTerminate,
                  ResetStart, Unlock
    <3>2. QED
      BY <3>1, Stutters
  <2>3. QED
    BY <1>2, <2>1, <2>2 DEF SubmitStep
<1>3. ASSUME McuStep
      PROVE  Contract!ContractNext \/ UNCHANGED CVars
  <2>1. CASE SyncAdd
    BY <2>1, SyncAddRuns
  <2>2. CASE Fetch \/ Retire \/ PageFault \/ GoIdle
    BY <2>2, Stutters DEF Fetch, Retire, PageFault, GoIdle
  <2>3. QED
    BY <1>3, <2>1, <2>2 DEF McuStep
<1>4. CASE UNCHANGED vars
  BY <1>4, Stutters DEF vars
<1>5. QED
  BY <1>1, <1>2, <1>3, <1>4 DEF Next, Finished

(* Every behaviour of the submit path is one of the contract: a job runs    *)
(* at most once and after it was asked for, its caller is answered once,    *)
(* and with success only after it ran (Fw.c SubmitStreamCall_).             *)
THEOREM ImplementsContract == Spec => ContractImplemented
<1>1. Init => Contract!ContractInit
  BY DEF Init, Contract!ContractInit, RanJobs
<1>2. CsfInv /\ [Next]_vars => [Contract!ContractNext]_(Contract!contract)
  BY StepImplements DEF CVars
<1>3. QED
  BY <1>1, <1>2, Invariance, PTL DEF Spec, ContractImplemented, Contract!ContractSpec

==============================================================================
