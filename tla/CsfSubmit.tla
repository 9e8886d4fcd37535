----------------------------- MODULE CsfSubmit -----------------------------
(***************************************************************************)
(* The CSF submit path (KMD/WinMaliFw.c): one CSG slot, one ring and one   *)
(* sequence object, shared under SubmitLock by the scheduler's NOP job and *)
(* the groups' command streams, with the MCU that executes the ring as its *)
(* environment.  The ring is counted in trampolines of 128 bytes.          *)
(*                                                                         *)
(* The MCU as the driver's comments describe it: it executes the slot at   *)
(* its extract pointer while extract is below insert, in the address space *)
(* of the last STATE_START; it goes idle on an empty ring until it is      *)
(* re-armed; it obeys TERMINATE unless the slot's AS is stalled by a page  *)
(* fault; a START it does not acknowledge leaves the slot stopped.         *)
(***************************************************************************)
EXTENDS Integers, FiniteSets

CONSTANTS
    Groups,      \* threads in SubmitGroupStream, each with the AS of its VM
    Kernel,      \* threads in SubmitNopJob, which run in the bring-up AS
    BringupAs,   \* GpuMmuBringupAs
    None,        \* no job, no thread
    RingSlots,   \* WINMALI_CSF_RING_BYTES / 128 (512 in the source)
    MaxJobs,     \* bound: jobs appended
    MaxCalls,    \* bound: calls, each of which appends at most one job
    Fates,       \* what jobs may do: "ok", "slow", "hang", "fault"
    StartAcks    \* whether the MCU acknowledges a START: subset of BOOLEAN

ASSUME CsfAssumption ==
    /\ Groups \cap Kernel = {}
    /\ None \notin Groups \cup Kernel
    /\ BringupAs \notin Groups
    /\ RingSlots \in Nat \ {0}
    /\ MaxJobs \in Nat /\ MaxCalls \in Nat /\ MaxCalls <= MaxJobs
    /\ StartAcks \subseteq BOOLEAN

VARIABLES
    lock,       \* the owner of SubmitLock
    pc,         \* where each thread is
    my,         \* jobSeq of a thread's current call, 0 before it has one
    answer,     \* the status of each thread's last call
    kqSeq,      \* KqJobSeq
    started,    \* CsgStarted
    insert,     \* QRingIn.Insert
    ring,       \* the trampolines in the ring, stale ones included
    extract,    \* QRingOut.Extract, written by the MCU
    seqno,      \* Seqno of the sequence object, advanced by SYNC_ADD64
    csg,        \* the slot in the MCU: running, idle, its address space
    cur,        \* the trampoline the MCU is executing
    stalled,    \* address spaces stalled by an unhandled page fault
    calls,      \* calls made
    ran,        \* history: jobs executed to the end, and the AS they ran in
    good, bad   \* history: jobs answered with success, with an error

driver == <<kqSeq, started, insert, ring>>
mcu    == <<extract, seqno, csg, cur, stalled, ran>>
caller == <<pc, my, answer>>
vars   == <<lock, caller, driver, mcu, calls, good, bad>>

Threads == Groups \cup Kernel
Spaces  == Groups \cup {BringupAs}

(* A group's stream runs in the AS of its VM, the NOP job in the bring-up   *)
(* AS.                                                                      *)
AsOf(t) == IF t \in Groups THEN t ELSE BringupAs

Slot   == 0..(RingSlots - 1)
NoJob  == [seq |-> 0, as |-> BringupAs, fate |-> "ok", signalled |-> FALSE]
Active == [seq : 1..MaxJobs, as : Spaces, fate : Fates \cup {"hang"}, signalled : BOOLEAN]

Goto(t, l) == pc' = [pc EXCEPT ![t] = l]

(* The slot that a ring counter designates. *)
SlotOf_Unmasked(counter) == counter
SlotOf(counter) == counter % RingSlots

----------------------------------------------------------------------------
(* What WinMaliCsfBootstrap_ leaves: an empty ring, zeroed counters, the    *)
(* slot started in the bring-up AS.                                         *)
Init ==
    /\ lock = None
    /\ pc = [t \in Threads |-> "idle"]
    /\ my = [t \in Threads |-> 0]
    /\ answer = [t \in Threads |-> "none"]
    /\ kqSeq = 0 /\ started = TRUE /\ insert = 0
    /\ ring = [s \in Slot |-> [seq |-> 0, as |-> BringupAs]]
    /\ extract = 0 /\ seqno = 0
    /\ csg = [run |-> TRUE, idle |-> FALSE, as |-> BringupAs]
    /\ cur = NoJob /\ stalled = {}
    /\ calls = 0
    /\ ran = {} /\ good = {} /\ bad = {}

----------------------------------------------------------------------------
(* SubmitNopJob and SubmitGroupStream. *)

Enter(t) ==
    /\ pc[t] = "idle" /\ calls < MaxCalls
    /\ calls' = calls + 1
    /\ my' = [my EXCEPT ![t] = 0]
    /\ answer' = [answer EXCEPT ![t] = "none"]
    /\ Goto(t, "lock")
    /\ UNCHANGED <<lock, driver, mcu, good, bad>>

Acquire(t) ==
    /\ pc[t] = "lock" /\ lock = None /\ kqSeq < MaxJobs
    /\ lock' = t
    /\ Goto(t, "term")
    /\ UNCHANGED <<my, answer, driver, mcu, calls, good, bad>>

(* TERMINATE reaches the MCU unless the slot is stalled: what it was        *)
(* executing is dropped, with or without its slot counted as extracted.     *)
TerminateCsg ==
    /\ started' = FALSE
    /\ IF started /\ csg.run /\ csg.as \notin stalled
       THEN /\ csg' = [csg EXCEPT !.run = FALSE]
            /\ cur' = NoJob
            /\ extract' \in IF cur = NoJob THEN {extract} ELSE {extract, extract + 1}
       ELSE UNCHANGED <<csg, cur, extract>>

Terminate(t) ==
    /\ pc[t] = "term"
    /\ TerminateCsg
    /\ Goto(t, "start")
    /\ UNCHANGED <<lock, my, answer, kqSeq, insert, ring, seqno, stalled, ran, calls, good, bad>>

(* ProgramAndStartCsg_: the ring is presented empty at the MCU's extract    *)
(* position, and the slot is started in the target AS.  A slot that could   *)
(* not be terminated does not start.                                        *)
ProgramRing_KeepsInsert == UNCHANGED insert
ProgramRing == insert' = extract

StartCsg(as, ack) ==
    /\ ProgramRing
    /\ IF ack
       THEN csg' = [run |-> TRUE, idle |-> FALSE, as |-> as] /\ started' = TRUE
       ELSE UNCHANGED <<csg, started>>

(* An unacknowledged START ends the call without a job. *)
Acks == IF csg.run THEN {FALSE} ELSE StartAcks

Start(t) ==
    /\ pc[t] = "start"
    /\ \E ack \in Acks : /\ StartCsg(AsOf(t), ack)
                         /\ Goto(t, IF ack THEN "append" ELSE "failed")
    /\ UNCHANGED <<lock, my, answer, kqSeq, ring, extract, seqno, cur, stalled, ran, calls, good, bad>>

(* The trampoline is written at the masked insert pointer, which then moves *)
(* past it.                                                                 *)
Append_PostIncrement(t) ==
    /\ pc[t] = "append"
    /\ kqSeq' = kqSeq + 1 /\ my' = [my EXCEPT ![t] = kqSeq]
    /\ ring' = [ring EXCEPT ![SlotOf(insert)] = [seq |-> kqSeq + 1, as |-> AsOf(t)]]
    /\ insert' = SlotOf(insert) + 1
    /\ Goto(t, "wake")
    /\ UNCHANGED <<lock, answer, started, mcu, calls, good, bad>>
Append(t) ==
    /\ pc[t] = "append"
    /\ kqSeq' = kqSeq + 1 /\ my' = [my EXCEPT ![t] = kqSeq + 1]
    /\ ring' = [ring EXCEPT ![SlotOf(insert)] = [seq |-> kqSeq + 1, as |-> AsOf(t)]]
    /\ insert' = SlotOf(insert) + 1
    /\ Goto(t, "wake")
    /\ UNCHANGED <<lock, answer, started, mcu, calls, good, bad>>

(* WakeCsgIfIdle_ re-arms a slot that went idle before the work was in the  *)
(* ring; the doorbells have no effect on an idle slot.                      *)
Wake(t) ==
    /\ pc[t] = "wake"
    /\ csg' = [csg EXCEPT !.idle = FALSE]
    /\ Goto(t, "poll")
    /\ UNCHANGED <<lock, my, answer, driver, extract, seqno, cur, stalled, ran, calls, good, bad>>

Signalled(t) == seqno >= my[t]

PollOk(t) ==
    /\ pc[t] = "poll" /\ Signalled(t)
    /\ answer' = [answer EXCEPT ![t] = "ok"]
    /\ good' = good \cup {my[t]}
    /\ Goto(t, "unlock")
    /\ UNCHANGED <<lock, my, driver, mcu, calls, bad>>

(* The MCU can take the next trampoline of the ring. *)
CanFetch ==
    csg.run /\ ~csg.idle /\ csg.as \notin stalled /\ cur = NoJob /\ extract < insert

(* A job that is "ok" is done within TimeoutMs; until then the poll goes on. *)
Prompt == CanFetch \/ (cur # NoJob /\ cur.fate = "ok" /\ ~cur.signalled)

(* The last look at the sequence object; the loop then sleeps once more ... *)
PollLast(t) ==
    /\ pc[t] = "poll" /\ ~Signalled(t) /\ ~Prompt
    /\ Goto(t, "expired")
    /\ UNCHANGED <<lock, my, answer, driver, mcu, calls, good, bad>>

(* ... and times out without another; only a fault that is latched by now   *)
(* for the job's AS is repaired.                                            *)
PollTimeout(t) ==
    /\ pc[t] = "expired"
    /\ bad' = bad \cup {my[t]}
    /\ Goto(t, IF AsOf(t) \in stalled THEN "recover" ELSE "failed")
    /\ UNCHANGED <<lock, my, answer, driver, mcu, calls, good>>

(* RecoverFaultedAs_: disabling the AS aborts the stalled transaction and   *)
(* the job; the AS is enabled again.                                        *)
Recover(t) ==
    /\ pc[t] = "recover"
    /\ stalled' = stalled \ {AsOf(t)}
    /\ cur' = IF cur # NoJob THEN [cur EXCEPT !.fate = "hang"] ELSE cur
    /\ Goto(t, "failed")
    /\ UNCHANGED <<lock, my, answer, driver, extract, seqno, csg, ran, calls, good, bad>>

(* SubmitGroupStream resets the slot to the bring-up AS after a failure;    *)
(* SubmitNopJob just returns.                                               *)
Failed(t) ==
    /\ pc[t] = "failed"
    /\ answer' = [answer EXCEPT ![t] = "error"]
    /\ Goto(t, IF t \in Groups THEN "rterm" ELSE "unlock")
    /\ UNCHANGED <<lock, my, driver, mcu, calls, good, bad>>

ResetTerminate(t) ==
    /\ pc[t] = "rterm"
    /\ TerminateCsg
    /\ Goto(t, "rstart")
    /\ UNCHANGED <<lock, my, answer, kqSeq, insert, ring, seqno, stalled, ran, calls, good, bad>>

ResetStart_Retries(t) ==
    /\ pc[t] = "rstart"
    /\ \E ack \in Acks : /\ StartCsg(BringupAs, ack)
                         /\ Goto(t, IF ack THEN "unlock" ELSE "rstart")
    /\ UNCHANGED <<lock, my, answer, kqSeq, ring, extract, seqno, cur, stalled, ran, calls, good, bad>>
ResetStart(t) ==
    /\ pc[t] = "rstart"
    /\ \E ack \in Acks : StartCsg(BringupAs, ack)
    /\ Goto(t, "unlock")
    /\ UNCHANGED <<lock, my, answer, kqSeq, ring, extract, seqno, cur, stalled, ran, calls, good, bad>>

Unlock(t) ==
    /\ pc[t] = "unlock"
    /\ lock' = None
    /\ Goto(t, "idle")
    /\ UNCHANGED <<my, answer, driver, mcu, calls, good, bad>>

----------------------------------------------------------------------------
(* The MCU. *)

Fetch ==
    /\ CanFetch
    /\ \E fate \in Fates :
          cur' = [seq |-> ring[SlotOf(extract)].seq, as |-> ring[SlotOf(extract)].as,
                  fate |-> fate, signalled |-> FALSE]
    /\ UNCHANGED <<lock, caller, driver, extract, seqno, csg, stalled, calls, ran, good, bad>>

(* The stream has run and SYNC_ADD64 advances the sequence object ... *)
SyncAdd ==
    /\ cur # NoJob /\ cur.fate \in {"ok", "slow"} /\ ~cur.signalled
    /\ seqno' = seqno + 1
    /\ ran' = ran \cup {[seq |-> cur.seq, want |-> cur.as, got |-> csg.as]}
    /\ cur' = [cur EXCEPT !.signalled = TRUE]
    /\ UNCHANGED <<lock, caller, driver, extract, csg, stalled, calls, good, bad>>

(* ... before the extract pointer has passed the trampoline. *)
Retire ==
    /\ cur # NoJob /\ cur.signalled
    /\ extract' = extract + 1
    /\ cur' = NoJob
    /\ UNCHANGED <<lock, caller, driver, seqno, csg, stalled, calls, ran, good, bad>>

PageFault ==
    /\ cur # NoJob /\ cur.fate = "fault" /\ csg.as \notin stalled
    /\ stalled' = stalled \cup {csg.as}
    /\ UNCHANGED <<lock, caller, driver, extract, seqno, csg, cur, calls, ran, good, bad>>

GoIdle ==
    /\ csg.run /\ ~csg.idle /\ cur = NoJob /\ extract >= insert
    /\ csg' = [csg EXCEPT !.idle = TRUE]
    /\ UNCHANGED <<lock, caller, driver, extract, seqno, cur, stalled, calls, ran, good, bad>>

----------------------------------------------------------------------------
SubmitStep(t) ==
    \/ Terminate(t) \/ Start(t) \/ Append(t) \/ Wake(t)
    \/ PollOk(t) \/ PollLast(t) \/ PollTimeout(t) \/ Recover(t)
    \/ Failed(t) \/ ResetTerminate(t) \/ ResetStart(t) \/ Unlock(t)
McuStep == Fetch \/ SyncAdd \/ Retire \/ PageFault \/ GoIdle

Finished ==
    /\ \A t \in Threads : pc[t] = "idle"
    /\ calls = MaxCalls
    /\ UNCHANGED vars

Next ==
    \/ \E t \in Threads : Enter(t) \/ Acquire(t) \/ SubmitStep(t)
    \/ McuStep
    \/ Finished

Spec == Init /\ [][Next]_vars

(* A thread in the path runs on, a KMUTEX is granted to every waiter in     *)
(* time, and the MCU works on whatever it can work on; nothing obliges a    *)
(* job that hangs or faults.                                                *)
FairSpec ==
    /\ Spec
    /\ \A t \in Threads : WF_vars(SubmitStep(t)) /\ SF_vars(Acquire(t))
    /\ WF_vars(McuStep)

----------------------------------------------------------------------------
(* Properties. *)

(* Every variable keeps its type; in particular a trampoline is always      *)
(* written inside the ring and the overflow return of SubmitStreamCall_     *)
(* (Fw.c:1978) is never taken.                                              *)
TypeOK ==
    /\ lock \in Threads \cup {None}
    /\ pc \in [Threads -> {"idle", "lock", "term", "start", "append", "wake", "poll",
                           "expired", "recover", "failed", "rterm", "rstart", "unlock"}]
    /\ my \in [Threads -> 0..MaxJobs]
    /\ answer \in [Threads -> {"none", "ok", "error"}]
    /\ kqSeq \in 0..MaxJobs /\ started \in BOOLEAN
    /\ insert \in 0..RingSlots /\ extract \in 0..RingSlots
    /\ ring \in [Slot -> [seq : 0..MaxJobs, as : Spaces]]
    /\ seqno \in Nat
    /\ csg \in [run : BOOLEAN, idle : BOOLEAN, as : Spaces]
    /\ cur \in Active \cup {NoJob}
    /\ stalled \subseteq Spaces
    /\ calls \in 0..MaxCalls
    /\ ran \subseteq [seq : 1..MaxJobs, want : Spaces, got : Spaces]
    /\ good \subseteq 0..MaxJobs /\ bad \subseteq 0..MaxJobs

RanJobs == {j.seq : j \in ran}

(* A caller is told STATUS_SUCCESS only when the stream it submitted has    *)
(* run, although what the poll compares is a counter that every job of      *)
(* every process advances (Fw.c:2055).                                      *)
SuccessMeansRan == good \subseteq RanJobs

(* A stream runs in the address space of its own VM only: "the slot is      *)
(* provably bound to THIS group's VM before we run its stream"              *)
(* (Fw.c:1801-1802).                                                        *)
RightAddressSpace == \A j \in ran : j.want = j.got

(* No trampoline is executed twice, also when one was dropped half-way and  *)
(* its slot of the ring is used again.                                      *)
RanOnce == seqno = Cardinality(RanJobs)

(* A job in the ring that the MCU has not looked at can be reached: insert  *)
(* is past extract and the slot is not asleep ("the FW never executes it",  *)
(* Fw.c:1282-1288; "every submission after the first lands in a queue the   *)
(* FW won't service", Fw.c:1696).                                           *)
JobReachable ==
    \A t \in Threads :
        pc[t] = "poll" /\ cur = NoJob /\ my[t] \notin RanJobs /\ csg.as \notin stalled
            => csg.run /\ ~csg.idle /\ extract < insert

(* Every call returns, whatever the job does. *)
SubmitReturns == \A t \in Threads : pc[t] = "lock" ~> pc[t] = "idle"

(* The abstract promise to the callers. *)
Contract == INSTANCE JobContract WITH
    Job <- 1..MaxJobs, asked <- 1..kqSeq, done <- RanJobs
ContractImplemented == Contract!ContractSpec
============================================================================
