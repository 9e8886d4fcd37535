---------------------------- MODULE SubmitChain -----------------------------
(***************************************************************************)
(* GroupSubmit (KMD/WinMaliEscape.c): a call is a list of queue submits,   *)
(* each with sync operations around its stream.  The waits of a submit     *)
(* block without a timeout, its stream runs under SubmitLock, its signals  *)
(* come after the stream; calls of several threads depend on each other    *)
(* through the sync objects, and GroupDestroy, VmDestroy, SyncObjDestroy   *)
(* and SyncObjSignal of other threads come in between.                     *)
(*                                                                         *)
(* A stream is one outcome here (CsfSubmit has its steps), a sync object   *)
(* a number whose waiters wake when it is reached (SyncObj has theirs, and *)
(* what a destroy does to a thread inside a wait).                         *)
(***************************************************************************)
EXTENDS Integers, Sequences, FiniteSets

CONSTANTS
    Calls,      \* calls of GroupSubmit, each by a thread of its own
    Syncs,      \* sync object handles
    Points,     \* points a SyncObjSignal of another thread may carry
    Programs,   \* the lists of queue submits a call may carry
    NoCall

\* A queue submit: whether it names a stream, and its sync operations.
SyncOp(signal, obj, point) == [signal |-> signal, obj |-> obj, point |-> point]
SyncOps == [signal: BOOLEAN, obj: Syncs, point: Nat]
Submits == [stream: BOOLEAN, syncs: Seq(SyncOps)]

ASSUME ChainAssumption ==
    /\ Points \subseteq Nat /\ NoCall \notin Calls
    /\ \A p \in Programs : p \in Seq(Submits)

VARIABLES
    sync,    \* sync objects: in the table, TimelineValue
    group,   \* the group: in the table, its VM in the table, FatalQueueMask
    lock,    \* SubmitLock
    call,    \* where each call is, and what it has done
    given    \* <<object, point, call, queue>> of each signal a call performed

vars == <<sync, group, lock, call, given>>

New == [pc |-> "new", prog |-> <<>>, q |-> 1, k |-> 1, err |-> "OK",
        ran |-> {}, lost |-> {}]

Init ==
    /\ sync = [o \in Syncs |-> [listed |-> TRUE, value |-> 0]]
    /\ group = [listed |-> TRUE, vm |-> TRUE, fatal |-> {}]
    /\ lock = NoCall
    /\ call = [c \in Calls |-> New]
    /\ given = {}

Cur(c)  == call[c].prog[call[c].q]
Ops(c)  == Cur(c).syncs
Op(c)   == Ops(c)[call[c].k]
At(c, pc) == call[c].pc = pc
Goto(c, pc) == call' = [call EXCEPT ![c].pc = pc]
Return(c, err) == call' = [call EXCEPT ![c].pc = "done", ![c].err = err]
NextOp(c, pc) == call' = [call EXCEPT ![c].pc = pc, ![c].k = @ + 1]

-----------------------------------------------------------------------------
(* A call. *)

\* An empty list is done at once.  FATAL_FAULT is never set in StateFlags, so
\* the check of it turns no group away.
GroupSubmit(c) ==
    /\ At(c, "new")
    /\ \E p \in Programs :
         IF p = <<>> THEN Return(c, "OK")
         ELSE IF ~group.listed THEN Return(c, "ENOENT")
         ELSE call' = [call EXCEPT ![c].pc = "waits", ![c].prog = p]
    /\ UNCHANGED <<sync, group, lock, given>>

\* The waits of a queue submit.  They start with err clear: what the signals of
\* the submit before reported is gone, unless this one has no operations.
Waits(c) ==
    /\ At(c, "waits")
    /\ call' = [call EXCEPT ![c].k = 1, ![c].err = IF Ops(c) = <<>> THEN @ ELSE "OK",
                            ![c].pc = IF Ops(c) = <<>> THEN "resolve" ELSE "wait"]
    /\ UNCHANGED <<sync, group, lock, given>>

WaitOp(c) ==
    /\ At(c, "wait")
    /\ IF call[c].k > Len(Ops(c)) THEN Goto(c, "resolve")
       ELSE IF Op(c).signal THEN NextOp(c, "wait")
       ELSE IF ~sync[Op(c).obj].listed THEN Return(c, "ENOENT")
       ELSE Goto(c, "blocked")
    /\ UNCHANGED <<sync, group, lock, given>>

Reached(c) == sync[Op(c).obj].value >= Op(c).point
WaitDone(c) ==
    /\ At(c, "blocked") /\ Reached(c)
    /\ NextOp(c, "wait")
    /\ UNCHANGED <<sync, group, lock, given>>

\* The group's VM and the stream are looked at only now.
Resolve(c) ==
    /\ At(c, "resolve")
    /\ IF group.listed /\ group.vm /\ Cur(c).stream
         THEN Goto(c, "submit") ELSE Return(c, "EINVAL")
    /\ UNCHANGED <<sync, group, lock, given>>

Submit(c) ==
    /\ At(c, "submit") /\ lock = NoCall
    /\ lock' = c
    /\ Goto(c, "running")
    /\ UNCHANGED <<sync, group, given>>

StreamRan_KeepsLock(c) ==
    /\ At(c, "running")
    /\ lock' = lock
    /\ call' = [call EXCEPT ![c].pc = IF Ops(c) = <<>> THEN "next" ELSE "signals",
                            ![c].k = 1, ![c].ran = @ \cup {call[c].q}]
    /\ UNCHANGED <<sync, group, given>>
StreamRan(c) ==
    /\ At(c, "running")
    /\ lock' = NoCall
    /\ call' = [call EXCEPT ![c].pc = IF Ops(c) = <<>> THEN "next" ELSE "signals",
                            ![c].k = 1, ![c].ran = @ \cup {call[c].q}]
    /\ UNCHANGED <<sync, group, given>>

\* The queue is marked in the group, if the group is still there, and the
\* signals of this submit and the submits after it are not performed.
StreamFailed_SignalsAnyway(c) ==
    /\ At(c, "running")
    /\ lock' = NoCall
    /\ group' = IF group.listed THEN [group EXCEPT !.fatal = @ \cup {call[c].q}] ELSE group
    /\ call' = [call EXCEPT ![c].pc = "signals", ![c].k = 1, ![c].err = "EIO"]
    /\ UNCHANGED <<sync, given>>
StreamFailed_Unmarked(c) ==
    /\ At(c, "running")
    /\ lock' = NoCall
    /\ group' = group
    /\ Return(c, "EIO")
    /\ UNCHANGED <<sync, given>>
StreamFailed(c) ==
    /\ At(c, "running")
    /\ lock' = NoCall
    /\ group' = IF group.listed THEN [group EXCEPT !.fatal = @ \cup {call[c].q}] ELSE group
    /\ Return(c, "EIO")
    /\ UNCHANGED <<sync, given>>

\* SyncObjSignal never lowers a value.
Raise(o, p) == sync' = [sync EXCEPT ![o].value = IF p > @ THEN p ELSE @]

\* Every signal is tried; the first error is kept, over no other.
SignalOp(c) ==
    /\ At(c, "signals") /\ call[c].k <= Len(Ops(c))
    /\ IF ~Op(c).signal THEN NextOp(c, "signals") /\ UNCHANGED <<sync, given>>
       ELSE IF sync[Op(c).obj].listed
         THEN /\ Raise(Op(c).obj, Op(c).point)
              /\ given' = given \cup {<<Op(c).obj, Op(c).point, c, call[c].q>>}
              /\ NextOp(c, "signals")
         ELSE /\ call' = [call EXCEPT ![c].k = @ + 1, ![c].lost = @ \cup {call[c].q},
                          ![c].err = IF @ = "OK" THEN "ENOENT" ELSE @]
              /\ UNCHANGED <<sync, given>>
    /\ UNCHANGED <<group, lock>>

\* The next submit runs also when a signal of this one failed.
NextSubmit(c) ==
    /\ \/ At(c, "next")
       \/ At(c, "signals") /\ call[c].k > Len(Ops(c))
    /\ IF call[c].q = Len(call[c].prog) THEN Return(c, call[c].err)
       ELSE call' = [call EXCEPT ![c].pc = "waits", ![c].q = @ + 1]
    /\ UNCHANGED <<sync, group, lock, given>>

-----------------------------------------------------------------------------
(* Other threads. *)

GroupDestroy ==
    /\ group.listed /\ group' = [group EXCEPT !.listed = FALSE]
    /\ UNCHANGED <<sync, lock, call, given>>

VmDestroy ==
    /\ group.vm /\ group' = [group EXCEPT !.vm = FALSE]
    /\ UNCHANGED <<sync, lock, call, given>>

SyncObjDestroy(o) ==
    /\ sync[o].listed /\ \A c \in Calls : At(c, "blocked") => Op(c).obj # o
    /\ sync' = [sync EXCEPT ![o].listed = FALSE]
    /\ UNCHANGED <<group, lock, call, given>>

SyncObjSignal(o, p) ==
    /\ sync[o].listed
    /\ Raise(o, p)
    /\ given' = given \cup {<<o, p, NoCall, 0>>}
    /\ UNCHANGED <<group, lock, call>>

InCall(c) ==
    \/ Waits(c) \/ WaitOp(c) \/ WaitDone(c) \/ Resolve(c) \/ Submit(c)
    \/ StreamRan(c) \/ StreamFailed(c) \/ SignalOp(c) \/ NextSubmit(c)

Next ==
    \/ \E c \in Calls : GroupSubmit(c) \/ InCall(c)
    \/ GroupDestroy \/ VmDestroy
    \/ \E o \in Syncs : SyncObjDestroy(o) \/ \E p \in Points : SyncObjSignal(o, p)

Spec == Init /\ [][Next]_vars

\* A thread inside a call runs on; the calls are few, so SubmitLock comes free.
FairSpec == Spec /\ \A c \in Calls : WF_vars(InCall(c))

-----------------------------------------------------------------------------
(* KMD/WinMaliEscape.c:1089, signalling without doing the work is worse    *)
(* than a clean failure: whatever a sync object has reached was signalled  *)
(* by a submit whose stream ran, after every stream of its call before it  *)
(* and after every point its waits name was reached, or by the CPU.  Point *)
(* 0 is reached from the start.                                            *)
PointGiven(o, p) == p = 0 \/ \E b \in given : b[1] = o /\ b[2] >= p
NoFakeCompletion ==
    /\ \A o \in Syncs : sync[o].value > 0 =>
          \E g \in given : g[1] = o /\ g[2] = sync[o].value
    /\ \A g \in given : g[3] # NoCall =>
          LET c == g[3]  q == g[4] IN
          /\ 1..q \subseteq call[c].ran
          /\ \A r \in 1..q : LET ops == call[c].prog[r].syncs IN
               \A k \in DOMAIN ops : ~ops[k].signal => PointGiven(ops[k].obj, ops[k].point)

(* What a call reports: OK means every stream ran and every signal was     *)
(* given, but for a signal whose error a later submit with operations      *)
(* overwrote; a stream that failed is in FatalQueueMask of a group that    *)
(* exists, and GroupGetState shows it.                                     *)
OutcomeReported ==
    \A c \in Calls : At(c, "done") =>
        LET r == call[c] IN
        /\ r.err = "OK" =>
             /\ r.ran = DOMAIN r.prog
             /\ \A q \in r.lost : \E s \in DOMAIN r.prog : s > q /\ r.prog[s].syncs # <<>>
             /\ \A q \in DOMAIN r.prog \ r.lost : \A k \in DOMAIN r.prog[q].syncs :
                  LET op == r.prog[q].syncs[k] IN
                  op.signal => <<op.obj, op.point, c, q>> \in given
        /\ r.err = "EIO" /\ group.listed => r.q \in group.fatal

(* A wait of a submit has no timeout.  A call waits forever only if, from  *)
(* some time on, each call that still has to signal the point waits as     *)
(* well: no call is kept from signalling by SubmitLock or by a wake-up it  *)
(* missed, so a cycle of waits and a failed producer are the only causes.  *)
Blocked(c) == At(c, "blocked")
Owes(d, o, p) ==
    /\ d \in Calls /\ call[d].pc \notin {"new", "done"}
    /\ \E q \in call[d].q..Len(call[d].prog) :
         \E k \in DOMAIN call[d].prog[q].syncs :
           LET op == call[d].prog[q].syncs[k] IN
           /\ op.signal /\ op.obj = o /\ op.point >= p
           /\ <<o, op.point, d, q>> \notin given /\ sync[o].listed
Excused(c) == Blocked(c) /\ ~Reached(c)
              /\ \A d \in Calls : Owes(d, Op(c).obj, Op(c).point) => Blocked(d)
WaitsForWaiters == \A c \in Calls : <>[]Blocked(c) => <>[]Excused(c)
=============================================================================
