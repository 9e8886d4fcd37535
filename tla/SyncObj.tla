------------------------------ MODULE SyncObj ------------------------------
(***************************************************************************)
(* The sync objects of KMD/WinMaliSync.c: a table of reference-counted     *)
(* binary and timeline objects, each a value under a spin lock and a       *)
(* notification event that is set and cleared outside that lock.           *)
(*                                                                         *)
(* A caller is a user-mode device with one escape in progress at a time.   *)
(* A KeSetEvent satisfies every wait that has begun, also when the event   *)
(* is cleared before the waiter runs again; a wait that begins later sees  *)
(* the event as it is then.                                                *)
(***************************************************************************)
EXTENDS Integers, Sequences, FiniteSets

CONSTANTS
    Signallers,  \* callers of WinMaliSyncObjSignal
    Waiters,     \* callers of WinMaliSyncObjWait
    Timelines,   \* which kinds of object are created: subset of BOOLEAN
    MaxHandles,  \* bound: objects created
    MaxPoint,    \* bound: timeline points
    MaxCount,    \* bound: handles in one wait
    MaxCalls,    \* bound: calls of signal, wait and destroy
    Limits       \* TimeoutNs: "forever" (< 0), "poll" (0), "finite"

ASSUME SyncAssumption ==
    /\ IsFiniteSet(Signallers \cup Waiters) /\ Timelines \subseteq BOOLEAN
    /\ MaxHandles \in Nat /\ MaxPoint \in Nat \ {0} /\ MaxCount \in Nat \ {0}
    /\ MaxCalls \in Nat
    /\ Limits \subseteq {"forever", "poll", "finite"}

VARIABLES
    objs,     \* the objects by handle; NextHandle is Len(objs) + 1
    count,    \* Table->Count
    pc,       \* where each caller is
    op,       \* the arguments of its call
    held,     \* how many of the call's handles it holds a reference to
    doomed,   \* objects it has unlinked and not freed yet
    err,      \* its return value
    calls     \* calls made

call == <<op, held, err>>
vars == <<objs, count, pc, call, doomed, calls>>

Callers == Signallers \cup Waiters
Handle  == 1..MaxHandles
Points  == 0..MaxPoint

Object == [state : {"listed", "unlinked", "freed"}, timeline : BOOLEAN,
           value : Points, event : BOOLEAN, refs : Int, owner : Callers]

Idle == [name |-> "none", hs |-> <<>>, point |-> 0, all |-> FALSE, limit |-> "poll"]

Goto(t, l) == pc' = [pc EXCEPT ![t] = l]

Listed == {h \in DOMAIN objs : objs[h].state = "listed"}

(* The handle a single-handle call is about. *)
Target(t) == op[t].hs[1]
Single(t) == Len(op[t].hs) = 1
HandlesOf(t) == {op[t].hs[i] : i \in DOMAIN op[t].hs}

Init ==
    /\ objs = <<>> /\ count = 0
    /\ pc = [t \in Callers |-> "idle"]
    /\ op = [t \in Callers |-> Idle]
    /\ held = [t \in Callers |-> 0]
    /\ doomed = [t \in Callers |-> {}]
    /\ err = [t \in Callers |-> "ok"]
    /\ calls = 0

----------------------------------------------------------------------------
(* The table. *)

(* The object is complete before the table lock makes it visible. *)
Create(t) ==
    /\ pc[t] = "idle" /\ Len(objs) < MaxHandles
    /\ \E timeline \in Timelines, initial \in BOOLEAN :
          objs' = Append(objs, [state |-> "listed", timeline |-> timeline,
                                value |-> IF initial THEN 1 ELSE 0, event |-> initial,
                                refs |-> 1, owner |-> t])
    /\ count' = count + 1
    /\ UNCHANGED <<pc, call, doomed, calls>>

Unlink(t, hs) ==
    /\ objs' = [h \in DOMAIN objs |-> IF h \in hs THEN [objs[h] EXCEPT !.state = "unlinked"]
                                              ELSE objs[h]]
    /\ count' = count - Cardinality(hs)
    /\ doomed' = [doomed EXCEPT ![t] = hs]

(* The model is of devices that destroy what no call is using. *)
Used == UNION {HandlesOf(t) : t \in Callers}

(* TakeByHandle_ finds the object under the lock; it is freed after it. *)
Destroy(t) ==
    /\ pc[t] = "idle" /\ calls < MaxCalls
    /\ \E h \in Listed \ Used : Unlink(t, {h})
    /\ calls' = calls + 1
    /\ Goto(t, "free")
    /\ UNCHANGED call

(* DestroyDevice takes all objects the device still owns. *)
RundownOwner(t) ==
    /\ pc[t] = "idle" /\ calls < MaxCalls
    /\ \E hs \in {{h \in Listed : objs[h].owner = t}} :
          /\ hs # {}
          /\ hs \cap Used = {}
          /\ Unlink(t, hs)
    /\ calls' = calls + 1
    /\ Goto(t, "free")
    /\ UNCHANGED call

(* WinMaliSyncObjFree_, whatever the reference count. *)
Free(t) ==
    /\ pc[t] = "free"
    /\ objs' = [h \in DOMAIN objs |-> IF h \in doomed[t] THEN [objs[h] EXCEPT !.state = "freed"]
                                                     ELSE objs[h]]
    /\ doomed' = [doomed EXCEPT ![t] = {}]
    /\ Goto(t, "idle")
    /\ UNCHANGED <<count, call, calls>>

----------------------------------------------------------------------------
(* Signal and wait. *)

Begin(t, o) ==
    /\ pc[t] = "idle" /\ calls < MaxCalls
    /\ calls' = calls + 1
    /\ op' = [op EXCEPT ![t] = o]
    /\ Goto(t, "get")
    /\ UNCHANGED <<objs, count, held, err, doomed>>

BeginSignal(t) ==
    /\ t \in Signallers
    /\ \E h \in Handle, p \in Points \ {0} :
          Begin(t, [Idle EXCEPT !.name = "signal", !.hs = <<h>>, !.point = p])

BeginWait(t) ==
    /\ t \in Waiters
    /\ \E n \in 1..MaxCount : \E hs \in [1..n -> Handle],
          p \in IF n = 1 THEN Points ELSE {0}, all \in IF n = 1 THEN {FALSE} ELSE BOOLEAN,
          limit \in Limits :
             Begin(t, [name |-> "wait", hs |-> hs, point |-> p, all |-> all, limit |-> limit])

(* How a call goes on with all its references. *)
Body(t) ==
    IF op[t].name = "signal" THEN "value"
    ELSE IF Single(t) /\ objs[Target(t)].timeline THEN "check" ELSE "block"

(* WinMaliSyncObjGet_, one handle at a time.  An unknown handle, or a       *)
(* timeline in a wait on several, ends the call.                            *)
Get(t) ==
    /\ pc[t] = "get"
    /\ \E h \in {op[t].hs[held[t] + 1]} :
          IF h \notin Listed
          THEN /\ err' = [err EXCEPT ![t] = "enoent"]
               /\ Goto(t, "put")
               /\ UNCHANGED <<objs, held>>
          ELSE /\ objs' = [objs EXCEPT ![h].refs = @ + 1]
               /\ held' = [held EXCEPT ![t] = @ + 1]
               /\ IF ~Single(t) /\ objs[h].timeline
                  THEN err' = [err EXCEPT ![t] = "einval"] /\ Goto(t, "put")
                  ELSE /\ Goto(t, IF held[t] + 1 = Len(op[t].hs) THEN Body(t) ELSE "get")
                       /\ UNCHANGED err
    /\ UNCHANGED <<count, op, doomed, calls>>

(* Under the object's lock. *)
SetValue(t) ==
    /\ pc[t] = "value"
    /\ objs' = [objs EXCEPT ![Target(t)].value =
                  IF ~objs[Target(t)].timeline THEN 1
                  ELSE IF op[t].point > @ THEN op[t].point ELSE @]
    /\ Goto(t, "set")
    /\ UNCHANGED <<count, call, doomed, calls>>

(* KeSetEvent, after the lock is dropped. *)
Satisfied(h) == {u \in Callers : pc[u] = "waiting" /\ h \in HandlesOf(u)}

SetEvent(t) ==
    /\ pc[t] = "set"
    /\ objs' = [objs EXCEPT ![Target(t)].event = TRUE]
    /\ pc' = [u \in Callers |-> IF u = t THEN "put"
                                ELSE IF u \in Satisfied(Target(t)) THEN "woken" ELSE pc[u]]
    /\ UNCHANGED <<count, call, doomed, calls>>

ReachedAt(t) == objs[Target(t)].value >= op[t].point

Check(t) ==
    /\ pc[t] = "check"
    /\ Goto(t, IF ReachedAt(t) THEN "put" ELSE "clear")
    /\ UNCHANGED <<objs, count, call, doomed, calls>>

ClearEvent(t) ==
    /\ pc[t] = "clear"
    /\ objs' = [objs EXCEPT ![Target(t)].event = FALSE]
    /\ Goto(t, "recheck")
    /\ UNCHANGED <<count, call, doomed, calls>>

Recheck_Skipped(t) ==
    /\ pc[t] = "recheck"
    /\ Goto(t, "block")
    /\ UNCHANGED <<objs, count, call, doomed, calls>>
Recheck(t) ==
    /\ pc[t] = "recheck"
    /\ Goto(t, IF ReachedAt(t) THEN "put" ELSE "block")
    /\ UNCHANGED <<objs, count, call, doomed, calls>>

(* KeWaitForSingleObject or KeWaitForMultipleObjects: the latter is always  *)
(* asked for WaitAny, since the parameter WaitAll hides the enumerator.     *)
EventSet(t) == \E h \in HandlesOf(t) : objs[h].event

KeWait(t) ==
    /\ pc[t] = "block"
    /\ Goto(t, IF EventSet(t) THEN "woken"
               ELSE IF op[t].limit = "poll" THEN "expired" ELSE "waiting")
    /\ UNCHANGED <<objs, count, op, held, err, doomed, calls>>

(* A wait for ever does not end here. *)
Expire(t) ==
    /\ pc[t] = "expired" \/ (pc[t] = "waiting" /\ op[t].limit = "finite")
    /\ err' = [err EXCEPT ![t] = "etimedout"]
    /\ Goto(t, "put")
    /\ UNCHANGED <<objs, count, op, held, doomed, calls>>

(* A timeline waiter looks at the value again. *)
Woken_NoLoop(t) ==
    /\ pc[t] = "woken"
    /\ Goto(t, "put")
    /\ UNCHANGED <<objs, count, call, doomed, calls>>
Woken(t) ==
    /\ pc[t] = "woken"
    /\ Goto(t, IF Single(t) /\ objs[Target(t)].timeline THEN "check" ELSE "put")
    /\ UNCHANGED <<objs, count, call, doomed, calls>>

(* The references are dropped, on every path. *)
References(t, h) == Cardinality({i \in 1..held[t] : op[t].hs[i] = h})

Put_AllHandles(t) ==
    /\ pc[t] = "put"
    /\ objs' = [h \in DOMAIN objs |-> IF h \in HandlesOf(t) THEN [objs[h] EXCEPT !.refs = @ - 1]
                                                        ELSE objs[h]]
    /\ held' = [held EXCEPT ![t] = 0]
    /\ op' = [op EXCEPT ![t] = Idle]
    /\ err' = [err EXCEPT ![t] = "ok"]
    /\ Goto(t, "idle")
    /\ UNCHANGED <<count, doomed, calls>>
Put(t) ==
    /\ pc[t] = "put"
    /\ objs' = [h \in DOMAIN objs |-> [objs[h] EXCEPT !.refs = @ - References(t, h)]]
    /\ held' = [held EXCEPT ![t] = 0]
    /\ op' = [op EXCEPT ![t] = Idle]
    /\ err' = [err EXCEPT ![t] = "ok"]
    /\ Goto(t, "idle")
    /\ UNCHANGED <<count, doomed, calls>>

----------------------------------------------------------------------------
(* What a caller does by itself, once it is in a call. *)
Proceed(t) ==
    \/ Free(t) \/ Get(t) \/ SetValue(t) \/ SetEvent(t) \/ Check(t) \/ ClearEvent(t)
    \/ Recheck(t) \/ KeWait(t) \/ Expire(t) \/ Woken(t) \/ Put(t)

(* A wait for ever on what nobody signals any more is a legal end. *)
Finished ==
    /\ \A t \in Callers : pc[t] \in {"idle", "waiting"}
    /\ calls = MaxCalls
    /\ UNCHANGED vars

Next ==
    \/ \E t \in Callers : \/ Create(t) \/ Destroy(t) \/ RundownOwner(t)
                          \/ BeginSignal(t) \/ BeginWait(t) \/ Proceed(t)
    \/ Finished

Spec == Init /\ [][Next]_vars

(* A thread in an escape keeps running; nobody has to make a call. *)
FairSpec == Spec /\ \A t \in Callers : WF_vars(Proceed(t))

----------------------------------------------------------------------------
(* Properties. *)

(* Every variable keeps its type. *)
TypeOK ==
    /\ objs \in Seq(Object) /\ Len(objs) <= MaxHandles /\ count \in Int
    /\ pc \in [Callers -> {"idle", "free", "get", "value", "set", "put", "check", "clear",
                           "recheck", "block", "waiting", "woken", "expired"}]
    /\ \A t \in Callers :
          /\ op[t].name \in {"none", "signal", "wait"} /\ op[t].point \in Points
          /\ \A i \in DOMAIN op[t].hs : op[t].hs[i] \in Handle
          /\ held[t] \in 0..Len(op[t].hs)
    /\ doomed \in [Callers -> SUBSET Handle]
    /\ err \in [Callers -> {"ok", "enoent", "einval", "etimedout"}]

(* References a caller holds now; those it never took, or has dropped, do   *)
(* not count.                                                               *)
RefsHeld(h) == Cardinality({x \in Callers \X (1..MaxCount) :
                              x[2] <= held[x[1]] /\ op[x[1]].hs[x[2]] = h})

(* Every path through signal and wait, the early returns with a part of the *)
(* handles included, drops exactly the references it took.                  *)
RefsBalanced == \A h \in Listed : objs[h].refs = 1 + RefsHeld(h)

(* Count agrees with the list, and an object taken off the list is freed by *)
(* one caller only, when destroy and rundown race for it.                   *)
FreedOnce ==
    /\ count = Cardinality(Listed)
    /\ \A t \in Callers : \A h \in doomed[t] :
          /\ objs[h].state = "unlinked"
          /\ \A u \in Callers \ {t} : h \notin doomed[u]

(* The counting is sound on every path: types, references and the list.     *)
ObjectsCounted == TypeOK /\ RefsBalanced /\ FreedOnce

(* A wait that returns success was satisfied: "Wait succeeds when counter   *)
(* >= requested point" (Sync.h:11), when signalled for a binary object      *)
(* (Sync.h:8), one of them for several.                                     *)
OkMeansReached ==
    \A t \in Callers : pc[t] = "put" /\ op[t].name = "wait" /\ err[t] = "ok" =>
        IF Single(t) /\ objs[Target(t)].timeline THEN ReachedAt(t)
        ELSE \E h \in HandlesOf(t) : objs[h].value = 1

(* A waiter whose point is reached returns: "Re-check after clear to avoid  *)
(* lost-wakeup" (Sync.c:292) closes the window between the test and the     *)
(* KeWait for a waiter that has the object to itself.                       *)
ReachedReturns ==
    \A t \in Waiters :
        (pc[t] = "waiting" /\ op[t].point > 0 /\ Single(t) /\ ReachedAt(t)) ~> pc[t] = "idle"
=============================================================================
