---------------------------- MODULE SyncObjProofs ----------------------------
(***************************************************************************)
(* Proofs about SyncObj: the reference counts and the list of objects, and *)
(* what success of a wait means; for any finite set of threads, kinds of object,  *)
(* number of handles in a wait, points and calls.                          *)
(***************************************************************************)
EXTENDS SyncObj, FiniteSetTheorems, TLAPS

\* A call's arguments, as Begin writes them.
Op == [name : {"none", "signal", "wait"}, hs : Seq(Handle), point : Points,
       all : BOOLEAN, limit : {"forever", "poll", "finite"}]

Types ==
    /\ TypeOK
    /\ op \in [Callers -> Op] /\ held \in [Callers -> Nat]
    /\ \A t \in Callers : Len(op[t].hs) <= MaxCount /\ doomed[t] \subseteq DOMAIN objs

\* An event that is set was set for a reason; a timeline waiter knows the
\* reason may be a point that is not its own.
Events == \A h \in DOMAIN objs : objs[h].event /\ ~objs[h].timeline => objs[h].value = 1

\* A caller that has all the references of its call.
Inside == {"value", "set", "check", "clear", "recheck", "block", "waiting", "woken", "expired"}
Signalling == {"value", "set"}
Looking == {"check", "clear", "recheck"}

Timed(t) == Single(t) /\ objs[Target(t)].timeline

\* What a success stands on.
Lit(t) == \E h \in HandlesOf(t) : objs[h].value = 1
Granted(t) == IF Timed(t) THEN ReachedAt(t) ELSE Lit(t)

\* How far a caller is with its call: which references it has, and that they
\* keep the objects on the list; what it has seen of them.
Progress(t) ==
    /\ pc[t] \in {"idle", "free"} => held[t] = 0
    /\ pc[t] = "get" => held[t] < Len(op[t].hs)
    /\ pc[t] \in Inside \/ (pc[t] = "put" /\ err[t] = "ok") =>
          held[t] = Len(op[t].hs) /\ op[t].hs # <<>>
    /\ pc[t] \in Signalling <=> pc[t] \in Inside /\ op[t].name = "signal"
    /\ op[t].name = "signal" => Single(t)
Keeps(t) == \A i \in 1..held[t] : op[t].hs[i] \in Listed
Knows(t) ==
    /\ pc[t] \in Looking => Timed(t)
    /\ ~Single(t) /\ (pc[t] = "put" => err[t] = "ok") =>
          \A i \in 1..held[t] : ~objs[op[t].hs[i]].timeline
    /\ pc[t] = "set" => Timed(t) \/ Lit(t)
    /\ pc[t] = "woken" => Timed(t) \/ Lit(t)
    /\ pc[t] = "put" /\ op[t].name = "wait" /\ err[t] = "ok" => Granted(t)

SyncInv ==
    /\ Types /\ RefsBalanced /\ FreedOnce /\ Events
    /\ \A t \in Callers : Progress(t) /\ Keeps(t) /\ Knows(t)

-----------------------------------------------------------------------------
(* The table and the references.                                            *)

PcT  == {"idle", "free", "get", "value", "set", "put", "check", "clear", "recheck", "block",
         "waiting", "woken", "expired"}
ErrT == {"ok", "enoent", "einval", "etimedout"}

LEMMA TypeFacts ==
  ASSUME SyncInv
  PROVE  /\ objs \in Seq(Object) /\ Len(objs) \in Nat /\ Len(objs) <= MaxHandles
         /\ DOMAIN objs = 1..Len(objs) /\ objs \in [DOMAIN objs -> Object]
         /\ DOMAIN objs \subseteq Handle
         /\ pc \in [Callers -> PcT] /\ err \in [Callers -> ErrT] /\ count \in Int
         /\ op \in [Callers -> Op] /\ held \in [Callers -> Nat]
         /\ doomed \in [Callers -> SUBSET Handle]
         /\ MaxHandles \in Nat /\ MaxPoint \in Nat /\ MaxPoint >= 1 /\ MaxCount \in Nat
         /\ MaxCount >= 1
         /\ Points \subseteq Nat /\ 0 \in Points /\ 1 \in Points
<1>1. /\ objs \in Seq(Object) /\ Len(objs) <= MaxHandles /\ pc \in [Callers -> PcT]
      /\ err \in [Callers -> ErrT] /\ count \in Int /\ op \in [Callers -> Op]
      /\ held \in [Callers -> Nat] /\ doomed \in [Callers -> SUBSET Handle]
  BY DEF SyncInv, Types, TypeOK, PcT, ErrT
<1>2. /\ MaxHandles \in Nat /\ MaxPoint \in Nat /\ MaxPoint >= 1 /\ MaxCount \in Nat
      /\ MaxCount >= 1
  BY SyncAssumption
<1>3. DOMAIN objs = 1..Len(objs) /\ Len(objs) \in Nat /\ objs \in [DOMAIN objs -> Object]
  BY <1>1
<1>4. DOMAIN objs \subseteq Handle
  BY <1>1, <1>2, <1>3 DEF Handle
<1>5. Points \subseteq Nat /\ 0 \in Points /\ 1 \in Points
  BY <1>2 DEF Points
<1>6. QED
  BY <1>1, <1>2, <1>3, <1>4, <1>5

LEMMA OpFacts ==
  ASSUME SyncInv, NEW t \in Callers
  PROVE  /\ op[t] \in Op /\ op[t].hs \in Seq(Handle) /\ op[t].point \in Points
         /\ Len(op[t].hs) \in Nat /\ Len(op[t].hs) <= MaxCount
         /\ DOMAIN op[t].hs = 1..Len(op[t].hs)
         /\ held[t] \in Nat /\ held[t] <= Len(op[t].hs)
         /\ op[t].limit \in {"forever", "poll", "finite"}
         /\ op[t].name \in {"none", "signal", "wait"}
         /\ Single(t) <=> Len(op[t].hs) = 1
         /\ Single(t) => HandlesOf(t) = {Target(t)}
<1>1. op[t] \in Op /\ held[t] \in Nat /\ held[t] \in 0..Len(op[t].hs) /\ Len(op[t].hs) <= MaxCount
  BY TypeFacts DEF SyncInv, Types, TypeOK
<1>2. op[t].hs \in Seq(Handle)
  BY <1>1 DEF Op
<1>3. DOMAIN op[t].hs = 1..Len(op[t].hs) /\ Len(op[t].hs) \in Nat
  BY <1>2
<1>4. Single(t) => HandlesOf(t) = {Target(t)}
  BY <1>3 DEF Single, HandlesOf, Target
<1>5. QED
  BY <1>1, <1>2, <1>3, <1>4 DEF Op, Single

LEMMA ObjFacts ==
  ASSUME SyncInv, NEW h \in DOMAIN objs
  PROVE  /\ objs[h] \in Object /\ objs[h].timeline \in BOOLEAN /\ objs[h].event \in BOOLEAN
         /\ objs[h].value \in Nat /\ objs[h].refs \in Int
         /\ objs[h].value \in Points /\ objs[h].owner \in Callers
         /\ objs[h].state \in {"listed", "unlinked", "freed"}
  BY TypeFacts DEF Object

(* An update of objects in place.                                           *)
LEMMA InPlace ==
  ASSUME SyncInv, NEW f \in [DOMAIN objs -> Object]
  PROVE  f \in Seq(Object) /\ Len(f) = Len(objs) /\ DOMAIN f = DOMAIN objs
<1>1. f \in [1..Len(objs) -> Object] /\ Len(objs) \in Nat
  BY TypeFacts
<1>2. f \in Seq(Object) /\ Len(f) = Len(objs)
  BY <1>1
<1>3. QED
  BY <1>2

LEMMA ListedFinite ==
  ASSUME SyncInv
  PROVE  Listed \subseteq DOMAIN objs /\ IsFiniteSet(Listed)
<1>1. IsFiniteSet(DOMAIN objs)
  BY TypeFacts, FS_Interval
<1>2. QED
  BY <1>1, FS_Subset DEF Listed

(* The references to an object, one by one.                                 *)
HeldBy(h) == {x \in Callers \X (1..MaxCount) : x[2] <= held[x[1]] /\ op[x[1]].hs[x[2]] = h}

LEMMA AllFinite ==
  IsFiniteSet(Callers \X (1..MaxCount))
<1>1. IsFiniteSet(Callers)
  BY SyncAssumption DEF Callers
<1>2. IsFiniteSet(1..MaxCount)
  BY SyncAssumption, FS_Interval
<1>3. QED
  BY <1>1, <1>2, FS_Product

LEMMA HeldByFacts ==
  ASSUME SyncInv, NEW h
  PROVE  /\ RefsHeld(h) = Cardinality(HeldBy(h)) /\ IsFiniteSet(HeldBy(h))
         /\ Cardinality(HeldBy(h)) \in Nat
  BY AllFinite, FS_Subset, FS_CardinalityType DEF RefsHeld, HeldBy

(* An object nobody has a reference to.                                     *)
LEMMA NoneHeld ==
  ASSUME SyncInv, NEW h, h \notin Listed
  PROVE  RefsHeld(h) = 0
<1>1. HeldBy(h) = {}
  <2> SUFFICES ASSUME NEW t \in Callers, NEW i \in 1..MaxCount, i <= held[t], op[t].hs[i] = h
               PROVE  FALSE
    BY DEF HeldBy
  <2>1. i \in 1..held[t]
    BY TypeFacts
  <2>2. QED
    BY <2>1 DEF SyncInv, Keeps
<1>2. QED
  BY <1>1, HeldByFacts, FS_EmptySet

(* What the references drop is what one caller holds of them.               *)
LEMMA OwnReferences ==
  ASSUME SyncInv, NEW t \in Callers, NEW h
  PROVE  /\ Cardinality({x \in HeldBy(h) : x[1] = t}) = References(t, h)
         /\ IsFiniteSet({x \in HeldBy(h) : x[1] = t}) /\ References(t, h) \in Nat
<1> DEFINE S == {i \in 1..held[t] : op[t].hs[i] = h}
           T == {x \in HeldBy(h) : x[1] = t}
           f == [i \in S |-> <<t, i>>]
<1>1. IsFiniteSet(S) /\ Cardinality(S) \in Nat
  <2>1. IsFiniteSet(1..held[t])
    BY TypeFacts, FS_Interval
  <2>2. QED
    BY <2>1, FS_Subset, FS_CardinalityType
<1>2. f \in Bijection(S, T)
  <2>1. \A i \in S : <<t, i>> \in T
    BY TypeFacts, OpFacts DEF HeldBy
  <2>2. \A x \in T : x[2] \in S /\ x = <<t, x[2]>>
    BY TypeFacts, OpFacts DEF HeldBy
  <2>3. f \in Injection(S, T)
    BY <2>1 DEF Injection, IsInjective
  <2>4. f \in Surjection(S, T)
    BY <2>1, <2>2 DEF Surjection
  <2>5. QED
    BY <2>3, <2>4 DEF Bijection
<1>3. IsFiniteSet(T) /\ Cardinality(T) = Cardinality(S)
  BY <1>1, <1>2, FS_Bijection DEF ExistsBijection
<1>4. QED
  BY <1>1, <1>3 DEF References

-----------------------------------------------------------------------------
(* What a step of one caller leaves to the others.                          *)

(* Objects stay, values grow.                                               *)
Grows ==
  /\ DOMAIN objs \subseteq DOMAIN objs'
  /\ \A h \in DOMAIN objs :
        /\ objs'[h].timeline = objs[h].timeline /\ objs'[h].value \in Nat
        /\ objs[h].timeline => objs'[h].value >= objs[h].value
        /\ objs[h].value = 1 /\ ~objs[h].timeline => objs'[h].value = 1

LEMMA HeldExist ==
  ASSUME SyncInv, NEW t \in Callers,
         pc[t] \in Inside \/ (pc[t] = "put" /\ err[t] = "ok")
  PROVE  /\ HandlesOf(t) \subseteq DOMAIN objs /\ HandlesOf(t) \subseteq Listed
         /\ HandlesOf(t) # {} /\ held[t] = Len(op[t].hs)
         /\ Single(t) => Target(t) \in DOMAIN objs
         /\ ~Timed(t) => \A h \in HandlesOf(t) : ~objs[h].timeline
<1>1. held[t] = Len(op[t].hs) /\ op[t].hs # <<>>
  BY DEF SyncInv, Progress
<1>2. HandlesOf(t) \subseteq Listed
  BY <1>1, OpFacts DEF SyncInv, Keeps, HandlesOf
<1>3. HandlesOf(t) \subseteq DOMAIN objs
  BY <1>2 DEF Listed
<1>4. Len(op[t].hs) # 0
  BY <1>1, OpFacts
<1>5. HandlesOf(t) # {}
  <2>1. 1 \in DOMAIN op[t].hs
    BY <1>4, OpFacts
  <2>2. QED
    BY <2>1 DEF HandlesOf
<1>6. ASSUME ~Timed(t), NEW h \in HandlesOf(t)
      PROVE  ~objs[h].timeline
  <2>1. CASE Single(t)
    BY <1>6, <2>1, OpFacts DEF Timed
  <2>2. CASE ~Single(t)
    <3>1. PICK i \in 1..held[t] : op[t].hs[i] = h
      BY <1>1, OpFacts DEF HandlesOf
    <3>2. pc[t] = "put" => err[t] = "ok"
      BY DEF Inside
    <3>3. QED
      BY <2>2, <3>1, <3>2 DEF SyncInv, Knows
  <2>3. QED
    BY <2>1, <2>2
<1>7. QED
  BY <1>1, <1>2, <1>3, <1>5, <1>6, OpFacts

(* What a caller has seen stays true while others signal.                   *)
LEMMA SeenStays ==
  ASSUME SyncInv, Grows, NEW t \in Callers, UNCHANGED op[t],
         pc[t] \in Inside \/ (pc[t] = "put" /\ err[t] = "ok")
  PROVE  /\ Single(t)' <=> Single(t)
         /\ Timed(t)' <=> Timed(t)
         /\ Timed(t) /\ ReachedAt(t) => ReachedAt(t)'
         /\ Lit(t) /\ ~Timed(t) => Lit(t)'
         /\ Granted(t) => Granted(t)'
<1>1. /\ Single(t)' <=> Single(t)
      /\ Target(t)' = Target(t) /\ HandlesOf(t)' = HandlesOf(t)
  BY DEF Single, Target, HandlesOf
<1>2. Timed(t)' <=> Timed(t)
  BY <1>1, HeldExist DEF Timed, Grows
<1>3. ASSUME Timed(t), ReachedAt(t)
      PROVE  ReachedAt(t)'
  <2>1. Target(t) \in DOMAIN objs /\ objs[Target(t)].timeline
    BY <1>3, HeldExist DEF Timed
  <2>2. objs'[Target(t)].value >= objs[Target(t)].value /\ objs'[Target(t)].value \in Nat
    BY <2>1 DEF Grows
  <2>3. objs[Target(t)].value \in Nat /\ op[t].point \in Nat
    BY <2>1, ObjFacts, OpFacts, TypeFacts
  <2>4. objs[Target(t)].value >= op[t].point
    BY <1>3 DEF ReachedAt
  <2>5. objs'[Target(t)].value >= op[t].point
    BY <2>2, <2>3, <2>4
  <2>6. QED
    BY <1>1, <2>5 DEF ReachedAt
<1>4. ASSUME Lit(t), ~Timed(t)
      PROVE  Lit(t)'
  <2>1. PICK h \in HandlesOf(t) : objs[h].value = 1
    BY <1>4 DEF Lit
  <2>2. h \in DOMAIN objs /\ ~objs[h].timeline
    BY <1>4, HeldExist
  <2>3. QED
    BY <1>1, <2>1, <2>2 DEF Grows, Lit
<1>5. QED
  BY <1>1, <1>2, <1>3, <1>4 DEF Granted

(* A caller that does not move itself, when the objects it holds stay on    *)
(* the list.                                                                *)
LEMMA OthersKnow ==
  ASSUME SyncInv, Grows, NEW t \in Callers, UNCHANGED <<pc[t], op[t], held[t], err[t]>>,
         \A h \in Listed : (\E i \in 1..held[t] : op[t].hs[i] = h) => h \in Listed'
  PROVE  Progress(t)' /\ Keeps(t)' /\ Knows(t)'
<1>1. Single(t)' <=> Single(t)
  BY DEF Single
<1>2. Progress(t)'
  BY <1>1 DEF SyncInv, Progress
<1>3. Keeps(t)'
  BY DEF SyncInv, Keeps
<1>4. Knows(t)'
  <2>1. pc[t] \in Looking => Timed(t)'
    BY SeenStays DEF SyncInv, Knows, Looking, Inside
  <2>2. pc[t] = "set" => Timed(t)' \/ Lit(t)'
    BY SeenStays DEF SyncInv, Knows, Inside
  <2>3. pc[t] = "woken" => Timed(t)' \/ Lit(t)'
    BY SeenStays DEF SyncInv, Knows, Inside
  <2>4. pc[t] = "put" /\ op[t].name = "wait" /\ err[t] = "ok" => Granted(t)'
    BY SeenStays DEF SyncInv, Knows
  <2>5. ASSUME ~Single(t), pc[t] = "put" => err[t] = "ok", NEW i \in 1..held[t]
        PROVE  ~objs'[op[t].hs[i]].timeline
    <3>1. op[t].hs[i] \in DOMAIN objs /\ ~objs[op[t].hs[i]].timeline
      BY <2>5 DEF SyncInv, Knows, Keeps, Listed
    <3>2. QED
      BY <3>1 DEF Grows
  <2>6. QED
    BY <1>1, <2>1, <2>2, <2>3, <2>4, <2>5 DEF Knows
<1>5. QED
  BY <1>2, <1>3, <1>4

(* The list and the references when no object changes its state.            *)
LEMMA SameList ==
  ASSUME SyncInv, DOMAIN objs' = DOMAIN objs,
         \A h \in DOMAIN objs : objs'[h].state = objs[h].state,
         UNCHANGED <<count, doomed>>
  PROVE  Listed' = Listed /\ FreedOnce'
<1>1. Listed' = Listed
  BY DEF Listed
<1>2. \A t \in Callers : \A h \in doomed[t] : h \in DOMAIN objs
  BY DEF SyncInv, Types
<1>3. QED
  BY <1>1, <1>2 DEF SyncInv, FreedOnce

(* A caller moves on without touching the objects.                          *)
LEMMA MoveInv ==
  ASSUME SyncInv, NEW t \in Callers, NEW l \in PcT, pc' = [pc EXCEPT ![t] = l],
         err' \in [Callers -> ErrT], \A u \in Callers \ {t} : err'[u] = err[u],
         UNCHANGED <<objs, count, op, held, doomed>>,
         Progress(t)', Knows(t)'
  PROVE  SyncInv'
<1>1. pc' \in [Callers -> PcT] /\ \A u \in Callers \ {t} : pc'[u] = pc[u]
  BY TypeFacts
<1>2. Types'
  BY <1>1 DEF SyncInv, Types, TypeOK, PcT, ErrT
<1>3. Listed' = Listed /\ FreedOnce'
  BY SameList
<1>4. RefsBalanced' /\ Events'
  BY <1>3 DEF SyncInv, RefsBalanced, RefsHeld, Events
<1>5. Grows
  BY ObjFacts DEF Grows
<1>6. \A u \in Callers \ {t} : Progress(u)' /\ Keeps(u)' /\ Knows(u)'
  BY <1>1, <1>3, <1>5, OthersKnow
<1>7. Keeps(t)'
  BY <1>3 DEF SyncInv, Keeps
<1>8. QED
  BY <1>2, <1>3, <1>4, <1>6, <1>7 DEF SyncInv

-----------------------------------------------------------------------------
(* Waiting.                                                                 *)

LEMMA CheckInv ==
  ASSUME SyncInv, NEW t \in Callers, Check(t)
  PROVE  SyncInv'
<1>1. PICK l \in {"put", "clear"} :
        /\ pc[t] = "check" /\ pc' = [pc EXCEPT ![t] = l] /\ pc'[t] = l
        /\ l = "put" => ReachedAt(t)
        /\ UNCHANGED <<objs, count, op, held, err, doomed>>
  BY TypeFacts DEF Check, Goto, call
<1>2. Timed(t) /\ op[t].name # "signal" /\ Single(t)
  BY <1>1 DEF SyncInv, Progress, Knows, Inside, Signalling, Looking, Timed
<1>3. (Timed(t) <=> Timed(t)') /\ (Single(t) <=> Single(t)') /\ (ReachedAt(t) <=> ReachedAt(t)')
  BY <1>1 DEF Timed, Single, ReachedAt, Target
<1>4. Progress(t)'
  BY <1>1, <1>2, <1>3 DEF SyncInv, Progress, Inside, Signalling
<1>5. Knows(t)'
  BY <1>1, <1>2, <1>3 DEF Knows, Looking, Granted
<1>6. QED
  BY <1>1, <1>4, <1>5, TypeFacts, MoveInv DEF PcT

LEMMA RecheckInv ==
  ASSUME SyncInv, NEW t \in Callers, Recheck(t)
  PROVE  SyncInv'
<1>1. PICK l \in {"put", "block"} :
        /\ pc[t] = "recheck" /\ pc' = [pc EXCEPT ![t] = l] /\ pc'[t] = l
        /\ l = "put" => ReachedAt(t)
        /\ UNCHANGED <<objs, count, op, held, err, doomed>>
  BY TypeFacts DEF Recheck, Goto, call
<1>2. Timed(t) /\ op[t].name # "signal" /\ Single(t)
  BY <1>1 DEF SyncInv, Progress, Knows, Inside, Signalling, Looking, Timed
<1>3. (Timed(t) <=> Timed(t)') /\ (Single(t) <=> Single(t)') /\ (ReachedAt(t) <=> ReachedAt(t)')
  BY <1>1 DEF Timed, Single, ReachedAt, Target
<1>4. Progress(t)'
  BY <1>1, <1>2, <1>3 DEF SyncInv, Progress, Inside, Signalling
<1>5. Knows(t)'
  BY <1>1, <1>2, <1>3 DEF Knows, Looking, Granted
<1>6. QED
  BY <1>1, <1>4, <1>5, TypeFacts, MoveInv DEF PcT

(* The event of an object is set only with its value.                       *)
LEMMA KeWaitInv ==
  ASSUME SyncInv, NEW t \in Callers, KeWait(t)
  PROVE  SyncInv'
<1>1. PICK l \in {"woken", "expired", "waiting"} :
        /\ pc[t] = "block" /\ pc' = [pc EXCEPT ![t] = l] /\ pc'[t] = l
        /\ l = "woken" => EventSet(t)
        /\ UNCHANGED <<objs, count, op, held, err, doomed>>
  BY TypeFacts DEF KeWait, Goto
<1>2. /\ op[t].name # "signal"
      /\ ~Single(t) => \A i \in 1..held[t] : ~objs[op[t].hs[i]].timeline
  BY <1>1 DEF SyncInv, Progress, Knows, Inside, Signalling
<1>3. l = "woken" => Timed(t) \/ Lit(t)
  <2> SUFFICES ASSUME EventSet(t), ~Timed(t) PROVE Lit(t)
    BY <1>1
  <2>1. PICK h \in HandlesOf(t) : objs[h].event
    BY DEF EventSet
  <2>2. h \in DOMAIN objs /\ ~objs[h].timeline
    BY <1>1, HeldExist DEF Inside
  <2>3. QED
    BY <2>1, <2>2 DEF SyncInv, Events, Lit
<1>4. (Timed(t) <=> Timed(t)') /\ (Single(t) <=> Single(t)') /\ (Lit(t) <=> Lit(t)')
  BY <1>1 DEF Timed, Single, Lit, Target, HandlesOf
<1>5. Progress(t)'
  BY <1>1, <1>2, <1>4 DEF SyncInv, Progress, Inside, Signalling
<1>6. Knows(t)'
  BY <1>1, <1>2, <1>3, <1>4 DEF Knows, Looking
<1>7. QED
  BY <1>1, <1>5, <1>6, TypeFacts, MoveInv DEF PcT

LEMMA ExpireInv ==
  ASSUME SyncInv, NEW t \in Callers, Expire(t)
  PROVE  SyncInv'
<1>1. /\ pc[t] \in {"expired", "waiting"} /\ pc' = [pc EXCEPT ![t] = "put"] /\ pc'[t] = "put"
      /\ err' = [err EXCEPT ![t] = "etimedout"] /\ err'[t] = "etimedout"
      /\ UNCHANGED <<objs, count, op, held, doomed>>
  BY TypeFacts DEF Expire, Goto
<1>2. op[t].name # "signal"
  BY <1>1 DEF SyncInv, Progress, Inside, Signalling
<1>3. Progress(t)'
  BY <1>1, <1>2 DEF SyncInv, Progress, Inside, Signalling
<1>4. Knows(t)'
  BY <1>1 DEF Knows, Looking
<1>5. err' \in [Callers -> ErrT] /\ \A u \in Callers \ {t} : err'[u] = err[u]
  BY <1>1, TypeFacts DEF ErrT
<1>6. QED
  BY <1>1, <1>3, <1>4, <1>5, MoveInv DEF PcT

(* A binary object that was signalled stays signalled; a timeline's value   *)
(* is looked at again.                                                      *)
LEMMA WokenInv ==
  ASSUME SyncInv, NEW t \in Callers, Woken(t)
  PROVE  SyncInv'
<1>1. PICK l \in {"check", "put"} :
        /\ pc[t] = "woken" /\ pc' = [pc EXCEPT ![t] = l] /\ pc'[t] = l
        /\ l = "check" <=> Timed(t)
        /\ UNCHANGED <<objs, count, op, held, err, doomed>>
  BY TypeFacts DEF Woken, Goto, call, Timed
<1>2. /\ op[t].name # "signal" /\ (Timed(t) \/ Lit(t)) /\ (Timed(t) => Single(t))
      /\ ~Single(t) => \A i \in 1..held[t] : ~objs[op[t].hs[i]].timeline
  BY <1>1 DEF SyncInv, Progress, Knows, Inside, Signalling, Timed
<1>3. (Timed(t) <=> Timed(t)') /\ (Single(t) <=> Single(t)') /\ (Lit(t) <=> Lit(t)')
  BY <1>1 DEF Timed, Single, Lit, Target, HandlesOf
<1>4. Progress(t)'
  BY <1>1, <1>2, <1>3 DEF SyncInv, Progress, Inside, Signalling
<1>5. Knows(t)'
  BY <1>1, <1>2, <1>3 DEF Knows, Looking, Granted
<1>6. QED
  BY <1>1, <1>4, <1>5, TypeFacts, MoveInv DEF PcT

-----------------------------------------------------------------------------
(* The references of a call.                                                *)

LEMMA BeginInv ==
  ASSUME SyncInv, NEW t \in Callers, NEW o \in Op, Len(o.hs) \in 1..MaxCount,
         o.name = "signal" => Len(o.hs) = 1, Begin(t, o)
  PROVE  SyncInv'
<1>1. /\ pc[t] = "idle" /\ pc' = [pc EXCEPT ![t] = "get"] /\ op' = [op EXCEPT ![t] = o]
      /\ UNCHANGED <<objs, count, held, err, doomed>>
  BY DEF Begin, Goto
<1>2. /\ pc' \in [Callers -> PcT] /\ pc'[t] = "get" /\ op' \in [Callers -> Op] /\ op'[t] = o
      /\ \A u \in Callers \ {t} : pc'[u] = pc[u] /\ op'[u] = op[u]
  BY <1>1, TypeFacts DEF PcT
<1>3. held[t] = 0
  BY <1>1 DEF SyncInv, Progress
<1>4. Types'
  <2>1. /\ o.hs \in Seq(Handle) /\ o.name \in {"none", "signal", "wait"} /\ o.point \in Points
        /\ \A i \in DOMAIN o.hs : o.hs[i] \in Handle
    BY DEF Op
  <2>2. \A u \in Callers :
          /\ op'[u].name \in {"none", "signal", "wait"} /\ op'[u].point \in Points
          /\ \A i \in DOMAIN op'[u].hs : op'[u].hs[i] \in Handle
          /\ held[u] \in 0..Len(op'[u].hs)
          /\ Len(op'[u].hs) <= MaxCount
    <3> TAKE u \in Callers
    <3>1. CASE u = t
      BY <1>2, <1>3, <2>1, <3>1, TypeFacts
    <3>2. CASE u # t
      BY <1>2, <3>2 DEF SyncInv, Types, TypeOK
    <3>3. QED
      BY <3>1, <3>2
  <2>3. QED
    BY <1>1, <1>2, <2>2 DEF SyncInv, Types, TypeOK, PcT
<1>5. Listed' = Listed /\ FreedOnce'
  BY <1>1, SameList
<1>6. RefsBalanced' /\ Events'
  <2>1. \A h : RefsHeld(h)' = RefsHeld(h)
    <3> TAKE h
    <3>1. \A x \in Callers \X (1..MaxCount) :
            x[2] <= held[x[1]] /\ op'[x[1]].hs[x[2]] = h <=>
            x[2] <= held[x[1]] /\ op[x[1]].hs[x[2]] = h
      BY <1>2, <1>3, TypeFacts
    <3>2. QED
      BY <1>1, <3>1 DEF RefsHeld
  <2>2. QED
    BY <1>1, <1>5, <2>1 DEF SyncInv, RefsBalanced, Events
<1>7. Grows
  BY <1>1, ObjFacts DEF Grows
<1>8. \A u \in Callers \ {t} : Progress(u)' /\ Keeps(u)' /\ Knows(u)'
  BY <1>1, <1>2, <1>5, <1>7, OthersKnow
<1>9. Progress(t)' /\ Keeps(t)' /\ Knows(t)'
  <2>1. Progress(t)'
    BY <1>1, <1>2, <1>3 DEF Progress, Inside, Signalling, Single
  <2>2. 1..held'[t] = {}
    BY <1>1, <1>3
  <2>3. Keeps(t)'
    BY <2>2 DEF Keeps
  <2>4. Knows(t)'
    BY <1>2, <2>2 DEF Knows, Looking
  <2>5. QED
    BY <2>1, <2>3, <2>4
<1>10. QED
  BY <1>4, <1>5, <1>6, <1>8, <1>9 DEF SyncInv

LEMMA BeginSignalInv ==
  ASSUME SyncInv, NEW t \in Callers, BeginSignal(t)
  PROVE  SyncInv'
<1>1. PICK h \in Handle, p \in Points \ {0} :
        Begin(t, [Idle EXCEPT !.name = "signal", !.hs = <<h>>, !.point = p])
  BY DEF BeginSignal
<1> DEFINE o == [Idle EXCEPT !.name = "signal", !.hs = <<h>>, !.point = p]
<1>2. <<h>> \in Seq(Handle) /\ Len(<<h>>) = 1
  OBVIOUS
<1>3. Idle \in Op
  BY TypeFacts DEF Idle, Op
<1>4. o \in Op /\ o.hs = <<h>>
  BY <1>2, <1>3 DEF Op
<1>5. Len(o.hs) = 1 /\ Len(o.hs) \in 1..MaxCount
  BY <1>2, <1>4, TypeFacts
<1> HIDE DEF o
<1>6. QED
  BY <1>1, <1>4, <1>5, BeginInv DEF o

LEMMA BeginWaitInv ==
  ASSUME SyncInv, NEW t \in Callers, BeginWait(t)
  PROVE  SyncInv'
<1>1. PICK n \in 1..MaxCount : \E hs \in [1..n -> Handle], p \in Points, all \in BOOLEAN,
                                 limit \in Limits :
        Begin(t, [name |-> "wait", hs |-> hs, point |-> p, all |-> all, limit |-> limit])
  <2>1. \A n : (IF n = 1 THEN Points ELSE {0}) \subseteq Points
               /\ (IF n = 1 THEN {FALSE} ELSE BOOLEAN) \subseteq BOOLEAN
    BY TypeFacts
  <2>2. QED
    BY <2>1 DEF BeginWait
<1>2. PICK hs \in [1..n -> Handle], p \in Points, all \in BOOLEAN, limit \in Limits :
        Begin(t, [name |-> "wait", hs |-> hs, point |-> p, all |-> all, limit |-> limit])
  BY <1>1
<1> DEFINE o == [name |-> "wait", hs |-> hs, point |-> p, all |-> all, limit |-> limit]
<1>3. hs \in Seq(Handle) /\ Len(hs) = n
  <2>1. n \in Nat
    BY TypeFacts
  <2>2. QED
    BY <2>1
<1>4. o \in Op
  BY <1>3, SyncAssumption DEF Op
<1>5. Len(o.hs) \in 1..MaxCount /\ o.name = "wait"
  BY <1>3
<1>6. QED
  BY <1>2, <1>4, <1>5, BeginInv

(* A reference is taken to what the table lists, under its lock.            *)
LEMMA GetInv ==
  ASSUME SyncInv, NEW t \in Callers, Get(t)
  PROVE  SyncInv'
<1> DEFINE h == op[t].hs[held[t] + 1]
<1>1. /\ pc[t] = "get" /\ held[t] < Len(op[t].hs) /\ UNCHANGED <<count, op, doomed>>
      /\ held[t] + 1 \in 1..Len(op[t].hs) /\ held[t] + 1 \in 1..MaxCount
  <2>1. pc[t] = "get" /\ UNCHANGED <<count, op, doomed>>
    BY DEF Get
  <2>2. held[t] < Len(op[t].hs)
    BY <2>1 DEF SyncInv, Progress
  <2>3. QED
    BY <2>1, <2>2, OpFacts, TypeFacts
<1>2. CASE /\ h \notin Listed /\ err' = [err EXCEPT ![t] = "enoent"]
           /\ pc' = [pc EXCEPT ![t] = "put"] /\ UNCHANGED <<objs, held>>
  <2>1. /\ pc'[t] = "put" /\ err'[t] = "enoent" /\ err' \in [Callers -> ErrT]
        /\ \A u \in Callers \ {t} : err'[u] = err[u]
    BY <1>2, TypeFacts DEF ErrT
  <2>2. Single(t)' <=> Single(t)
    BY <1>1 DEF Single
  <2>3. Progress(t)'
    BY <1>1, <1>2, <2>1, <2>2 DEF SyncInv, Progress, Inside, Signalling
  <2>4. Knows(t)'
    BY <2>1 DEF Knows, Looking
  <2>5. QED
    BY <1>1, <1>2, <2>1, <2>3, <2>4, MoveInv DEF PcT
<1>3. CASE /\ h \in Listed /\ objs' = [objs EXCEPT ![h].refs = @ + 1]
           /\ held' = [held EXCEPT ![t] = @ + 1]
           /\ IF ~Single(t) /\ objs[h].timeline
              THEN err' = [err EXCEPT ![t] = "einval"] /\ pc' = [pc EXCEPT ![t] = "put"]
              ELSE /\ pc' = [pc EXCEPT ![t] = IF held[t] + 1 = Len(op[t].hs) THEN Body(t)
                                              ELSE "get"]
                   /\ UNCHANGED err
  <2>1. h \in DOMAIN objs
    BY <1>3 DEF Listed
  <2>2. /\ objs' \in [DOMAIN objs -> Object]
        /\ objs'[h] = [objs[h] EXCEPT !.refs = @ + 1]
        /\ \A g \in DOMAIN objs \ {h} : objs'[g] = objs[g]
    <3>1. objs[h] \in Object /\ [objs[h] EXCEPT !.refs = @ + 1] \in Object
      BY <2>1, ObjFacts DEF Object
    <3>2. objs' = [objs EXCEPT ![h] = [objs[h] EXCEPT !.refs = @ + 1]]
      BY <1>3
    <3>3. QED
      BY <2>1, <3>1, <3>2, TypeFacts
  <2>3. objs' \in Seq(Object) /\ Len(objs') = Len(objs) /\ DOMAIN objs' = DOMAIN objs
    BY <2>2, InPlace
  <2>4. \A g \in DOMAIN objs :
          /\ objs'[g].state = objs[g].state /\ objs'[g].timeline = objs[g].timeline
          /\ objs'[g].value = objs[g].value /\ objs'[g].event = objs[g].event
          /\ objs'[g].refs = objs[g].refs + (IF g = h THEN 1 ELSE 0)
    BY <2>1, <2>2, ObjFacts DEF Object
  <2>5. /\ held' \in [Callers -> Nat] /\ held'[t] = held[t] + 1
        /\ \A u \in Callers \ {t} : held'[u] = held[u]
    BY <1>3, TypeFacts
  <2>6. PICK l \in {"put", "get", "value", "check", "block"}, e \in [Callers -> ErrT] :
          /\ pc' = [pc EXCEPT ![t] = l] /\ err' = e
          /\ \A u \in Callers \ {t} : e[u] = err[u]
          /\ l = "put" => e[t] = "einval"
          /\ l # "put" /\ ~Single(t) => ~objs[h].timeline
          /\ l = "get" => held[t] + 1 # Len(op[t].hs)
          /\ l \in {"value", "check", "block"} => held[t] + 1 = Len(op[t].hs)
          /\ l \in {"check", "block"} => op[t].name # "signal"
          /\ l = "value" => op[t].name = "signal"
          /\ l = "check" => Timed(t)
    <3>1. CASE ~Single(t) /\ objs[h].timeline
      <4>1. [err EXCEPT ![t] = "einval"] \in [Callers -> ErrT]
        BY TypeFacts DEF ErrT
      <4>2. QED
        BY <1>3, <3>1, <4>1, TypeFacts
    <3>2. CASE ~(~Single(t) /\ objs[h].timeline)
      <4>1. CASE held[t] + 1 = Len(op[t].hs)
        <5>1. PICK l \in {"value", "check", "block"} :
                /\ l = Body(t)
                /\ l \in {"check", "block"} => op[t].name # "signal"
                /\ l = "value" => op[t].name = "signal"
                /\ l = "check" => Timed(t)
          BY DEF Body, Timed
        <5>2. QED
          BY <1>3, <3>2, <4>1, <5>1, TypeFacts
      <4>2. CASE held[t] + 1 # Len(op[t].hs)
        BY <1>3, <3>2, <4>2, TypeFacts
      <4>3. QED
        BY <4>1, <4>2
    <3>3. QED
      BY <3>1, <3>2
  <2>7. /\ pc' \in [Callers -> PcT] /\ pc'[t] = l /\ err'[t] = e[t]
        /\ \A u \in Callers \ {t} : pc'[u] = pc[u]
    BY <2>6, TypeFacts DEF PcT
  <2>8. Types'
    <3>1. \A u \in Callers : held'[u] \in 0..Len(op[u].hs)
      <4> TAKE u \in Callers
      <4>1. CASE u = t
        BY <1>1, <2>5, <4>1, OpFacts
      <4>2. CASE u # t
        BY <2>5, <4>2 DEF SyncInv, Types, TypeOK
      <4>3. QED
        BY <4>1, <4>2
    <3>2. /\ pc' \in [Callers -> PcT] /\ err' \in [Callers -> ErrT] /\ held' \in [Callers -> Nat]
          /\ objs' \in Seq(Object) /\ Len(objs') <= MaxHandles /\ DOMAIN objs' = DOMAIN objs
      BY <2>3, <2>5, <2>6, <2>7, TypeFacts
    <3>3. QED
      BY <1>1, <3>1, <3>2 DEF SyncInv, Types, TypeOK, PcT, ErrT
  <2>9. Listed' = Listed /\ FreedOnce'
    BY <1>1, <2>3, <2>4, SameList
  <2>10. Events'
    BY <2>3, <2>4 DEF SyncInv, Events
  <2>11. RefsBalanced'
    <3> SUFFICES ASSUME NEW g \in Listed
                 PROVE  objs'[g].refs = 1 + RefsHeld(g)'
      BY <2>9 DEF RefsBalanced
    <3> DEFINE x0 == <<t, held[t] + 1>>
    <3>1. objs[g].refs = 1 + Cardinality(HeldBy(g)) /\ g \in DOMAIN objs
      BY HeldByFacts DEF SyncInv, RefsBalanced, Listed
    <3>2. RefsHeld(g)' = Cardinality(HeldBy(g)')
      BY DEF RefsHeld, HeldBy
    <3>3. x0 \in Callers \X (1..MaxCount) /\ x0[1] = t /\ x0[2] = held[t] + 1
      BY <1>1
    <3>4. \A x \in Callers \X (1..MaxCount) :
            x[2] <= held'[x[1]] <=> (x[2] <= held[x[1]] \/ x = x0)
      <4> TAKE x \in Callers \X (1..MaxCount)
      <4>1. x[1] \in Callers /\ x[2] \in Nat /\ x = <<x[1], x[2]>>
        OBVIOUS
      <4>2. CASE x[1] = t
        BY <2>5, <4>1, <4>2, TypeFacts
      <4>3. CASE x[1] # t
        BY <2>5, <3>3, <4>1, <4>3
      <4>4. QED
        BY <4>2, <4>3
    <3>5. CASE g = h
      <4>1. x0 \notin HeldBy(g)
        BY <3>3, TypeFacts DEF HeldBy
      <4>2. HeldBy(g)' = HeldBy(g) \cup {x0}
        BY <1>1, <3>3, <3>4, <3>5 DEF HeldBy
      <4>3. Cardinality(HeldBy(g)') = Cardinality(HeldBy(g)) + 1
        BY <4>1, <4>2, HeldByFacts, FS_AddElement
      <4>4. QED
        BY <2>4, <3>1, <3>2, <3>5, <4>3, HeldByFacts
    <3>6. CASE g # h
      <4>1. HeldBy(g)' = HeldBy(g)
        BY <1>1, <3>3, <3>4, <3>6 DEF HeldBy
      <4>2. objs'[g].refs = objs[g].refs
        BY <2>4, <3>1, <3>6, ObjFacts
      <4>3. QED
        BY <3>1, <3>2, <4>1, <4>2
    <3>7. QED
      BY <3>5, <3>6
  <2>12. Grows
    BY <2>3, <2>4, ObjFacts DEF Grows
  <2>13. \A u \in Callers \ {t} : Progress(u)' /\ Keeps(u)' /\ Knows(u)'
    BY <1>1, <2>5, <2>6, <2>7, <2>9, <2>12, OthersKnow
  <2>14. Progress(t)'
    <3>1. Single(t)' <=> Single(t)
      BY <1>1 DEF Single
    <3>2. Len(op[t].hs) # 0 /\ op[t].hs # <<>>
      BY <1>1, OpFacts
    <3>3. l = "get" => held'[t] < Len(op[t].hs)
      BY <1>1, <2>5, <2>6, OpFacts
    <3>4. l \in Inside => l \in {"value", "check", "block"}
      BY DEF Inside
    <3>5. l \in Signalling <=> l = "value"
      BY DEF Signalling
    <3>6. QED
      BY <1>1, <2>5, <2>6, <2>7, <3>1, <3>2, <3>3, <3>4, <3>5 DEF SyncInv, Progress, Inside
  <2>15. Keeps(t)'
    <3> SUFFICES ASSUME NEW i \in 1..(held[t] + 1) PROVE op[t].hs[i] \in Listed
      BY <1>1, <2>5, <2>9 DEF Keeps
    <3>1. i \in 1..held[t] \/ i = held[t] + 1
      BY TypeFacts
    <3>2. QED
      BY <1>3, <3>1 DEF SyncInv, Keeps
  <2>16. Knows(t)'
    <3>1. Timed(t) => Timed(t)'
      <4>1. Single(t) => held[t] = 0
        <5>1. held[t] \in Nat /\ held[t] < Len(op[t].hs)
          BY <1>1, OpFacts
        <5>2. QED
          BY <5>1 DEF Single
      <4>2. Single(t) => Target(t) = h
        BY <4>1 DEF Target
      <4>3. QED
        BY <1>1, <2>1, <2>4, <4>2 DEF Timed, Single, Target
    <3>2. ASSUME ~Single(t), l # "put", NEW i \in 1..(held[t] + 1)
          PROVE  ~objs'[op[t].hs[i]].timeline
      <4>1. CASE i \in 1..held[t]
        <5>1. ~objs[op[t].hs[i]].timeline /\ op[t].hs[i] \in DOMAIN objs
          BY <1>1, <3>2, <4>1 DEF SyncInv, Knows, Keeps, Listed
        <5>2. QED
          BY <2>4, <5>1
      <4>2. CASE i = held[t] + 1
        BY <2>1, <2>4, <2>6, <3>2, <4>2
      <4>3. QED
        BY <4>1, <4>2, TypeFacts
    <3>3. Single(t)' <=> Single(t)
      BY <1>1 DEF Single
    <3>4. QED
      BY <1>1, <2>5, <2>6, <2>7, <3>1, <3>2, <3>3 DEF Knows, Looking
  <2>17. QED
    BY <2>8, <2>9, <2>10, <2>11, <2>13, <2>14, <2>15, <2>16 DEF SyncInv
<1>4. QED
  BY <1>2, <1>3 DEF Get, Goto

(* References are dropped as often as they were taken.                      *)
LEMMA PutInv ==
  ASSUME SyncInv, NEW t \in Callers, Put(t)
  PROVE  SyncInv'
<1>1. /\ pc[t] = "put" /\ held' = [held EXCEPT ![t] = 0] /\ op' = [op EXCEPT ![t] = Idle]
      /\ err' = [err EXCEPT ![t] = "ok"] /\ pc' = [pc EXCEPT ![t] = "idle"]
      /\ UNCHANGED <<count, doomed>>
      /\ objs' = [h \in DOMAIN objs |-> [objs[h] EXCEPT !.refs = @ - References(t, h)]]
  BY DEF Put, Goto
<1>2. Idle \in Op /\ Idle.hs = <<>> /\ Idle.name = "none" /\ Idle.point = 0
  BY TypeFacts DEF Idle, Op
<1>3. /\ pc' \in [Callers -> PcT] /\ pc'[t] = "idle" /\ op' \in [Callers -> Op] /\ op'[t] = Idle
      /\ held' \in [Callers -> Nat] /\ held'[t] = 0 /\ err' \in [Callers -> ErrT]
      /\ \A u \in Callers \ {t} : /\ pc'[u] = pc[u] /\ op'[u] = op[u]
                                  /\ held'[u] = held[u] /\ err'[u] = err[u]
  BY <1>1, <1>2, TypeFacts DEF PcT, ErrT
<1>4. \A h \in DOMAIN objs :
        /\ objs'[h] \in Object
        /\ objs'[h].state = objs[h].state /\ objs'[h].timeline = objs[h].timeline
        /\ objs'[h].value = objs[h].value /\ objs'[h].event = objs[h].event
        /\ objs'[h].refs = objs[h].refs - References(t, h)
  <2> TAKE h \in DOMAIN objs
  <2>1. objs[h] \in Object /\ References(t, h) \in Nat
    BY ObjFacts, OwnReferences
  <2>2. objs'[h] = [objs[h] EXCEPT !.refs = @ - References(t, h)]
    BY <1>1
  <2>3. QED
    BY <2>1, <2>2 DEF Object
<1>5. objs' \in Seq(Object) /\ Len(objs') = Len(objs) /\ DOMAIN objs' = DOMAIN objs
  <2>1. objs' \in [DOMAIN objs -> Object]
    BY <1>1, <1>4
  <2>2. QED
    BY <2>1, InPlace
<1>6. Types'
  <2>1. \A u \in Callers :
          /\ op'[u].name \in {"none", "signal", "wait"} /\ op'[u].point \in Points
          /\ \A i \in DOMAIN op'[u].hs : op'[u].hs[i] \in Handle
          /\ held'[u] \in 0..Len(op'[u].hs)
          /\ Len(op'[u].hs) <= MaxCount
    <3> TAKE u \in Callers
    <3>1. CASE u = t
      BY <1>2, <1>3, <3>1, TypeFacts
    <3>2. CASE u # t
      BY <1>3, <3>2 DEF SyncInv, Types, TypeOK
    <3>3. QED
      BY <3>1, <3>2
  <2>2. QED
    BY <1>1, <1>3, <1>5, <2>1 DEF SyncInv, Types, TypeOK, PcT, ErrT
<1>7. Listed' = Listed /\ FreedOnce'
  BY <1>1, <1>4, <1>5, SameList
<1>8. Events'
  BY <1>4, <1>5 DEF SyncInv, Events
<1>9. RefsBalanced'
  <2> SUFFICES ASSUME NEW g \in Listed
               PROVE  objs'[g].refs = 1 + RefsHeld(g)'
    BY <1>7 DEF RefsBalanced
  <2> DEFINE Own == {x \in HeldBy(g) : x[1] = t}
  <2>1. objs[g].refs = 1 + Cardinality(HeldBy(g)) /\ g \in DOMAIN objs
    BY HeldByFacts DEF SyncInv, RefsBalanced, Listed
  <2>2. RefsHeld(g)' = Cardinality(HeldBy(g)')
    BY DEF RefsHeld, HeldBy
  <2>3. HeldBy(g)' = HeldBy(g) \ Own
    <3>1. \A x \in Callers \X (1..MaxCount) :
            x[2] <= held'[x[1]] /\ op'[x[1]].hs[x[2]] = g <=>
            x[1] # t /\ x[2] <= held[x[1]] /\ op[x[1]].hs[x[2]] = g
      BY <1>3
    <3>2. QED
      BY <3>1 DEF HeldBy
  <2>4. HeldBy(g) \cap Own = Own
    OBVIOUS
  <2>5. Cardinality(HeldBy(g)') = Cardinality(HeldBy(g)) - References(t, g)
    <3>1. IsFiniteSet(HeldBy(g)) /\ Cardinality(Own) = References(t, g)
      BY HeldByFacts, OwnReferences
    <3> HIDE DEF Own
    <3>2. Cardinality(HeldBy(g) \ Own) = Cardinality(HeldBy(g)) - Cardinality(HeldBy(g) \cap Own)
      BY <3>1, FS_Difference
    <3>3. QED
      BY <2>3, <2>4, <3>1, <3>2
  <2>6. Cardinality(HeldBy(g)) \in Nat /\ References(t, g) \in Nat
    BY HeldByFacts, OwnReferences
  <2>7. objs'[g].refs = objs[g].refs - References(t, g)
    BY <1>4, <2>1
  <2>8. QED
    BY <2>1, <2>2, <2>5, <2>6, <2>7
<1>10. Grows
  BY <1>4, <1>5, ObjFacts DEF Grows
<1>11. \A u \in Callers \ {t} : Progress(u)' /\ Keeps(u)' /\ Knows(u)'
  BY <1>3, <1>7, <1>10, OthersKnow
<1>12. Progress(t)' /\ Keeps(t)' /\ Knows(t)'
  BY <1>2, <1>3 DEF Progress, Keeps, Knows, Inside, Signalling, Looking, Single
<1>13. QED
  BY <1>6, <1>7, <1>8, <1>9, <1>11, <1>12 DEF SyncInv

-----------------------------------------------------------------------------
(* Signalling, and the event.                                               *)

LEMMA InPlaceInv ==
  ASSUME SyncInv, objs' \in [DOMAIN objs -> Object], Grows, Events',
         \A h \in DOMAIN objs : objs'[h].state = objs[h].state /\ objs'[h].refs = objs[h].refs,
         pc' \in [Callers -> PcT], UNCHANGED <<count, op, held, err, doomed>>,
         \A u \in Callers : pc'[u] = pc[u] \/ (Progress(u)' /\ Knows(u)')
  PROVE  SyncInv'
<1>1. objs' \in Seq(Object) /\ Len(objs') = Len(objs) /\ DOMAIN objs' = DOMAIN objs
  BY InPlace
<1>2. Types'
  BY <1>1 DEF SyncInv, Types, TypeOK, PcT
<1>3. Listed' = Listed /\ FreedOnce'
  BY <1>1, SameList
<1>4. RefsBalanced'
  <2>1. \A h : RefsHeld(h)' = RefsHeld(h)
    BY DEF RefsHeld
  <2>2. QED
    BY <1>3, <2>1 DEF SyncInv, RefsBalanced, Listed
<1>5. ASSUME NEW u \in Callers
      PROVE  Progress(u)' /\ Keeps(u)' /\ Knows(u)'
  <2>1. Keeps(u)'
    BY <1>3 DEF SyncInv, Keeps
  <2>2. CASE pc'[u] = pc[u]
    BY <1>3, <2>2, OthersKnow
  <2>3. QED
    BY <2>1, <2>2
<1>6. QED
  BY <1>2, <1>3, <1>4, <1>5 DEF SyncInv

(* A binary object becomes 1; a timeline never goes back.                   *)
LEMMA SetValueInv ==
  ASSUME SyncInv, NEW t \in Callers, SetValue(t)
  PROVE  SyncInv'
<1> DEFINE g == Target(t)
<1>1. /\ pc[t] = "value" /\ pc' = [pc EXCEPT ![t] = "set"]
      /\ UNCHANGED <<count, op, held, err, doomed>>
  BY DEF SetValue, Goto, call
<1>2. /\ op[t].name = "signal" /\ Single(t) /\ held[t] = Len(op[t].hs) /\ op[t].hs # <<>>
      /\ g \in DOMAIN objs /\ op[t].point \in Points
  <2>1. op[t].name = "signal" /\ Single(t) /\ held[t] = Len(op[t].hs) /\ op[t].hs # <<>>
    BY <1>1 DEF SyncInv, Progress, Signalling, Inside
  <2>2. g \in DOMAIN objs
    BY <1>1, <2>1, HeldExist DEF Inside
  <2>3. QED
    BY <2>1, <2>2, OpFacts
<1>3. PICK v \in Points : /\ objs' = [objs EXCEPT ![g] = [objs[g] EXCEPT !.value = v]]
                          /\ objs[g].timeline => v >= objs[g].value
                          /\ ~objs[g].timeline => v = 1
  <2>1. objs[g].value \in Points /\ objs[g].value \in Nat /\ op[t].point \in Nat
    BY <1>2, ObjFacts, TypeFacts
  <2>2. PICK v \in Points : /\ v = IF ~objs[g].timeline THEN 1
                                   ELSE IF op[t].point > objs[g].value THEN op[t].point
                                   ELSE objs[g].value
                            /\ objs[g].timeline => v >= objs[g].value
                            /\ ~objs[g].timeline => v = 1
    BY <1>2, <2>1, TypeFacts
  <2>3. objs' = [objs EXCEPT ![g] = [objs[g] EXCEPT !.value = v]]
    BY <2>2 DEF SetValue
  <2>4. QED
    BY <2>2, <2>3
<1>4. /\ objs' \in [DOMAIN objs -> Object] /\ objs'[g] = [objs[g] EXCEPT !.value = v]
      /\ \A h \in DOMAIN objs \ {g} : objs'[h] = objs[h]
  <2>1. objs[g] \in Object /\ [objs[g] EXCEPT !.value = v] \in Object
    BY <1>2, ObjFacts DEF Object
  <2>2. QED
    BY <1>2, <1>3, <2>1, TypeFacts
<1>5. /\ \A h \in DOMAIN objs :
            /\ objs'[h].state = objs[h].state /\ objs'[h].refs = objs[h].refs
            /\ objs'[h].timeline = objs[h].timeline /\ objs'[h].event = objs[h].event
            /\ objs'[h].value = IF h = g THEN v ELSE objs[h].value
      /\ DOMAIN objs' = DOMAIN objs
  BY <1>2, <1>4, ObjFacts DEF Object
<1>6. Grows
  BY <1>3, <1>5, ObjFacts, TypeFacts DEF Grows
<1>7. Events'
  BY <1>3, <1>5 DEF SyncInv, Events
<1>8. pc' \in [Callers -> PcT] /\ pc'[t] = "set" /\ \A u \in Callers \ {t} : pc'[u] = pc[u]
  BY <1>1, TypeFacts DEF PcT
<1>9. Progress(t)'
  BY <1>1, <1>2, <1>8 DEF Progress, Inside, Signalling, Single
<1>10. Knows(t)'
  <2>1. Single(t)' /\ Target(t)' = g /\ HandlesOf(t)' = {g}
    BY <1>1, <1>2, OpFacts DEF Single, Target, HandlesOf
  <2>2. Timed(t)' \/ Lit(t)'
    BY <1>2, <1>3, <1>5, <2>1 DEF Timed, Lit
  <2>3. QED
    BY <1>8, <2>1, <2>2 DEF Knows, Looking
<1>11. QED
  BY <1>1, <1>4, <1>5, <1>6, <1>7, <1>8, <1>9, <1>10, InPlaceInv

(* The event follows the value, so what it wakes finds the value.           *)
LEMMA SetEventInv ==
  ASSUME SyncInv, NEW t \in Callers, SetEvent(t)
  PROVE  SyncInv'
<1> DEFINE g == Target(t)
<1>1. /\ pc[t] = "set" /\ objs' = [objs EXCEPT ![g] = [objs[g] EXCEPT !.event = TRUE]]
      /\ pc' = [u \in Callers |-> IF u = t THEN "put"
                                  ELSE IF u \in Satisfied(g) THEN "woken" ELSE pc[u]]
      /\ UNCHANGED <<count, op, held, err, doomed>>
  BY DEF SetEvent, call
<1>2. /\ op[t].name = "signal" /\ Single(t) /\ held[t] = Len(op[t].hs) /\ op[t].hs # <<>>
      /\ g \in DOMAIN objs /\ (~objs[g].timeline => objs[g].value = 1)
  <2>1. /\ op[t].name = "signal" /\ Single(t) /\ held[t] = Len(op[t].hs) /\ op[t].hs # <<>>
        /\ Timed(t) \/ Lit(t)
    BY <1>1 DEF SyncInv, Progress, Knows, Signalling, Inside
  <2>2. g \in DOMAIN objs
    BY <1>1, <2>1, HeldExist DEF Inside
  <2>3. QED
    BY <2>1, <2>2, OpFacts DEF Timed, Lit
<1>3. /\ objs' \in [DOMAIN objs -> Object] /\ objs'[g] = [objs[g] EXCEPT !.event = TRUE]
      /\ \A h \in DOMAIN objs \ {g} : objs'[h] = objs[h]
  <2>1. objs[g] \in Object /\ [objs[g] EXCEPT !.event = TRUE] \in Object
    BY <1>2, ObjFacts DEF Object
  <2>2. QED
    BY <1>1, <1>2, <2>1, TypeFacts
<1>4. /\ \A h \in DOMAIN objs :
            /\ objs'[h].state = objs[h].state /\ objs'[h].refs = objs[h].refs
            /\ objs'[h].timeline = objs[h].timeline /\ objs'[h].value = objs[h].value
            /\ h # g => objs'[h].event = objs[h].event
      /\ DOMAIN objs' = DOMAIN objs
  BY <1>2, <1>3, ObjFacts DEF Object
<1>5. Grows
  BY <1>4, ObjFacts DEF Grows
<1>6. Events'
  BY <1>2, <1>4 DEF SyncInv, Events
<1>7. pc' \in [Callers -> PcT]
  BY <1>1, TypeFacts DEF PcT
<1>8. ASSUME NEW u \in Callers
      PROVE  pc'[u] = pc[u] \/ (Progress(u)' /\ Knows(u)')
  <2>1. CASE u = t
    <3>1. pc'[t] = "put"
      BY <1>1
    <3>2. Single(t)'
      BY <1>1, <1>2 DEF Single
    <3>3. Progress(t)'
      BY <1>1, <1>2, <3>1, <3>2 DEF Progress, Inside, Signalling
    <3>4. Knows(t)'
      BY <1>1, <1>2, <3>1, <3>2 DEF Knows, Looking
    <3>5. QED
      BY <2>1, <3>3, <3>4
  <2>2. CASE u # t /\ pc[u] = "waiting" /\ g \in HandlesOf(u)
    <3>1. pc'[u] = "woken"
      BY <1>1, <2>2 DEF Satisfied
    <3>2. (Single(u)' <=> Single(u)) /\ HandlesOf(u)' = HandlesOf(u)
      BY <1>1 DEF Single, HandlesOf
    <3>3. Progress(u)'
      BY <1>1, <2>2, <3>1, <3>2 DEF SyncInv, Progress, Inside, Signalling
    <3>4. Timed(u)' \/ Lit(u)'
      <4>1. CASE Timed(u)
        BY <1>1, <1>5, <2>2, <4>1, SeenStays DEF Inside
      <4>2. CASE ~Timed(u)
        <5>1. ~objs[g].timeline
          BY <2>2, <4>2, HeldExist DEF Inside
        <5>2. QED
          BY <1>2, <1>4, <2>2, <3>2, <5>1 DEF Lit
      <4>3. QED
        BY <4>1, <4>2
    <3>5. ASSUME ~Single(u), NEW i \in 1..held[u]
          PROVE  ~objs'[op[u].hs[i]].timeline
      <4>1. op[u].hs[i] \in DOMAIN objs /\ ~objs[op[u].hs[i]].timeline
        BY <2>2, <3>5 DEF SyncInv, Knows, Keeps, Listed
      <4>2. QED
        BY <1>4, <4>1
    <3>6. Knows(u)'
      BY <1>1, <3>1, <3>2, <3>4, <3>5 DEF Knows, Looking
    <3>7. QED
      BY <3>3, <3>6
  <2>3. CASE u # t /\ ~(pc[u] = "waiting" /\ g \in HandlesOf(u))
    BY <1>1, <2>3 DEF Satisfied
  <2>4. QED
    BY <2>1, <2>2, <2>3
<1>9. QED
  BY <1>1, <1>3, <1>4, <1>5, <1>6, <1>7, <1>8, InPlaceInv

LEMMA ClearEventInv ==
  ASSUME SyncInv, NEW t \in Callers, ClearEvent(t)
  PROVE  SyncInv'
<1> DEFINE g == Target(t)
<1>1. /\ pc[t] = "clear" /\ objs' = [objs EXCEPT ![g] = [objs[g] EXCEPT !.event = FALSE]]
      /\ pc' = [pc EXCEPT ![t] = "recheck"]
      /\ UNCHANGED <<count, op, held, err, doomed>>
  BY DEF ClearEvent, Goto, call
<1>2. /\ Timed(t) /\ Single(t) /\ op[t].name # "signal" /\ g \in DOMAIN objs
      /\ held[t] = Len(op[t].hs) /\ op[t].hs # <<>>
  <2>1. /\ Timed(t) /\ Single(t) /\ op[t].name # "signal"
        /\ held[t] = Len(op[t].hs) /\ op[t].hs # <<>>
    BY <1>1 DEF SyncInv, Progress, Knows, Inside, Signalling, Looking, Timed
  <2>2. QED
    BY <1>1, <2>1, HeldExist DEF Inside
<1>3. /\ objs' \in [DOMAIN objs -> Object] /\ objs'[g] = [objs[g] EXCEPT !.event = FALSE]
      /\ \A h \in DOMAIN objs \ {g} : objs'[h] = objs[h]
  <2>1. objs[g] \in Object /\ [objs[g] EXCEPT !.event = FALSE] \in Object
    BY <1>2, ObjFacts DEF Object
  <2>2. QED
    BY <1>1, <1>2, <2>1, TypeFacts
<1>4. /\ \A h \in DOMAIN objs :
            /\ objs'[h].state = objs[h].state /\ objs'[h].refs = objs[h].refs
            /\ objs'[h].timeline = objs[h].timeline /\ objs'[h].value = objs[h].value
            /\ objs'[h].event => objs[h].event
      /\ DOMAIN objs' = DOMAIN objs
  BY <1>2, <1>3, ObjFacts DEF Object
<1>5. Grows
  BY <1>4, ObjFacts DEF Grows
<1>6. Events'
  BY <1>4 DEF SyncInv, Events
<1>7. /\ pc' \in [Callers -> PcT] /\ pc'[t] = "recheck"
      /\ \A u \in Callers \ {t} : pc'[u] = pc[u]
  BY <1>1, TypeFacts DEF PcT
<1>8. Timed(t)' /\ Single(t)'
  BY <1>1, <1>2, <1>4 DEF Timed, Single, Target
<1>9. Progress(t)'
  BY <1>1, <1>2, <1>7, <1>8 DEF Progress, Inside, Signalling
<1>10. Knows(t)'
  BY <1>7, <1>8 DEF Knows, Looking
<1>11. QED
  BY <1>1, <1>3, <1>4, <1>5, <1>6, <1>7, <1>9, <1>10, InPlaceInv

-----------------------------------------------------------------------------
(* The list.                                                                *)

LEMMA CreateInv ==
  ASSUME SyncInv, NEW t \in Callers, Create(t)
  PROVE  SyncInv'
<1>0. PICK n \in Nat : n = Len(objs) + 1
  BY TypeFacts
<1>1. /\ Len(objs) < MaxHandles /\ count' = count + 1
      /\ UNCHANGED <<pc, op, held, err, doomed>>
  BY DEF Create, call
<1>2. PICK o \in Object : /\ objs' = Append(objs, o) /\ o.state = "listed" /\ o.refs = 1
                          /\ o.event => o.value = 1
  <2>1. PICK timeline \in Timelines, initial \in BOOLEAN :
          objs' = Append(objs, [state |-> "listed", timeline |-> timeline,
                                value |-> IF initial THEN 1 ELSE 0, event |-> initial,
                                refs |-> 1, owner |-> t])
    BY DEF Create
  <2>2. timeline \in BOOLEAN /\ (IF initial THEN 1 ELSE 0) \in Points
    BY TypeFacts, SyncAssumption
  <2>3. [state |-> "listed", timeline |-> timeline, value |-> IF initial THEN 1 ELSE 0,
         event |-> initial, refs |-> 1, owner |-> t] \in Object
    BY <2>2 DEF Object
  <2>4. QED
    BY <2>1, <2>3
<1>3. /\ objs' \in Seq(Object) /\ Len(objs') = n /\ DOMAIN objs' = DOMAIN objs \cup {n}
      /\ n \notin DOMAIN objs /\ n \in Handle
      /\ objs'[n] = o /\ \A h \in DOMAIN objs : objs'[h] = objs[h]
  BY <1>0, <1>1, <1>2, TypeFacts DEF Handle
<1>4. Listed' = Listed \cup {n} /\ n \notin Listed
  BY <1>2, <1>3 DEF Listed
<1>5. Types'
  <2>1. Len(objs') <= MaxHandles /\ count' \in Int
    BY <1>0, <1>1, <1>3, TypeFacts
  <2>2. \A u \in Callers : doomed[u] \subseteq DOMAIN objs'
    BY <1>3 DEF SyncInv, Types
  <2>3. QED
    BY <1>1, <1>3, <2>1, <2>2 DEF SyncInv, Types, TypeOK
<1>6. FreedOnce'
  <2>1. Cardinality(Listed') = Cardinality(Listed) + 1
    BY <1>4, ListedFinite, FS_AddElement
  <2>2. \A u \in Callers : \A h \in doomed[u] : h \in DOMAIN objs
    BY DEF SyncInv, Types
  <2>3. QED
    BY <1>1, <1>3, <2>1, <2>2 DEF SyncInv, FreedOnce
<1>7. RefsBalanced'
  <2>1. \A h : RefsHeld(h)' = RefsHeld(h)
    BY <1>1 DEF RefsHeld
  <2>2. RefsHeld(n) = 0
    BY <1>4, NoneHeld
  <2>3. ASSUME NEW h \in Listed
        PROVE  objs'[h].refs = 1 + RefsHeld(h)'
    BY <1>3, <2>1 DEF SyncInv, RefsBalanced, Listed
  <2>4. objs'[n].refs = 1 + RefsHeld(n)'
    BY <1>2, <1>3, <2>1, <2>2
  <2>5. QED
    BY <1>4, <2>3, <2>4 DEF RefsBalanced
<1>8. Events'
  BY <1>2, <1>3 DEF SyncInv, Events
<1>9. Grows
  BY <1>3, ObjFacts DEF Grows
<1>10. \A u \in Callers : Progress(u)' /\ Keeps(u)' /\ Knows(u)'
  BY <1>1, <1>4, <1>9, OthersKnow
<1>11. QED
  BY <1>5, <1>6, <1>7, <1>8, <1>10 DEF SyncInv

(* What nobody uses leaves the list, for the caller that took it.           *)
LEMMA UnlinkInv ==
  ASSUME SyncInv, NEW t \in Callers, NEW hs \in SUBSET Listed, hs \cap Used = {},
         Unlink(t, hs), pc[t] = "idle", pc' = [pc EXCEPT ![t] = "free"], UNCHANGED call
  PROVE  SyncInv'
<1>1. /\ UNCHANGED <<op, held, err>> /\ count' = count - Cardinality(hs)
      /\ doomed' = [doomed EXCEPT ![t] = hs]
      /\ objs' = [h \in DOMAIN objs |-> IF h \in hs THEN [objs[h] EXCEPT !.state = "unlinked"]
                                                    ELSE objs[h]]
  BY DEF Unlink, call
<1>2. \A h \in DOMAIN objs :
        /\ objs'[h] \in Object
        /\ objs'[h].timeline = objs[h].timeline /\ objs'[h].value = objs[h].value
        /\ objs'[h].event = objs[h].event /\ objs'[h].refs = objs[h].refs
        /\ objs'[h].state = IF h \in hs THEN "unlinked" ELSE objs[h].state
  <2> TAKE h \in DOMAIN objs
  <2>1. objs[h] \in Object
    BY ObjFacts
  <2>2. objs'[h] = IF h \in hs THEN [objs[h] EXCEPT !.state = "unlinked"] ELSE objs[h]
    BY <1>1
  <2>3. QED
    BY <2>1, <2>2 DEF Object
<1>3. objs' \in Seq(Object) /\ Len(objs') = Len(objs) /\ DOMAIN objs' = DOMAIN objs
  <2>1. objs' \in [DOMAIN objs -> Object]
    BY <1>1, <1>2
  <2>2. QED
    BY <2>1, InPlace
<1>4. /\ hs \subseteq DOMAIN objs /\ IsFiniteSet(hs) /\ Cardinality(hs) \in Nat
      /\ \A h \in hs : objs[h].state = "listed"
  BY ListedFinite, FS_Subset, FS_CardinalityType DEF Listed
<1>5. Listed' = Listed \ hs
  BY <1>2, <1>3 DEF Listed
<1>6. /\ pc' \in [Callers -> PcT] /\ pc'[t] = "free" /\ doomed' \in [Callers -> SUBSET Handle]
      /\ doomed'[t] = hs
      /\ \A u \in Callers \ {t} : pc'[u] = pc[u] /\ doomed'[u] = doomed[u]
  BY <1>1, <1>4, TypeFacts DEF PcT
<1>7. Types'
  <2>1. \A u \in Callers : doomed'[u] \subseteq DOMAIN objs'
    BY <1>3, <1>4, <1>6 DEF SyncInv, Types
  <2>2. count' \in Int
    BY <1>1, <1>4, TypeFacts
  <2>3. QED
    BY <1>1, <1>3, <1>6, <2>1, <2>2 DEF SyncInv, Types, TypeOK, PcT
<1>8. FreedOnce'
  <2>1. count' = Cardinality(Listed')
    <3>1. Listed \cap hs = hs
      OBVIOUS
    <3>2. Cardinality(Listed \ hs) = Cardinality(Listed) - Cardinality(Listed \cap hs)
      BY ListedFinite, FS_Difference
    <3>3. QED
      BY <1>1, <1>5, <3>1, <3>2 DEF SyncInv, FreedOnce
  <2>2. \A u \in Callers : \A h \in doomed[u] :
          /\ h \in DOMAIN objs /\ objs[h].state = "unlinked" /\ h \notin hs
          /\ \A w \in Callers \ {u} : h \notin doomed[w]
    BY <1>4 DEF SyncInv, FreedOnce, Types
  <2>3. \A h \in hs : objs'[h].state = "unlinked"
    BY <1>2, <1>4
  <2>4. ASSUME NEW u \in Callers, NEW h \in doomed'[u]
        PROVE  /\ objs'[h].state = "unlinked"
               /\ \A w \in Callers \ {u} : h \notin doomed'[w]
    BY <1>2, <1>6, <2>2, <2>3, <2>4
  <2>5. QED
    BY <2>1, <2>4 DEF FreedOnce
<1>9. RefsBalanced' /\ Events'
  <2>1. \A h : RefsHeld(h)' = RefsHeld(h)
    BY <1>1 DEF RefsHeld
  <2>2. RefsBalanced'
    BY <1>2, <1>5, <2>1 DEF SyncInv, RefsBalanced, Listed
  <2>3. Events'
    BY <1>2, <1>3 DEF SyncInv, Events
  <2>4. QED
    BY <2>2, <2>3
<1>10. Grows
  BY <1>2, <1>3, ObjFacts DEF Grows
<1>11. \A u \in Callers, i \in Nat : i \in 1..held[u] => op[u].hs[i] \notin hs
  <2> SUFFICES ASSUME NEW u \in Callers, NEW i \in 1..held[u] PROVE op[u].hs[i] \in Used
    OBVIOUS
  <2>1. i \in DOMAIN op[u].hs
    BY OpFacts
  <2>2. QED
    BY <2>1 DEF Used, HandlesOf
<1>12. \A u \in Callers \ {t} : Progress(u)' /\ Keeps(u)' /\ Knows(u)'
  <2> TAKE u \in Callers \ {t}
  <2>1. \A h \in Listed : (\E i \in 1..held[u] : op[u].hs[i] = h) => h \in Listed'
    BY <1>5, <1>11
  <2>2. QED
    BY <1>1, <1>6, <1>10, <2>1, OthersKnow
<1>13. Progress(t)' /\ Keeps(t)' /\ Knows(t)'
  <2>1. held[t] = 0 /\ (op[t].name = "signal" => Single(t))
    BY DEF SyncInv, Progress
  <2>2. 1..held'[t] = {}
    BY <1>1, <2>1
  <2>3. Progress(t)'
    BY <1>1, <1>6, <2>1 DEF Progress, Inside, Signalling, Single
  <2>4. Keeps(t)' /\ Knows(t)'
    BY <1>1, <1>6, <2>2 DEF Keeps, Knows, Looking
  <2>5. QED
    BY <2>3, <2>4
<1>14. QED
  BY <1>7, <1>8, <1>9, <1>12, <1>13 DEF SyncInv

LEMMA DestroyInv ==
  ASSUME SyncInv, NEW t \in Callers, Destroy(t)
  PROVE  SyncInv'
<1>1. PICK h \in Listed \ Used : Unlink(t, {h})
  BY DEF Destroy
<1>2. /\ {h} \in SUBSET Listed /\ {h} \cap Used = {} /\ UNCHANGED call
      /\ pc[t] = "idle" /\ pc' = [pc EXCEPT ![t] = "free"]
  BY <1>1 DEF Destroy, Goto
<1>3. QED
  BY <1>1, <1>2, UnlinkInv

LEMMA RundownOwnerInv ==
  ASSUME SyncInv, NEW t \in Callers, RundownOwner(t)
  PROVE  SyncInv'
<1> DEFINE hs == {h \in Listed : objs[h].owner = t}
<1>1. /\ hs \in SUBSET Listed /\ hs \cap Used = {} /\ Unlink(t, hs) /\ UNCHANGED call
      /\ pc[t] = "idle" /\ pc' = [pc EXCEPT ![t] = "free"]
  BY DEF RundownOwner, Goto
<1> HIDE DEF hs
<1>2. QED
  BY <1>1, UnlinkInv

(* What one caller took off the list only that caller frees.                *)
LEMMA FreeInv ==
  ASSUME SyncInv, NEW t \in Callers, Free(t)
  PROVE  SyncInv'
<1>1. /\ pc[t] = "free" /\ pc' = [pc EXCEPT ![t] = "idle"] /\ doomed' = [doomed EXCEPT ![t] = {}]
      /\ UNCHANGED <<count, op, held, err>>
      /\ objs' = [h \in DOMAIN objs |-> IF h \in doomed[t]
                                        THEN [objs[h] EXCEPT !.state = "freed"] ELSE objs[h]]
  BY DEF Free, Goto, call
<1>2. \A h \in DOMAIN objs :
        /\ objs'[h] \in Object
        /\ objs'[h].timeline = objs[h].timeline /\ objs'[h].value = objs[h].value
        /\ objs'[h].event = objs[h].event /\ objs'[h].refs = objs[h].refs
        /\ objs'[h].state = IF h \in doomed[t] THEN "freed" ELSE objs[h].state
  <2> TAKE h \in DOMAIN objs
  <2>1. objs[h] \in Object
    BY ObjFacts
  <2>2. objs'[h] = IF h \in doomed[t] THEN [objs[h] EXCEPT !.state = "freed"] ELSE objs[h]
    BY <1>1
  <2>3. QED
    BY <2>1, <2>2 DEF Object
<1>3. objs' \in Seq(Object) /\ Len(objs') = Len(objs) /\ DOMAIN objs' = DOMAIN objs
  <2>1. objs' \in [DOMAIN objs -> Object]
    BY <1>1, <1>2
  <2>2. QED
    BY <2>1, InPlace
<1>4. \A u \in Callers : \A h \in doomed[u] :
        /\ h \in DOMAIN objs /\ objs[h].state = "unlinked"
        /\ \A w \in Callers \ {u} : h \notin doomed[w]
  BY DEF SyncInv, FreedOnce, Types
<1>5. Listed' = Listed
  BY <1>2, <1>3, <1>4 DEF Listed
<1>6. /\ pc' \in [Callers -> PcT] /\ pc'[t] = "idle" /\ doomed' \in [Callers -> SUBSET Handle]
      /\ doomed'[t] = {}
      /\ \A u \in Callers \ {t} : pc'[u] = pc[u] /\ doomed'[u] = doomed[u]
  BY <1>1, TypeFacts DEF PcT
<1>7. Types'
  BY <1>1, <1>3, <1>6 DEF SyncInv, Types, TypeOK, PcT
<1>8. FreedOnce'
  BY <1>1, <1>2, <1>4, <1>5, <1>6 DEF SyncInv, FreedOnce
<1>9. RefsBalanced' /\ Events'
  <2>1. \A h : RefsHeld(h)' = RefsHeld(h)
    BY <1>1 DEF RefsHeld
  <2>2. RefsBalanced'
    BY <1>2, <1>5, <2>1 DEF SyncInv, RefsBalanced, Listed
  <2>3. Events'
    BY <1>2, <1>3 DEF SyncInv, Events
  <2>4. QED
    BY <2>2, <2>3
<1>10. Grows
  BY <1>2, <1>3, ObjFacts DEF Grows
<1>11. \A u \in Callers \ {t} : Progress(u)' /\ Keeps(u)' /\ Knows(u)'
  BY <1>1, <1>5, <1>6, <1>10, OthersKnow
<1>12. Progress(t)' /\ Keeps(t)' /\ Knows(t)'
  <2>1. held[t] = 0 /\ (op[t].name = "signal" => Single(t))
    BY <1>1 DEF SyncInv, Progress
  <2>2. 1..held'[t] = {}
    BY <1>1, <2>1
  <2>3. Progress(t)'
    BY <1>1, <1>6, <2>1 DEF Progress, Inside, Signalling, Single
  <2>4. Keeps(t)' /\ Knows(t)'
    BY <1>1, <1>6, <2>2 DEF Keeps, Knows, Looking
  <2>5. QED
    BY <2>3, <2>4
<1>13. QED
  BY <1>7, <1>8, <1>9, <1>11, <1>12 DEF SyncInv

-----------------------------------------------------------------------------
(* The invariant, and what follows from it. *)

LEMMA InitInv ==
  ASSUME Init
  PROVE  SyncInv
<1>1. /\ objs = <<>> /\ DOMAIN objs = {} /\ Len(objs) = 0 /\ count = 0 /\ Listed = {}
      /\ \A t \in Callers : /\ pc[t] = "idle" /\ op[t] = Idle /\ held[t] = 0
                            /\ doomed[t] = {} /\ err[t] = "ok"
  BY DEF Init, Listed
<1>2. Idle \in Op /\ Idle.hs = <<>> /\ Idle.name = "none" /\ Len(Idle.hs) = 0 /\ Idle.point = 0
  BY SyncAssumption DEF Idle, Op, Points
<1>3. Types
  <2>1. objs \in Seq(Object) /\ Len(objs) <= MaxHandles /\ count \in Int
    BY <1>1, SyncAssumption
  <2>2. /\ op \in [Callers -> Op] /\ held \in [Callers -> Nat]
        /\ doomed \in [Callers -> SUBSET Handle] /\ pc \in [Callers -> PcT]
        /\ err \in [Callers -> ErrT]
    BY <1>2 DEF Init, PcT, ErrT
  <2>3. \A t \in Callers :
          /\ op[t].name \in {"none", "signal", "wait"} /\ op[t].point \in Points
          /\ \A i \in DOMAIN op[t].hs : op[t].hs[i] \in Handle
          /\ held[t] \in 0..Len(op[t].hs) /\ Len(op[t].hs) <= MaxCount
          /\ doomed[t] \subseteq DOMAIN objs
    BY <1>1, <1>2, SyncAssumption DEF Points
  <2>4. QED
    BY <2>1, <2>2, <2>3 DEF Types, TypeOK, PcT, ErrT
<1>4. RefsBalanced /\ FreedOnce /\ Events
  BY <1>1, FS_EmptySet DEF RefsBalanced, FreedOnce, Events
<1>5. \A t \in Callers : Progress(t) /\ Keeps(t) /\ Knows(t)
  BY <1>1, <1>2 DEF Progress, Keeps, Knows, Inside, Signalling, Looking, Single
<1>6. QED
  BY <1>3, <1>4, <1>5 DEF SyncInv

LEMMA StepInv ==
  ASSUME SyncInv, [Next]_vars
  PROVE  SyncInv'
<1>1. CASE \E t \in Callers : Create(t) \/ Destroy(t) \/ RundownOwner(t)
  BY <1>1, CreateInv, DestroyInv, RundownOwnerInv
<1>2. CASE \E t \in Callers : BeginSignal(t) \/ BeginWait(t)
  BY <1>2, BeginSignalInv, BeginWaitInv
<1>3. CASE \E t \in Callers : Proceed(t)
  BY <1>3, FreeInv, GetInv, SetValueInv, SetEventInv, CheckInv, ClearEventInv, RecheckInv,
     KeWaitInv, ExpireInv, WokenInv, PutInv DEF Proceed
<1>4. CASE UNCHANGED vars
  <2>1. UNCHANGED <<objs, count, pc, op, held, err, doomed>>
    BY <1>4 DEF vars, call
  <2>2. Types' /\ Events'
    BY <2>1 DEF SyncInv, Types, TypeOK, Events
  <2>3. Listed' = Listed /\ FreedOnce'
    BY <2>1, SameList
  <2>4. RefsBalanced'
    BY <2>1, <2>3 DEF SyncInv, RefsBalanced, RefsHeld
  <2>5. Grows
    BY <2>1, ObjFacts DEF Grows
  <2>6. \A t \in Callers : Progress(t)' /\ Keeps(t)' /\ Knows(t)'
    BY <2>1, <2>3, <2>5, OthersKnow
  <2>7. QED
    BY <2>2, <2>3, <2>4, <2>6 DEF SyncInv
<1>5. QED
  BY <1>1, <1>2, <1>3, <1>4 DEF Next, Finished

(* Objects, references and what callers have seen of them fit together.     *)
THEOREM SyncInvHolds == Spec => []SyncInv
<1>1. Init => SyncInv
  BY InitInv
<1>2. SyncInv /\ [Next]_vars => SyncInv'
  BY StepInv
<1>3. QED
  BY <1>1, <1>2, PTL DEF Spec

(* Every path through signal and wait drops exactly the references it took; *)
(* Count agrees with the list; an object taken off the list is freed by one *)
(* caller only (WinMaliSyncObjGet_, the loops of WinMaliSyncObjWait,        *)
(* TakeByHandle_ and the rundown of DestroyDevice).                         *)
THEOREM ObjectsCountedHolds == Spec => []ObjectsCounted
<1>1. SyncInv => ObjectsCounted
  BY DEF SyncInv, Types, ObjectsCounted
<1>2. QED
  BY <1>1, SyncInvHolds, PTL

(* A wait that returns success was satisfied: a timeline reached its point, *)
(* one of the objects was signalled otherwise (Sync.h 8-11).                *)
THEOREM OkMeansReachedHolds == Spec => []OkMeansReached
<1>1. SyncInv => OkMeansReached
  BY DEF SyncInv, Knows, Granted, Timed, Lit, OkMeansReached
<1>2. QED
  BY <1>1, SyncInvHolds, PTL
=============================================================================
