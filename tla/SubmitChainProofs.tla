-------------------------- MODULE SubmitChainProofs --------------------------
(***************************************************************************)
(* Proofs about SubmitChain: nothing is signalled without its work, and    *)
(* what a call reports is what it did; for every set of calls and sync     *)
(* objects and every list of queue submits with any operations.            *)
(***************************************************************************)
EXTENDS SubmitChain, TLAPS

Before == {"waits", "wait", "blocked", "resolve", "submit", "running"}
After  == {"signals", "next"}
PCs    == {"new", "done"} \cup Before \cup After
Errs   == {"OK", "ENOENT", "EINVAL", "EIO"}
Frame  == [pc: PCs, prog: Seq(Submits), q: Nat, k: Nat, err: Errs,
           ran: SUBSET Nat, lost: SUBSET Nat]

Types ==
    /\ sync \in [Syncs -> [listed: BOOLEAN, value: Nat]]
    /\ group \in [listed: BOOLEAN, vm: BOOLEAN, fatal: SUBSET Nat]
    /\ call \in [Calls -> Frame]
    /\ \A g \in given : g[1] \in Syncs /\ g[2] \in Nat /\ g[3] \in Calls \cup {NoCall}

\* The waits and the signals of submit q of a program, before operation n.
Met(p, q, n) ==
    \A k \in DOMAIN p[q].syncs : k < n /\ ~p[q].syncs[k].signal =>
        PointGiven(p[q].syncs[k].obj, p[q].syncs[k].point)
Told(c, p, q, n) ==
    \A k \in DOMAIN p[q].syncs : k < n /\ p[q].syncs[k].signal =>
        <<p[q].syncs[k].obj, p[q].syncs[k].point, c, q>> \in given
AllMet(p, q)     == Met(p, q, Len(p[q].syncs) + 1)
AllTold(c, p, q) == Told(c, p, q, Len(p[q].syncs) + 1)

\* Where a call is in its list, and what is behind it: the streams that ran,
\* the waits that were met, the signals that were given.
Streams(c) ==
    LET r == call[c] IN
    /\ r.pc = "new" => r = New
    /\ r.pc \in Before \cup After => r.q \in DOMAIN r.prog /\ r.err \in {"OK", "ENOENT"}
    /\ r.pc \in Before => r.ran = 1..(r.q - 1) /\ r.lost \subseteq 1..(r.q - 1)
    /\ r.pc \in After  => r.ran = 1..r.q /\ r.lost \subseteq 1..r.q
    /\ r.pc = "blocked" => r.k \in DOMAIN r.prog[r.q].syncs /\ ~r.prog[r.q].syncs[r.k].signal
    /\ r.pc \in {"wait", "blocked", "signals"} => r.k >= 1

Behind(c) ==
    LET r == call[c] IN
    /\ r.pc \in Before \cup After =>
         \A s \in 1..(r.q - 1) : AllMet(r.prog, s) /\ (s \notin r.lost => AllTold(c, r.prog, s))
    /\ r.pc \in {"wait", "blocked"} => Met(r.prog, r.q, r.k)
    /\ r.pc \in {"resolve", "submit", "running"} \cup After => AllMet(r.prog, r.q)
    /\ r.pc = "signals" => r.q \in r.lost \/ Told(c, r.prog, r.q, r.k)
    /\ r.pc = "next" => r.prog[r.q].syncs = <<>>

\* An error of a signal is kept until a later submit with operations.
Errors(c) ==
    LET r == call[c] IN
    /\ r.err = "OK" =>
         \A x \in r.lost : \E s \in DOMAIN r.prog : s > x /\ r.prog[s].syncs # <<>>
    /\ r.pc = "done" /\ r.err = "OK" =>
         r.ran = DOMAIN r.prog /\ \A s \in DOMAIN r.prog \ r.lost : AllTold(c, r.prog, s)
    /\ r.pc = "done" /\ r.err = "EIO" /\ group.listed => r.q \in group.fatal

\* What a sync object has reached was signalled, and every signal of a call
\* has the work of its submit, and of those before it, behind it.
Signals ==
    /\ \A o \in Syncs : sync[o].value > 0 => \E g \in given : g[1] = o /\ g[2] = sync[o].value
    /\ \A g \in given : g[3] # NoCall =>
         /\ g[4] \in DOMAIN call[g[3]].prog /\ 1..g[4] \subseteq call[g[3]].ran
         /\ \A r \in 1..g[4] : AllMet(call[g[3]].prog, r)

ChainInv ==
    /\ Types /\ Signals
    /\ \A c \in Calls : Streams(c) /\ Behind(c) /\ Errors(c)

-----------------------------------------------------------------------------
(* What a step of a call leaves in its record.                              *)
Others(c) == \A d \in Calls \ {c} : call'[d] = call[d]
Same(c)   == /\ call'[c].prog = call[c].prog /\ call'[c].q = call[c].q
             /\ call'[c].ran = call[c].ran /\ call'[c].lost = call[c].lost

LEMMA GotoFacts ==
  ASSUME Types, NEW c \in Calls, NEW p \in PCs, Goto(c, p)
  PROVE  /\ call' \in [Calls -> Frame] /\ Others(c) /\ Same(c)
         /\ call'[c].pc = p /\ call'[c].k = call[c].k /\ call'[c].err = call[c].err
  BY DEF Types, Frame, Goto, Others, Same

LEMMA ReturnFacts ==
  ASSUME Types, NEW c \in Calls, NEW e \in Errs, Return(c, e)
  PROVE  /\ call' \in [Calls -> Frame] /\ Others(c) /\ Same(c)
         /\ call'[c].pc = "done" /\ call'[c].err = e
<1>1. "done" \in PCs
  BY DEF PCs
<1>2. QED
  BY <1>1 DEF Types, Frame, Return, Others, Same

LEMMA NextOpFacts ==
  ASSUME Types, NEW c \in Calls, NEW p \in PCs, NextOp(c, p)
  PROVE  /\ call' \in [Calls -> Frame] /\ Others(c) /\ Same(c)
         /\ call'[c].pc = p /\ call'[c].k = call[c].k + 1 /\ call'[c].err = call[c].err
<1>1. call[c].k \in Nat /\ call[c].k + 1 \in Nat
  BY DEF Types, Frame
<1>2. QED
  BY <1>1 DEF Types, Frame, NextOp, Others, Same

(* The submit a call is at, and its operations.                             *)
LEMMA WorkFacts ==
  ASSUME ChainInv, NEW c \in Calls, call[c].pc \in Before \cup After
  PROVE  /\ call[c].q \in Nat /\ call[c].q >= 1 /\ call[c].q <= Len(call[c].prog)
         /\ DOMAIN call[c].prog = 1..Len(call[c].prog) /\ Len(call[c].prog) \in Nat
         /\ Ops(c) = call[c].prog[call[c].q].syncs
         /\ Ops(c) \in Seq(SyncOps)
         /\ Len(Ops(c)) \in Nat /\ DOMAIN Ops(c) = 1..Len(Ops(c))
         /\ call[c].err \in {"OK", "ENOENT"}
<1>1. /\ call[c].prog \in Seq(Submits) /\ call[c].q \in DOMAIN call[c].prog
      /\ call[c].err \in {"OK", "ENOENT"}
  BY DEF ChainInv, Types, Frame, Streams
<1>2. call[c].prog[call[c].q] \in Submits
  BY <1>1
<1>3. call[c].prog[call[c].q].syncs \in Seq(SyncOps)
  BY <1>2 DEF Submits
<1>4. Ops(c) = call[c].prog[call[c].q].syncs
  BY DEF Ops, Cur
<1>5. /\ call[c].q \in Nat /\ call[c].q >= 1 /\ call[c].q <= Len(call[c].prog)
      /\ DOMAIN call[c].prog = 1..Len(call[c].prog) /\ Len(call[c].prog) \in Nat
  BY <1>1
<1>6. Len(Ops(c)) \in Nat /\ DOMAIN Ops(c) = 1..Len(Ops(c))
  <2>1. Ops(c) \in Seq(SyncOps)
    BY <1>3, <1>4
  <2>2. QED
    BY <2>1
<1>7. QED
  BY <1>1, <1>3, <1>4, <1>5, <1>6

(* The waits and signals of a submit, once its operations are through.      *)
LEMMA ThroughFacts ==
  ASSUME NEW p, NEW q, NEW n, Len(p[q].syncs) \in Nat,
         DOMAIN p[q].syncs = 1..Len(p[q].syncs), n \in Nat, n > Len(p[q].syncs)
  PROVE  /\ Met(p, q, n) => AllMet(p, q)
         /\ \A c : Told(c, p, q, n) => AllTold(c, p, q)
  BY DEF Met, Told, AllMet, AllTold

LEMMA MetNext ==
  ASSUME NEW p, NEW q, NEW k \in Nat, DOMAIN p[q].syncs \subseteq Nat, Met(p, q, k),
         k \in DOMAIN p[q].syncs /\ ~p[q].syncs[k].signal =>
            PointGiven(p[q].syncs[k].obj, p[q].syncs[k].point)
  PROVE  Met(p, q, k + 1)
<1> SUFFICES ASSUME NEW j \in DOMAIN p[q].syncs, j < k + 1, ~p[q].syncs[j].signal
             PROVE  PointGiven(p[q].syncs[j].obj, p[q].syncs[j].point)
  BY DEF Met
<1>1. j < k \/ j = k
  OBVIOUS
<1>2. QED
  BY <1>1 DEF Met

LEMMA ToldNext ==
  ASSUME NEW c, NEW p, NEW q, NEW k \in Nat, DOMAIN p[q].syncs \subseteq Nat, Told(c, p, q, k),
         k \in DOMAIN p[q].syncs /\ p[q].syncs[k].signal =>
            <<p[q].syncs[k].obj, p[q].syncs[k].point, c, q>> \in given
  PROVE  Told(c, p, q, k + 1)
<1> SUFFICES ASSUME NEW j \in DOMAIN p[q].syncs, j < k + 1, p[q].syncs[j].signal
             PROVE  <<p[q].syncs[j].obj, p[q].syncs[j].point, c, q>> \in given
  BY DEF Told
<1>1. j < k \/ j = k
  OBVIOUS
<1>2. QED
  BY <1>1 DEF Told

(* What is given stays given.                                               *)
LEMMA KeepFacts ==
  ASSUME NEW d \in Calls, call'[d].prog = call[d].prog, given \subseteq given'
  PROVE  /\ \A s : AllMet(call[d].prog, s) => AllMet(call[d].prog, s)'
         /\ \A s, n : Met(call[d].prog, s, n) => Met(call[d].prog, s, n)'
         /\ \A s : AllTold(d, call[d].prog, s) => AllTold(d, call[d].prog, s)'
         /\ \A s, n : Told(d, call[d].prog, s, n) => Told(d, call[d].prog, s, n)'
<1>1. /\ \A s : AllMet(call[d].prog, s) => AllMet(call[d].prog, s)'
      /\ \A s, n : Met(call[d].prog, s, n) => Met(call[d].prog, s, n)'
  BY DEF AllMet, Met, PointGiven
<1>2. /\ \A s : AllTold(d, call[d].prog, s) => AllTold(d, call[d].prog, s)'
      /\ \A s, n : Told(d, call[d].prog, s, n) => Told(d, call[d].prog, s, n)'
  BY DEF AllTold, Told
<1>3. QED
  BY <1>1, <1>2

(* What is behind the other calls stays behind them.                        *)
LEMMA OthersKeep ==
  ASSUME ChainInv, NEW c, Others(c), given \subseteq given',
         group'.listed => group.listed, group.fatal \subseteq group'.fatal
  PROVE  \A d \in Calls \ {c} : (Streams(d) /\ Behind(d) /\ Errors(d))'
<1> SUFFICES ASSUME NEW d \in Calls \ {c}
             PROVE  (Streams(d) /\ Behind(d) /\ Errors(d))'
  OBVIOUS
<1>1. call'[d] = call[d] /\ Streams(d) /\ Behind(d) /\ Errors(d)
  BY DEF ChainInv, Others
<1>2. Streams(d)'
  BY <1>1 DEF Streams
<1>3. Behind(d)'
  BY <1>1, KeepFacts DEF Behind
<1>4. Errors(d)'
  BY <1>1, KeepFacts DEF Errors
<1>5. QED
  BY <1>2, <1>3, <1>4

(* The signals keep their work when calls only go on.                       *)
LEMMA SignalsKeep ==
  ASSUME ChainInv, given' = given, sync' = sync,
         \A d \in Calls :
            /\ call'[d].prog = call[d].prog \/ call[d].prog = <<>>
            /\ call[d].ran \subseteq call'[d].ran
  PROVE  Signals'
<1>1. \A o \in Syncs : sync'[o].value > 0 => \E g \in given' : g[1] = o /\ g[2] = sync'[o].value
  BY DEF ChainInv, Signals
<1>2. ASSUME NEW g \in given, g[3] # NoCall
      PROVE  /\ g[4] \in DOMAIN call'[g[3]].prog /\ 1..g[4] \subseteq call'[g[3]].ran
             /\ \A r \in 1..g[4] : AllMet(call[g[3]].prog, r)'
             /\ call'[g[3]].prog = call[g[3]].prog
  <2>1. /\ g[3] \in Calls /\ g[4] \in DOMAIN call[g[3]].prog
        /\ 1..g[4] \subseteq call[g[3]].ran
        /\ \A r \in 1..g[4] : AllMet(call[g[3]].prog, r)
    BY <1>2 DEF ChainInv, Types, Signals
  <2>2. call'[g[3]].prog = call[g[3]].prog
    BY <2>1
  <2>3. \A r \in 1..g[4] : AllMet(call[g[3]].prog, r)'
    BY <2>1, <2>2 DEF AllMet, Met, PointGiven
  <2>4. QED
    BY <2>1, <2>2, <2>3
<1>3. QED
  BY <1>1, <1>2 DEF Signals

(* A step of one call that signals nothing.                                 *)
LEMMA CallStep ==
  ASSUME ChainInv, NEW c \in Calls, Others(c), UNCHANGED <<sync, given>>,
         call' \in [Calls -> Frame],
         group' \in [listed: BOOLEAN, vm: BOOLEAN, fatal: SUBSET Nat],
         group'.listed => group.listed, group.fatal \subseteq group'.fatal,
         call'[c].prog = call[c].prog \/ call[c].prog = <<>>,
         call[c].ran \subseteq call'[c].ran,
         Streams(c)', Behind(c)', Errors(c)'
  PROVE  ChainInv'
<1>1. Types'
  BY DEF ChainInv, Types
<1>2. Signals'
  BY SignalsKeep DEF Others
<1>3. \A d \in Calls \ {c} : (Streams(d) /\ Behind(d) /\ Errors(d))'
  BY OthersKeep
<1>4. QED
  BY <1>1, <1>2, <1>3 DEF ChainInv

-----------------------------------------------------------------------------
(* The inductive invariant, action by action.                               *)

LEMMA GroupSubmitInv ==
  ASSUME ChainInv, NEW c \in Calls, GroupSubmit(c)
  PROVE  ChainInv'
<1>1. /\ call[c].pc = "new" /\ call[c].prog = <<>> /\ call[c].ran = {} /\ call[c].lost = {}
      /\ call[c].q = 1 /\ call[c].err = "OK" /\ UNCHANGED <<sync, group, lock, given>>
  BY DEF ChainInv, Streams, GroupSubmit, At, New
<1>2. group' \in [listed: BOOLEAN, vm: BOOLEAN, fatal: SUBSET Nat]
  BY <1>1 DEF ChainInv, Types
<1>3. CASE \E e \in {"OK", "ENOENT"} : Return(c, e)
  <2>1. PICK e \in {"OK", "ENOENT"} : Return(c, e)
    BY <1>3
  <2>2. /\ call' \in [Calls -> Frame] /\ Others(c) /\ Same(c)
        /\ call'[c].pc = "done" /\ call'[c].err = e
    BY <2>1, ReturnFacts DEF ChainInv, Errs
  <2>3. Streams(c)' /\ Behind(c)' /\ Errors(c)'
    BY <1>1, <2>2 DEF Same, Streams, Behind, Errors, Before, After
  <2>4. QED
    BY <1>1, <1>2, <2>2, <2>3, CallStep DEF Same
<1>4. CASE \E p \in Programs \ {<<>>} :
              call' = [call EXCEPT ![c].pc = "waits", ![c].prog = p]
  <2>1. PICK p \in Programs \ {<<>>} :
              call' = [call EXCEPT ![c].pc = "waits", ![c].prog = p]
    BY <1>4
  <2>2. p \in Seq(Submits) /\ "waits" \in PCs
    BY ChainAssumption DEF PCs, Before
  <2>3. /\ call' \in [Calls -> Frame] /\ Others(c)
        /\ call'[c].pc = "waits" /\ call'[c].prog = p /\ call'[c].q = call[c].q
        /\ call'[c].ran = {} /\ call'[c].lost = {} /\ call'[c].err = call[c].err
    BY <1>1, <2>1, <2>2 DEF ChainInv, Types, Frame, Others
  <2>4. 1 \in DOMAIN p
    BY <2>2
  <2>5. Streams(c)' /\ Behind(c)' /\ Errors(c)'
    BY <1>1, <2>3, <2>4 DEF Streams, Behind, Errors, Before, After
  <2>6. QED
    BY <1>1, <1>2, <2>3, <2>5, CallStep
<1>5. QED
  BY <1>3, <1>4 DEF GroupSubmit

LEMMA WaitsInv ==
  ASSUME ChainInv, NEW c \in Calls, Waits(c)
  PROVE  ChainInv'
<1>1. /\ call[c].pc = "waits" /\ call[c].pc \in Before /\ UNCHANGED <<sync, group, lock, given>>
      /\ group' \in [listed: BOOLEAN, vm: BOOLEAN, fatal: SUBSET Nat]
  BY DEF ChainInv, Types, Waits, At, Before
<1>2. PICK p \in {"resolve", "wait"}, e \in {call[c].err, "OK"} :
        /\ call' = [call EXCEPT ![c].k = 1, ![c].err = e, ![c].pc = p]
        /\ p = "resolve" <=> Ops(c) = <<>>
        /\ Ops(c) = <<>> => e = call[c].err
        /\ Ops(c) # <<>> => e = "OK"
  BY DEF Waits
<1>3. p \in PCs /\ p \in Before /\ e \in Errs /\ e \in {"OK", "ENOENT"}
  BY <1>1, WorkFacts DEF PCs, Before, Errs
<1>4. /\ call' \in [Calls -> Frame] /\ Others(c) /\ Same(c)
      /\ call'[c].pc = p /\ call'[c].err = e /\ call'[c].k = 1
  BY <1>2, <1>3 DEF ChainInv, Types, Frame, Others, Same
<1>5. Streams(c)'
  BY <1>1, <1>2, <1>3, <1>4 DEF ChainInv, Streams, Same, Before, After
<1>6. Behind(c)'
  <2>1. Ops(c) = <<>> => AllMet(call[c].prog, call[c].q)
    BY <1>1 DEF AllMet, Met, Ops, Cur
  <2>2. Met(call[c].prog, call[c].q, 1)
    BY <1>1, WorkFacts DEF Met
  <2>3. call'[c].prog = call[c].prog
    BY <1>4 DEF Same
  <2>4. QED
    BY <1>1, <1>2, <1>4, <2>1, <2>2, <2>3, KeepFacts DEF ChainInv, Behind, Same, Before, After
<1>7. Errors(c)'
  <2>1. call[c].q \in DOMAIN call[c].prog /\ \A x \in call[c].lost : call[c].q > x
    BY <1>1, WorkFacts DEF ChainInv, Streams
  <2>2. Ops(c) = call[c].prog[call[c].q].syncs
    BY DEF Ops, Cur
  <2>3. QED
    BY <1>2, <1>3, <1>4, <2>1, <2>2 DEF ChainInv, Errors, Same
<1>8. QED
  BY <1>1, <1>4, <1>5, <1>6, <1>7, CallStep DEF Same

(* A call returns from a step that is not the end of its list.              *)
LEMMA ReturnInv ==
  ASSUME ChainInv, NEW c \in Calls, NEW e \in {"ENOENT", "EINVAL", "EIO"}, Return(c, e),
         UNCHANGED <<sync, given>>,
         group' \in [listed: BOOLEAN, vm: BOOLEAN, fatal: SUBSET Nat],
         group'.listed => group.listed, group.fatal \subseteq group'.fatal,
         e = "EIO" /\ group'.listed => call[c].q \in group'.fatal
  PROVE  ChainInv'
<1>1. /\ call' \in [Calls -> Frame] /\ Others(c) /\ Same(c)
      /\ call'[c].pc = "done" /\ call'[c].err = e
  BY ReturnFacts DEF ChainInv, Errs
<1>2. Streams(c)' /\ Behind(c)' /\ Errors(c)'
  BY <1>1 DEF Same, Streams, Behind, Errors, Before, After
<1>3. QED
  BY <1>1, <1>2, CallStep DEF Same

(* A call goes on before its stream, at the same submit.                    *)
LEMMA GoInv ==
  ASSUME ChainInv, NEW c \in Calls, NEW p \in Before, NEW k \in Nat,
         call[c].pc \in Before, Others(c), Same(c), call' \in [Calls -> Frame],
         call'[c].pc = p, call'[c].k = k, call'[c].err = call[c].err,
         UNCHANGED <<sync, group, given>>,
         p \in {"wait", "blocked"} => k >= 1 /\ Met(call[c].prog, call[c].q, k),
         p = "blocked" => k \in DOMAIN Ops(c) /\ ~Op(c).signal /\ k = call[c].k,
         p \in {"resolve", "submit", "running"} => AllMet(call[c].prog, call[c].q)
  PROVE  ChainInv'
<1>1. Ops(c) = call[c].prog[call[c].q].syncs /\ Op(c) = Ops(c)[call[c].k]
  BY DEF Ops, Op, Cur
<1>2. Streams(c)'
  BY <1>1 DEF ChainInv, Streams, Same, Before, After
<1>3. Behind(c)'
  <2>1. call'[c].prog = call[c].prog
    BY DEF Same
  <2>2. QED
    BY <2>1, KeepFacts DEF ChainInv, Behind, Same, Before, After
<1>4. Errors(c)'
  BY DEF ChainInv, Errors, Same, Before
<1>5. group' \in [listed: BOOLEAN, vm: BOOLEAN, fatal: SUBSET Nat]
  BY DEF ChainInv, Types
<1>6. QED
  BY <1>2, <1>3, <1>4, <1>5, CallStep DEF Same

LEMMA WaitOpInv ==
  ASSUME ChainInv, NEW c \in Calls, WaitOp(c)
  PROVE  ChainInv'
<1>1. /\ call[c].pc = "wait" /\ call[c].pc \in Before /\ UNCHANGED <<sync, group, lock, given>>
      /\ call[c].k \in Nat /\ call[c].k >= 1 /\ Met(call[c].prog, call[c].q, call[c].k)
  BY DEF ChainInv, Types, Frame, Streams, Behind, WaitOp, At, Before
<1>2. /\ "resolve" \in PCs /\ "wait" \in PCs /\ "blocked" \in PCs
      /\ "resolve" \in Before /\ "wait" \in Before /\ "blocked" \in Before
  BY DEF PCs, Before
<1>3. CASE call[c].k > Len(Ops(c)) /\ Goto(c, "resolve")
  <2>1. AllMet(call[c].prog, call[c].q)
    BY <1>1, <1>3, WorkFacts, ThroughFacts
  <2>2. QED
    BY <1>1, <1>2, <1>3, <2>1, GotoFacts, GoInv DEF ChainInv
<1>4. CASE call[c].k <= Len(Ops(c)) /\ Op(c).signal /\ NextOp(c, "wait")
  <2>1. Met(call[c].prog, call[c].q, call[c].k + 1)
    BY <1>1, <1>4, WorkFacts, MetNext DEF Op
  <2>2. call[c].k + 1 \in Nat /\ call[c].k + 1 >= 1
    BY <1>1
  <2>3. QED
    BY <1>1, <1>2, <1>4, <2>1, <2>2, NextOpFacts, GoInv DEF ChainInv
<1>5. CASE Return(c, "ENOENT")
  BY <1>1, <1>5, ReturnInv DEF ChainInv, Types
<1>6. CASE call[c].k <= Len(Ops(c)) /\ ~Op(c).signal /\ Goto(c, "blocked")
  <2>1. call[c].k \in DOMAIN Ops(c)
    BY <1>1, <1>6, WorkFacts
  <2>2. QED
    BY <1>1, <1>2, <1>6, <2>1, GotoFacts, GoInv DEF ChainInv
<1>7. ~(call[c].k > Len(Ops(c))) => call[c].k <= Len(Ops(c))
  BY <1>1, WorkFacts
<1>8. QED
  BY <1>3, <1>4, <1>5, <1>6, <1>7 DEF WaitOp

LEMMA WaitDoneInv ==
  ASSUME ChainInv, NEW c \in Calls, WaitDone(c)
  PROVE  ChainInv'
<1>1. /\ call[c].pc = "blocked" /\ call[c].pc \in Before /\ UNCHANGED <<sync, group, lock, given>>
      /\ NextOp(c, "wait") /\ Reached(c)
  BY DEF WaitDone, At, Before
<1>2. /\ call[c].k \in Nat /\ call[c].k >= 1 /\ Met(call[c].prog, call[c].q, call[c].k)
      /\ call[c].k \in DOMAIN Ops(c) /\ ~Op(c).signal
  BY <1>1 DEF ChainInv, Types, Frame, Streams, Behind, Ops, Op, Cur
<1>3. Op(c).obj \in Syncs /\ Op(c).point \in Nat
  <2>1. Op(c) \in SyncOps
    BY <1>1, <1>2, WorkFacts DEF Op
  <2>2. QED
    BY <2>1 DEF SyncOps
<1>4. PointGiven(Op(c).obj, Op(c).point)
  <2>1. sync[Op(c).obj].value \in Nat /\ sync[Op(c).obj].value >= Op(c).point
    BY <1>1, <1>3 DEF ChainInv, Types, Reached
  <2>2. CASE Op(c).point = 0
    BY <2>2 DEF PointGiven
  <2>3. CASE Op(c).point # 0
    <3>1. sync[Op(c).obj].value > 0
      BY <1>3, <2>1, <2>3
    <3>2. PICK g \in given : g[1] = Op(c).obj /\ g[2] = sync[Op(c).obj].value
      BY <1>3, <3>1 DEF ChainInv, Signals
    <3>3. QED
      BY <2>1, <3>2 DEF PointGiven
  <2>4. QED
    BY <2>2, <2>3
<1>5. Met(call[c].prog, call[c].q, call[c].k + 1)
  BY <1>1, <1>2, <1>4, WorkFacts, MetNext DEF Op
<1>6. "wait" \in PCs /\ "wait" \in Before /\ call[c].k + 1 \in Nat /\ call[c].k + 1 >= 1
  BY <1>2 DEF PCs, Before
<1>7. QED
  BY <1>1, <1>5, <1>6, NextOpFacts, GoInv DEF ChainInv

LEMMA ResolveInv ==
  ASSUME ChainInv, NEW c \in Calls, Resolve(c)
  PROVE  ChainInv'
<1>1. /\ call[c].pc = "resolve" /\ call[c].pc \in Before /\ UNCHANGED <<sync, group, lock, given>>
      /\ AllMet(call[c].prog, call[c].q) /\ call[c].k \in Nat
  BY DEF ChainInv, Types, Frame, Behind, Resolve, At, Before
<1>2. "submit" \in PCs /\ "submit" \in Before
  BY DEF PCs, Before
<1>3. CASE Goto(c, "submit")
  BY <1>1, <1>2, <1>3, GotoFacts, GoInv DEF ChainInv
<1>4. CASE Return(c, "EINVAL")
  BY <1>1, <1>4, ReturnInv DEF ChainInv, Types
<1>5. QED
  BY <1>3, <1>4 DEF Resolve

LEMMA SubmitInv ==
  ASSUME ChainInv, NEW c \in Calls, Submit(c)
  PROVE  ChainInv'
<1>1. /\ call[c].pc = "submit" /\ call[c].pc \in Before /\ UNCHANGED <<sync, group, given>>
      /\ AllMet(call[c].prog, call[c].q) /\ call[c].k \in Nat /\ Goto(c, "running")
  BY DEF ChainInv, Types, Frame, Behind, Submit, At, Before
<1>2. "running" \in PCs /\ "running" \in Before
  BY DEF PCs, Before
<1>3. QED
  BY <1>1, <1>2, GotoFacts, GoInv DEF ChainInv

LEMMA StreamRanInv ==
  ASSUME ChainInv, NEW c \in Calls, StreamRan(c)
  PROVE  ChainInv'
<1>1. /\ call[c].pc = "running" /\ call[c].pc \in Before /\ UNCHANGED <<sync, group, given>>
      /\ AllMet(call[c].prog, call[c].q) /\ call[c].ran = 1..(call[c].q - 1)
      /\ call[c].lost \subseteq 1..(call[c].q - 1)
  BY DEF ChainInv, Streams, Behind, StreamRan, At, Before
<1>2. PICK p \in {"next", "signals"} :
        /\ call' = [call EXCEPT ![c].pc = p, ![c].k = 1, ![c].ran = @ \cup {call[c].q}]
        /\ p = "next" => Ops(c) = <<>>
  BY DEF StreamRan
<1>3. p \in PCs /\ p \in After /\ p \notin Before /\ call[c].q \in Nat /\ call[c].q >= 1
  BY <1>1, WorkFacts DEF PCs, Before, After
<1>4. /\ call' \in [Calls -> Frame] /\ Others(c) /\ call'[c].prog = call[c].prog
      /\ call'[c].q = call[c].q /\ call'[c].lost = call[c].lost
      /\ call'[c].ran = call[c].ran \cup {call[c].q}
      /\ call'[c].pc = p /\ call'[c].k = 1 /\ call'[c].err = call[c].err
  BY <1>2, <1>3 DEF ChainInv, Types, Frame, Others
<1>5. Streams(c)'
  <2>1. call[c].ran \cup {call[c].q} = 1..call[c].q /\ call[c].lost \subseteq 1..call[c].q
    BY <1>1, <1>3
  <2>2. QED
    BY <1>1, <1>2, <1>3, <1>4, <2>1 DEF ChainInv, Streams, Before, After
<1>6. Behind(c)'
  <2>1. Told(c, call[c].prog, call[c].q, 1)
    BY <1>1, WorkFacts DEF Told
  <2>2. Ops(c) = call[c].prog[call[c].q].syncs
    BY DEF Ops, Cur
  <2>3. QED
    BY <1>1, <1>2, <1>3, <1>4, <2>1, <2>2, KeepFacts DEF ChainInv, Behind, Before, After
<1>7. Errors(c)'
  BY <1>2, <1>4 DEF ChainInv, Errors
<1>8. group' \in [listed: BOOLEAN, vm: BOOLEAN, fatal: SUBSET Nat]
  BY <1>1 DEF ChainInv, Types
<1>9. QED
  BY <1>1, <1>4, <1>5, <1>6, <1>7, <1>8, CallStep

LEMMA StreamFailedInv ==
  ASSUME ChainInv, NEW c \in Calls, StreamFailed(c)
  PROVE  ChainInv'
<1>1. /\ call[c].pc \in Before /\ UNCHANGED <<sync, given>> /\ Return(c, "EIO")
      /\ group \in [listed: BOOLEAN, vm: BOOLEAN, fatal: SUBSET Nat]
  BY DEF ChainInv, Types, StreamFailed, At, Before
<1>2. call[c].q \in Nat
  BY <1>1, WorkFacts
<1>3. CASE group.listed /\ group' = [group EXCEPT !.fatal = @ \cup {call[c].q}]
  <2>1. /\ group' \in [listed: BOOLEAN, vm: BOOLEAN, fatal: SUBSET Nat]
        /\ group'.listed => group.listed
        /\ group.fatal \subseteq group'.fatal /\ call[c].q \in group'.fatal
    BY <1>1, <1>2, <1>3
  <2>2. QED
    BY <1>1, <2>1, ReturnInv
<1>4. CASE ~group.listed /\ group' = group
  BY <1>1, <1>4, ReturnInv
<1>5. QED
  BY <1>3, <1>4 DEF StreamFailed

(* A signal raises its object to the point, or leaves it where it is.       *)
LEMMA RaiseFacts ==
  ASSUME ChainInv, NEW o \in Syncs, NEW p \in Nat, Raise(o, p), given \subseteq given',
         \E g \in given' : g[1] = o /\ g[2] = p
  PROVE  /\ sync' \in [Syncs -> [listed: BOOLEAN, value: Nat]]
         /\ \A x \in Syncs : sync'[x].value > 0 =>
              \E g \in given' : g[1] = x /\ g[2] = sync'[x].value
<1>1. /\ sync' \in [Syncs -> [listed: BOOLEAN, value: Nat]]
      /\ sync'[o].value \in {p, sync[o].value}
      /\ \A x \in Syncs \ {o} : sync'[x] = sync[x]
  BY DEF ChainInv, Types, Raise
<1>2. \A x \in Syncs : sync[x].value > 0 =>
         \E g \in given' : g[1] = x /\ g[2] = sync[x].value
  BY DEF ChainInv, Signals
<1>3. QED
  BY <1>1, <1>2

LEMMA SignalOpInv ==
  ASSUME ChainInv, NEW c \in Calls, SignalOp(c)
  PROVE  ChainInv'
<1>1. /\ call[c].pc = "signals" /\ call[c].pc \in After /\ call[c].pc \notin Before
      /\ UNCHANGED group
      /\ call[c].k \in Nat /\ call[c].k >= 1 /\ call[c].k <= Len(Ops(c))
      /\ call[c].ran = 1..call[c].q /\ call[c].lost \subseteq 1..call[c].q
  BY DEF ChainInv, Types, Frame, Streams, SignalOp, At, Before, After
<1>2. /\ call[c].k \in DOMAIN Ops(c) /\ Op(c) \in SyncOps
      /\ Ops(c) = call[c].prog[call[c].q].syncs /\ Op(c) = Ops(c)[call[c].k]
  BY <1>1, WorkFacts DEF Op
<1>3. Op(c).obj \in Syncs /\ Op(c).point \in Nat /\ Op(c).signal \in BOOLEAN
  BY <1>2 DEF SyncOps
<1>4. call[c].k + 1 \in Nat /\ call[c].k + 1 >= 1 /\ "signals" \in PCs
  BY <1>1 DEF PCs, After
<1>5. group' \in [listed: BOOLEAN, vm: BOOLEAN, fatal: SUBSET Nat]
  BY <1>1 DEF ChainInv, Types
<1>6. ASSUME call' \in [Calls -> Frame], Same(c), call'[c].pc = "signals",
             call'[c].k = call[c].k + 1, call'[c].err = call[c].err, given \subseteq given',
             Op(c).signal => <<Op(c).obj, Op(c).point, c, call[c].q>> \in given'
      PROVE  (Streams(c) /\ Behind(c) /\ Errors(c))'
  <2>1. Streams(c)'
    BY <1>1, <1>4, <1>6 DEF ChainInv, Streams, Same, After, Before
  <2>2. Behind(c)'
    <3>1. call'[c].prog = call[c].prog /\ call'[c].q = call[c].q /\ call'[c].lost = call[c].lost
      BY <1>6 DEF Same
    <3>2. PICK p \in Seq(Submits), q \in Nat, k \in Nat :
             p = call[c].prog /\ q = call[c].q /\ k = call[c].k
      BY <1>1, WorkFacts DEF ChainInv, Types, Frame
    <3>3. p = call'[c].prog /\ q = call'[c].q /\ k + 1 = call'[c].k /\ Op(c) = p[q].syncs[k]
      BY <1>2, <1>6, <3>1, <3>2
    <3>4. ASSUME q \notin call[c].lost
          PROVE  Told(c, p, q, k + 1)'
      <4>1. Told(c, p, q, k)
        BY <1>1, <3>2, <3>4 DEF ChainInv, Behind
      <4>2. SUFFICES ASSUME NEW j \in DOMAIN p[q].syncs, j < k + 1, p[q].syncs[j].signal
                     PROVE  <<p[q].syncs[j].obj, p[q].syncs[j].point, c, q>> \in given'
        BY DEF Told
      <4>3. CASE j < k
        BY <1>6, <4>1, <4>2, <4>3 DEF Told
      <4>4. CASE j = k
        BY <1>6, <3>2, <3>3, <4>2, <4>4
      <4>5. j \in Nat
        <5>1. DOMAIN p[q].syncs = 1..Len(Ops(c)) /\ Len(Ops(c)) \in Nat
          BY <1>1, <3>2, WorkFacts
        <5>2. QED
          BY <4>2, <5>1
      <4>6. QED
        BY <4>2, <4>3, <4>4, <4>5
    <3>5. call[c].q \in call[c].lost \/ Told(c, call[c].prog, call[c].q, call[c].k)'
      BY <3>2, <3>3, <3>4
    <3>6. QED
      BY <1>1, <1>6, <3>1, <3>5, KeepFacts DEF ChainInv, Behind, After, Before
  <2>3. Errors(c)'
    BY <1>6 DEF ChainInv, Errors, Same
  <2>4. QED
    BY <2>1, <2>2, <2>3
<1>7. CASE ~Op(c).signal /\ NextOp(c, "signals") /\ UNCHANGED <<sync, given>>
  <2>1. /\ call' \in [Calls -> Frame] /\ Others(c) /\ Same(c)
        /\ call'[c].pc = "signals" /\ call'[c].k = call[c].k + 1 /\ call'[c].err = call[c].err
    BY <1>4, <1>7, NextOpFacts DEF ChainInv
  <2>2. (Streams(c) /\ Behind(c) /\ Errors(c))'
    BY <1>6, <1>7, <2>1
  <2>3. QED
    BY <1>1, <1>5, <1>7, <2>1, <2>2, CallStep DEF Same
<1>8. CASE /\ Op(c).signal /\ Raise(Op(c).obj, Op(c).point) /\ NextOp(c, "signals")
           /\ given' = given \cup {<<Op(c).obj, Op(c).point, c, call[c].q>>}
  <2>1. /\ call' \in [Calls -> Frame] /\ Others(c) /\ Same(c)
        /\ call'[c].pc = "signals" /\ call'[c].k = call[c].k + 1 /\ call'[c].err = call[c].err
    BY <1>4, <1>8, NextOpFacts DEF ChainInv
  <2>2. (Streams(c) /\ Behind(c) /\ Errors(c))'
    BY <1>6, <1>8, <2>1
  <2>3. \A d \in Calls \ {c} : (Streams(d) /\ Behind(d) /\ Errors(d))'
    BY <1>1, <1>8, <2>1, OthersKeep
  <2>4. PICK o \in Syncs, p \in Nat, q \in Nat :
          /\ o = Op(c).obj /\ p = Op(c).point /\ q = call[c].q
          /\ given' = given \cup {<<o, p, c, q>>} /\ Raise(o, p)
    BY <1>1, <1>3, <1>8, WorkFacts
  <2>5. /\ sync' \in [Syncs -> [listed: BOOLEAN, value: Nat]]
        /\ \A x \in Syncs : sync'[x].value > 0 =>
             \E g \in given' : g[1] = x /\ g[2] = sync'[x].value
    BY <2>4, RaiseFacts
  <2>6. Types'
    BY <1>5, <2>1, <2>4, <2>5 DEF ChainInv, Types
  <2>7. ASSUME NEW g \in given', g[3] # NoCall
        PROVE  /\ g[4] \in DOMAIN call'[g[3]].prog /\ 1..g[4] \subseteq call'[g[3]].ran
               /\ \A r \in 1..g[4] : AllMet(call[g[3]].prog, r)'
    <3>1. CASE g \in given
      <4>1. /\ g[3] \in Calls /\ g[4] \in DOMAIN call[g[3]].prog
            /\ 1..g[4] \subseteq call[g[3]].ran
            /\ \A r \in 1..g[4] : AllMet(call[g[3]].prog, r)
        BY <2>7, <3>1 DEF ChainInv, Types, Signals
      <4>2. call'[g[3]].prog = call[g[3]].prog /\ call'[g[3]].ran = call[g[3]].ran
        BY <2>1, <4>1 DEF Others, Same
      <4>3. \A r \in 1..g[4] : AllMet(call[g[3]].prog, r)'
        BY <2>4, <4>1, <4>2 DEF AllMet, Met, PointGiven
      <4>4. QED
        BY <4>1, <4>2, <4>3
    <3>2. CASE g = <<o, p, c, q>>
      <4>1. g[3] = c /\ g[4] = q
        BY <3>2
      <4>2. /\ q \in DOMAIN call[c].prog /\ 1..q \subseteq call[c].ran
            /\ \A r \in 1..q : AllMet(call[c].prog, r)
        <5>1. \A r \in 1..q : r \in 1..(q - 1) \/ r = q
          BY <2>4
        <5>2. QED
          BY <1>1, <2>4, <5>1 DEF ChainInv, Streams, Behind
      <4>3. call'[c].prog = call[c].prog /\ call'[c].ran = call[c].ran
        BY <2>1 DEF Same
      <4>4. \A r \in 1..q : AllMet(call[c].prog, r)'
        BY <2>4, <4>2, <4>3, KeepFacts
      <4>5. QED
        BY <4>1, <4>2, <4>3, <4>4
    <3>3. QED
      BY <2>4, <3>1, <3>2
  <2>8. Signals'
    BY <2>5, <2>7 DEF Signals
  <2>9. QED
    BY <2>2, <2>3, <2>6, <2>8 DEF ChainInv
<1>9. CASE /\ Op(c).signal /\ UNCHANGED <<sync, given>>
           /\ call' = [call EXCEPT ![c].k = @ + 1, ![c].lost = @ \cup {call[c].q},
                                   ![c].err = IF @ = "OK" THEN "ENOENT" ELSE @]
  <2>1. PICK e \in {"ENOENT"} \cup {call[c].err} : e = IF call[c].err = "OK" THEN "ENOENT" ELSE call[c].err
    OBVIOUS
  <2>2. e \in Errs /\ e \in {"OK", "ENOENT"} /\ e # "OK" /\ call[c].q \in Nat
    BY <1>1, <2>1, WorkFacts DEF Errs
  <2>3. call' = [call EXCEPT ![c].k = call[c].k + 1, ![c].lost = call[c].lost \cup {call[c].q},
                             ![c].err = e]
    BY <1>9, <2>1 DEF ChainInv, Types
  <2>4. /\ call' \in [Calls -> Frame] /\ Others(c)
        /\ call'[c].prog = call[c].prog /\ call'[c].q = call[c].q /\ call'[c].ran = call[c].ran
        /\ call'[c].lost = call[c].lost \cup {call[c].q}
        /\ call'[c].pc = call[c].pc /\ call'[c].err = e /\ call'[c].k = call[c].k + 1
    BY <1>4, <2>2, <2>3 DEF ChainInv, Types, Frame, Others
  <2>5. Streams(c)'
    <3>1. call'[c].lost \subseteq 1..call[c].q
      BY <1>1, <2>2, <2>4, WorkFacts
    <3>2. QED
      BY <1>1, <1>4, <2>2, <2>4, <3>1 DEF ChainInv, Streams, After, Before
  <2>6. Behind(c)'
    BY <1>1, <1>9, <2>4, KeepFacts DEF ChainInv, Behind, After, Before
  <2>7. Errors(c)'
    BY <1>1, <2>2, <2>4 DEF Errors
  <2>8. QED
    BY <1>1, <1>5, <1>9, <2>4, <2>5, <2>6, <2>7, CallStep
<1>10. QED
  BY <1>3, <1>7, <1>8, <1>9 DEF SignalOp

LEMMA NextSubmitInv ==
  ASSUME ChainInv, NEW c \in Calls, NextSubmit(c)
  PROVE  ChainInv'
<1>1. /\ call[c].pc \in After /\ UNCHANGED <<sync, group, given>>
      /\ call[c].ran = 1..call[c].q /\ call[c].lost \subseteq 1..call[c].q
      /\ AllMet(call[c].prog, call[c].q)
      /\ group' \in [listed: BOOLEAN, vm: BOOLEAN, fatal: SUBSET Nat]
  BY DEF ChainInv, Types, Streams, Behind, NextSubmit, At, After
<1>2. call[c].q \in call[c].lost \/ AllTold(c, call[c].prog, call[c].q)
  <2>1. CASE call[c].pc = "next"
    BY <2>1 DEF ChainInv, Behind, AllTold, Told, After
  <2>2. CASE call[c].pc = "signals" /\ call[c].k > Len(Ops(c))
    <3>1. call[c].k \in Nat
      BY DEF ChainInv, Types, Frame
    <3>2. QED
      BY <1>1, <2>2, <3>1, WorkFacts, ThroughFacts DEF ChainInv, Behind
  <2>3. QED
    BY <2>1, <2>2 DEF NextSubmit, At
<1>3. \A s \in 1..call[c].q : /\ AllMet(call[c].prog, s)
                              /\ s \notin call[c].lost => AllTold(c, call[c].prog, s)
  <2>1. \A s \in 1..call[c].q : s = call[c].q \/ s \in 1..(call[c].q - 1)
    BY <1>1, WorkFacts
  <2>2. QED
    BY <1>1, <1>2, <2>1 DEF ChainInv, Behind
<1>4. CASE call[c].q = Len(call[c].prog) /\ Return(c, call[c].err)
  <2>1. PICK e \in {"OK", "ENOENT"} : e = call[c].err
    BY <1>1, WorkFacts
  <2>2. /\ call' \in [Calls -> Frame] /\ Others(c) /\ Same(c)
        /\ call'[c].pc = "done" /\ call'[c].err = e
    BY <1>4, <2>1, ReturnFacts DEF ChainInv, Errs
  <2>3. DOMAIN call[c].prog = 1..call[c].q
    BY <1>1, <1>4, WorkFacts
  <2>4. call'[c].prog = call[c].prog
    BY <2>2 DEF Same
  <2>5. Streams(c)' /\ Behind(c)'
    BY <2>2 DEF Streams, Behind, Before, After
  <2>6. Errors(c)'
    <3>1. e = "OK" => \A x \in call[c].lost :
             \E s \in DOMAIN call[c].prog : s > x /\ call[c].prog[s].syncs # <<>>
      BY <2>1 DEF ChainInv, Errors
    <3>2. \A s \in DOMAIN call[c].prog \ call[c].lost : AllTold(c, call[c].prog, s)'
      BY <1>1, <1>3, <2>3, <2>4, KeepFacts
    <3>3. QED
      BY <1>1, <2>2, <2>3, <2>4, <3>1, <3>2 DEF Errors, Same
  <2>7. QED
    BY <1>1, <2>2, <2>5, <2>6, CallStep DEF Same
<1>5. CASE /\ call[c].q # Len(call[c].prog)
           /\ call' = [call EXCEPT ![c].pc = "waits", ![c].q = @ + 1]
  <2>1. /\ "waits" \in PCs /\ call[c].q + 1 \in Nat /\ call[c].q + 1 \in DOMAIN call[c].prog
        /\ (call[c].q + 1) - 1 = call[c].q
    BY <1>1, <1>5, WorkFacts DEF PCs, Before
  <2>2. /\ call' \in [Calls -> Frame] /\ Others(c) /\ call'[c].prog = call[c].prog
        /\ call'[c].q = call[c].q + 1 /\ call'[c].ran = call[c].ran
        /\ call'[c].lost = call[c].lost /\ call'[c].pc = "waits" /\ call'[c].err = call[c].err
    BY <1>5, <2>1 DEF ChainInv, Types, Frame, Others
  <2>3. Streams(c)'
    BY <1>1, <2>1, <2>2, WorkFacts DEF Streams, Before, After
  <2>4. Behind(c)'
    BY <1>1, <1>3, <2>1, <2>2, KeepFacts DEF Behind, Before, After
  <2>5. Errors(c)'
    BY <2>2 DEF ChainInv, Errors
  <2>6. QED
    BY <1>1, <2>2, <2>3, <2>4, <2>5, CallStep
<1>6. QED
  BY <1>4, <1>5 DEF NextSubmit

(* The steps of other threads.                                              *)
LEMMA GroupStepInv ==
  ASSUME ChainInv, GroupDestroy \/ VmDestroy
  PROVE  ChainInv'
<1>1. /\ UNCHANGED <<sync, call, given>>
      /\ group' \in [listed: BOOLEAN, vm: BOOLEAN, fatal: SUBSET Nat]
      /\ group'.listed => group.listed
      /\ group'.fatal = group.fatal
  BY DEF ChainInv, Types, GroupDestroy, VmDestroy
<1>2. Types' /\ Signals'
  BY <1>1, SignalsKeep DEF ChainInv, Types
<1>3. \A d \in Calls \ {NoCall} : (Streams(d) /\ Behind(d) /\ Errors(d))'
  BY <1>1, OthersKeep DEF Others
<1>4. QED
  BY <1>2, <1>3, ChainAssumption DEF ChainInv

LEMMA SyncObjDestroyInv ==
  ASSUME ChainInv, NEW o \in Syncs, SyncObjDestroy(o)
  PROVE  ChainInv'
<1>1. /\ UNCHANGED <<group, call, given>>
      /\ sync' \in [Syncs -> [listed: BOOLEAN, value: Nat]]
      /\ \A x \in Syncs : sync'[x].value = sync[x].value
  BY DEF ChainInv, Types, SyncObjDestroy
<1>2. Types'
  BY <1>1 DEF ChainInv, Types
<1>3. Signals'
  BY <1>1 DEF ChainInv, Signals, AllMet, Met, PointGiven
<1>4. \A d \in Calls \ {NoCall} : (Streams(d) /\ Behind(d) /\ Errors(d))'
  BY <1>1, OthersKeep DEF Others
<1>5. QED
  BY <1>2, <1>3, <1>4, ChainAssumption DEF ChainInv

LEMMA SyncObjSignalInv ==
  ASSUME ChainInv, NEW o \in Syncs, NEW p \in Points, SyncObjSignal(o, p)
  PROVE  ChainInv'
<1>1. /\ UNCHANGED <<group, call>> /\ p \in Nat /\ Raise(o, p)
      /\ given' = given \cup {<<o, p, NoCall, 0>>}
  BY ChainAssumption DEF SyncObjSignal
<1>2. /\ sync' \in [Syncs -> [listed: BOOLEAN, value: Nat]]
      /\ \A x \in Syncs : sync'[x].value > 0 =>
           \E g \in given' : g[1] = x /\ g[2] = sync'[x].value
  BY <1>1, RaiseFacts
<1>3. Types'
  BY <1>1, <1>2 DEF ChainInv, Types
<1>4. ASSUME NEW g \in given', g[3] # NoCall
      PROVE  /\ g[4] \in DOMAIN call'[g[3]].prog /\ 1..g[4] \subseteq call'[g[3]].ran
             /\ \A r \in 1..g[4] : AllMet(call[g[3]].prog, r)'
  <2>1. g \in given
    BY <1>1, <1>4
  <2>2. /\ g[4] \in DOMAIN call[g[3]].prog /\ 1..g[4] \subseteq call[g[3]].ran
        /\ \A r \in 1..g[4] : AllMet(call[g[3]].prog, r)
    BY <1>4, <2>1 DEF ChainInv, Signals
  <2>3. \A r \in 1..g[4] : AllMet(call[g[3]].prog, r)'
    BY <1>1, <2>2 DEF AllMet, Met, PointGiven
  <2>4. QED
    BY <1>1, <2>2, <2>3
<1>5. Signals'
  BY <1>2, <1>4 DEF Signals
<1>6. \A d \in Calls \ {NoCall} : (Streams(d) /\ Behind(d) /\ Errors(d))'
  BY <1>1, OthersKeep DEF Others
<1>7. QED
  BY <1>3, <1>5, <1>6, ChainAssumption DEF ChainInv

-----------------------------------------------------------------------------
LEMMA InitInv == Init => ChainInv
<1> SUFFICES ASSUME Init PROVE ChainInv
  OBVIOUS
<1>1. New \in Frame
  BY DEF New, Frame, PCs, Errs
<1>2. Types
  BY <1>1 DEF Init, Types
<1>3. Signals
  BY DEF Init, Signals
<1>4. ASSUME NEW c \in Calls PROVE Streams(c) /\ Behind(c) /\ Errors(c)
  <2>1. call[c] = New
    BY DEF Init
  <2>2. QED
    BY <2>1 DEF New, Streams, Behind, Errors, Before, After
<1>5. QED
  BY <1>2, <1>3, <1>4 DEF ChainInv

LEMMA NextInv ==
  ASSUME ChainInv, [Next]_vars
  PROVE  ChainInv'
<1>1. CASE UNCHANGED vars
  <2>1. Types' /\ Signals'
    BY <1>1, SignalsKeep DEF ChainInv, Types, vars
  <2>2. \A d \in Calls \ {NoCall} : (Streams(d) /\ Behind(d) /\ Errors(d))'
    BY <1>1, OthersKeep DEF Others, vars
  <2>3. QED
    BY <2>1, <2>2, ChainAssumption DEF ChainInv
<1>2. CASE \E c \in Calls : GroupSubmit(c) \/ InCall(c)
  BY <1>2, GroupSubmitInv, WaitsInv, WaitOpInv, WaitDoneInv, ResolveInv, SubmitInv,
     StreamRanInv, StreamFailedInv, SignalOpInv, NextSubmitInv DEF InCall
<1>3. CASE GroupDestroy \/ VmDestroy
  BY <1>3, GroupStepInv
<1>4. CASE \E o \in Syncs : SyncObjDestroy(o) \/ \E p \in Points : SyncObjSignal(o, p)
  BY <1>4, SyncObjDestroyInv, SyncObjSignalInv
<1>5. QED
  BY <1>1, <1>2, <1>3, <1>4 DEF Next

-----------------------------------------------------------------------------
\* A sync object reaches a point only by a signal of the CPU or of a submit
\* whose stream, and every stream of its call before it, has run, and whose
\* waits were met: GroupSubmit returns at the first failed stream, before the
\* signals.
THEOREM NoFakeCompletionHolds == Spec => []NoFakeCompletion
<1>1. ChainInv => NoFakeCompletion
  <2> SUFFICES ASSUME ChainInv PROVE NoFakeCompletion
    OBVIOUS
  <2>1. ASSUME NEW g \in given, g[3] # NoCall, NEW r \in 1..g[4],
               NEW k \in DOMAIN call[g[3]].prog[r].syncs,
               ~call[g[3]].prog[r].syncs[k].signal
        PROVE  PointGiven(call[g[3]].prog[r].syncs[k].obj, call[g[3]].prog[r].syncs[k].point)
    <3>1. g[3] \in Calls /\ g[4] \in DOMAIN call[g[3]].prog /\ AllMet(call[g[3]].prog, r)
      BY <2>1 DEF ChainInv, Types, Signals
    <3>2. call[g[3]].prog \in Seq(Submits)
      BY <3>1 DEF ChainInv, Types, Frame
    <3>3. call[g[3]].prog[r] \in Submits
      BY <3>1, <3>2
    <3>4. call[g[3]].prog[r].syncs \in Seq(SyncOps)
      BY <3>3 DEF Submits
    <3>5. k < Len(call[g[3]].prog[r].syncs) + 1
      BY <2>1, <3>4
    <3>6. QED
      BY <2>1, <3>1, <3>5 DEF AllMet, Met
  <2>2. QED
    BY <2>1 DEF ChainInv, Signals, NoFakeCompletion
<1>2. QED
  BY <1>1, InitInv, NextInv, PTL DEF Spec

\* The result GroupSubmit returns says what it did: OK only when every stream
\* ran and every signal was given, but for a signal whose error the waits of a
\* later submit overwrote; EIO names a queue of FatalQueueMask.
THEOREM OutcomeReportedHolds == Spec => []OutcomeReported
<1>1. ChainInv => OutcomeReported
  <2> SUFFICES ASSUME ChainInv, NEW c \in Calls, call[c].pc = "done",
                      call[c].err = "OK", NEW q \in DOMAIN call[c].prog \ call[c].lost,
                      NEW k \in DOMAIN call[c].prog[q].syncs,
                      call[c].prog[q].syncs[k].signal
               PROVE  <<call[c].prog[q].syncs[k].obj, call[c].prog[q].syncs[k].point, c, q>>
                         \in given
    BY DEF ChainInv, Errors, OutcomeReported, At
  <2>1. call[c].prog \in Seq(Submits)
    BY DEF ChainInv, Types, Frame
  <2>2. call[c].prog[q] \in Submits
    BY <2>1
  <2>3. call[c].prog[q].syncs \in Seq(SyncOps)
    BY <2>2 DEF Submits
  <2>4. k < Len(call[c].prog[q].syncs) + 1
    BY <2>3
  <2>5. AllTold(c, call[c].prog, q)
    BY DEF ChainInv, Errors
  <2>6. QED
    BY <2>4, <2>5 DEF AllTold, Told
<1>2. QED
  BY <1>1, InitInv, NextInv, PTL DEF Spec
=============================================================================
