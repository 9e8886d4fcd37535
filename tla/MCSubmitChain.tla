--------------------------- MODULE MCSubmitChain ---------------------------
(* Instances of SubmitChain for TLC. *)
EXTENDS SubmitChain, TLC

CONSTANTS a, b    \* the sync objects

Wait(o, p)   == SyncOp(FALSE, o, p)
Signal(o, p) == SyncOp(TRUE, o, p)
Queue(ops)   == [stream |-> TRUE, syncs |-> ops]
NoStream(ops) == [stream |-> FALSE, syncs |-> ops]

\* Producers, consumers, a chain through two objects, a call that waits for
\* itself, one that waits for a point reached from the start and two that wait
\* for each other.
MCPrograms == {
    <<>>,
    <<Queue(<<Signal(a, 1)>>)>>,
    <<Queue(<<Wait(a, 1), Signal(b, 1)>>)>>,
    <<Queue(<<Wait(b, 1), Signal(a, 1)>>)>>,
    <<Queue(<<Signal(a, 1), Signal(b, 1)>>), Queue(<<Wait(b, 1), Signal(a, 2)>>)>>,
    <<Queue(<<Wait(a, 0), Signal(b, 1)>>), Queue(<<>>)>>,
    <<Queue(<<Wait(a, 2)>>), Queue(<<Signal(a, 2)>>)>>,
    <<Queue(<<Signal(a, 2)>>), NoStream(<<Wait(b, 1), Signal(b, 2)>>)>> }
=============================================================================
