---------------------------- MODULE FenceLedger ----------------------------
(***************************************************************************)
(* What the submit path of the miniport promises dxgkrnl, with no queue,   *)
(* thread or DPC in sight: every fence id handed to SubmitCommand or       *)
(* PreemptCommand is announced through DxgkCbNotifyInterrupt at most once, *)
(* never before it was handed over, and never after the driver gave it up. *)
(* SubmitSched implements this module (SubmitSched!Ledger).                *)
(***************************************************************************)
EXTENDS Naturals, Sequences

CONSTANT Fence          \* the fence ids dxgkrnl may hand over

VARIABLES issued,       \* handed to the driver
          announced,    \* the DMA_COMPLETED and DMA_PREEMPTED reports, in order
          forsaken      \* overwritten, superseded by a reset, or cut off by a stop

ledger == <<issued, announced, forsaken>>

Told == {announced[i] : i \in 1..Len(announced)}
Open == issued \ (Told \cup forsaken)

LedgerInit == issued = {} /\ announced = <<>> /\ forsaken = {}

Issue(f) ==
    /\ f \in Fence \ issued
    /\ issued' = issued \cup {f}
    /\ UNCHANGED <<announced, forsaken>>

Announce(f) ==
    /\ f \in Open
    /\ announced' = Append(announced, f)
    /\ UNCHANGED <<issued, forsaken>>

Forsake(F) ==
    /\ F \subseteq Open
    /\ forsaken' = forsaken \cup F
    /\ UNCHANGED <<issued, announced>>

LedgerNext ==
    \/ \E f \in Fence : Issue(f) \/ Announce(f)
    \/ \E F \in SUBSET Fence : Forsake(F)

LedgerSpec == LedgerInit /\ [][LedgerNext]_ledger
============================================================================
