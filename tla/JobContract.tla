---------------------------- MODULE JobContract ----------------------------
(***************************************************************************)
(* What the CSF path promises its callers: a job is asked for, it may run  *)
(* once, and its caller is answered once; "ok" is answered only for a job  *)
(* that has run.  CsfSubmit implements this module (CsfSubmit!Contract).   *)
(***************************************************************************)
CONSTANT Job

VARIABLES asked,    \* handed to the ring
          done,     \* executed by the MCU, to the end
          good,     \* answered STATUS_SUCCESS
          bad       \* answered with an error

contract == <<asked, done, good, bad>>

ContractInit == asked = {} /\ done = {} /\ good = {} /\ bad = {}

Ask(j) ==
    /\ j \in Job \ asked
    /\ asked' = asked \cup {j}
    /\ UNCHANGED <<done, good, bad>>

(* A job that failed may still run late. *)
Run(j) ==
    /\ j \in asked \ (done \cup good)
    /\ done' = done \cup {j}
    /\ UNCHANGED <<asked, good, bad>>

AnswerOk(j) ==
    /\ j \in done \ (good \cup bad)
    /\ good' = good \cup {j}
    /\ UNCHANGED <<asked, done, bad>>

AnswerError(j) ==
    /\ j \in asked \ (good \cup bad)
    /\ bad' = bad \cup {j}
    /\ UNCHANGED <<asked, done, good>>

ContractNext == \E j \in Job : Ask(j) \/ Run(j) \/ AnswerOk(j) \/ AnswerError(j)

ContractSpec == ContractInit /\ [][ContractNext]_contract
============================================================================
