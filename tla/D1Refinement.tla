---------------------------- MODULE D1Refinement ----------------------------
(***************************************************************************)
(* How far the D1 store keeps the contract of the in-memory store.  The    *)
(* rows that a lost race has inserted and not yet deleted do not exist for *)
(* the contract; everything else is itself.                                *)
(***************************************************************************)
EXTENDS D1Lifecycle

Visible == [r \in Run |-> IF Orphan(r) THEN Absent ELSE run[r]]

Contract == INSTANCE StoreContract WITH run <- Visible

(***************************************************************************)
(* The one step of D1 that is no step of the contract: the batch of a      *)
(* finish whose lease is refused.  The run stays as it is, and the task    *)
(* moves as if the run had finished.                                       *)
(***************************************************************************)
RefusedFinish(h) ==
    LET q == req[h] IN
    /\ q.pc = "batch"
    /\ Move[q.op].leased
    /\ TaskMatches(q)
    /\ run[q.run].status = Move[q.op].from
    /\ ~LeaseLive(run[q.run], q.tok, q.at)
    /\ task' = [task EXCEPT ![run[q.run].task].status = Move[q.op].taskTo]
    /\ UNCHANGED <<run, clock>>

(***************************************************************************)
(* However the statements of concurrent calls interleave, every step of    *)
(* the D1 store has the effect of one atomic call of the in-memory store,  *)
(* or of none, with the refused finish as the only exception.              *)
(***************************************************************************)
KeepsContractButForRefusals ==
    /\ Contract!Init
    /\ [][Contract!Next \/ \E h \in Handler : RefusedFinish(h)]_<<task, Visible, clock>>

(***************************************************************************)
(* The README's claim: the two stores keep the same contract.              *)
(***************************************************************************)
KeepsContract == Contract!Spec
=============================================================================
