----------------------- MODULE OrchestrationRefinement -----------------------
(***************************************************************************)
(* What the overlapping cycles amount to for a reader of the store.        *)
(***************************************************************************)
EXTENDS Orchestration

CandStatus == [i \in Lineage |-> cands[i].status]
PromoStatus == [i \in Lineage |-> promo[i].status]

Promise == INSTANCE TaskLineage
    WITH Member <- Lineage, Verification <- Attempts,
         task <- tasks, mark <- CandStatus, promotion <- PromoStatus

(***************************************************************************)
(* However cycles overlap, crash and act on what they read earlier, every  *)
(* change of a row has its ground at the moment it is made: a repair has   *)
(* the next number and stays, a task is accepted after a PASS and rejected *)
(* after its last repair, a candidate is marked, chosen and pushed in that *)
(* order and alone, and a success is reported only of what is on the       *)
(* branch (orchestrator/*.ts, promote.ts).                                 *)
(***************************************************************************)
KeepsPromise == Promise!Spec
=============================================================================
