----------------------------- MODULE TaskLineage -----------------------------
(***************************************************************************)
(* What becomes of an implemented task: the rows of the task, its repairs  *)
(* and their candidates, and the branch, as a reader of the store sees     *)
(* them.  Each action is one change of a row, made on the ground that      *)
(* holds at that moment.  Cycles, verifier runs, launches, workflows,      *)
(* crashes and stale reads are no part of it: Orchestration has them, and  *)
(* keeps to this (OrchestrationRefinement).                                *)
(***************************************************************************)
EXTENDS Integers

CONSTANTS
    Member,         \* the ids of the task and of the repairs it could get
    Verification,   \* the ids of the verifier runs
    MaxRepairs,     \* thresholds.maxRepairAttemptsPerTask
    None

Original == 0

VARIABLES
    task,       \* the status of each member
    because,    \* the verifier run that a repair was made for
    passed,     \* the members whose candidate a verifier has passed
    mark,       \* the status of each candidate
    promotion,  \* the status of each promotion run
    branch,     \* the candidate whose tree the task's branch holds
    blocked     \* an open blocker relates to the task

vars == <<task, because, passed, mark, promotion, branch, blocked>>

Init ==
    /\ task = [i \in Member |->
                  IF i = Original THEN "awaiting_verification" ELSE "absent"]
    /\ because = [i \in Member |-> None]
    /\ passed = {}
    /\ mark = [i \in Member |->
                  IF i = Original THEN "pending_verification" ELSE "absent"]
    /\ promotion = [i \in Member |-> "absent"]
    /\ branch = None
    /\ blocked = FALSE

\* The task has had a verdict.
Judged == task[Original] # "awaiting_verification"
RepairsMade == \A i \in 1 .. MaxRepairs : task[i] # "absent"
RepairsCompleted == \A i \in 1 .. MaxRepairs : task[i] = "completed"

-----------------------------------------------------------------------------
(* The repairs.                                                            *)

\* The next number within the threshold; the earlier repairs stay.
MakeRepair(i) ==
    /\ task[i] = "absent"
    /\ i \in 1 .. MaxRepairs
    /\ \A j \in 1 .. (i - 1) : task[j] # "absent"
    /\ task' = [task EXCEPT ![i] = "open"]
    /\ \E a \in Verification : because' = [because EXCEPT ![i] = a]
    /\ UNCHANGED <<passed, mark, promotion, branch, blocked>>

\* The repair's worker reports its candidate and its success, or the repair fails.
EndRepair(i) ==
    /\ i # Original /\ task[i] = "open"
    /\ \/ /\ task' = [task EXCEPT ![i] = "awaiting_verification"]
          /\ mark' = [mark EXCEPT ![i] = "pending_verification"]
       \/ /\ task' = [task EXCEPT ![i] = "failed"]
          /\ UNCHANGED mark
    /\ UNCHANGED <<because, passed, promotion, branch, blocked>>

\* A repair is accepted unseen: it is its candidate that is verified.
AcceptRepair(i) ==
    /\ i # Original /\ task[i] = "awaiting_verification"
    /\ task' = [task EXCEPT ![i] = "completed"]
    /\ UNCHANGED <<because, passed, mark, promotion, branch, blocked>>

-----------------------------------------------------------------------------
(* The verdict on the task.                                                *)

\* A verifier passes the candidate of the task or of a completed repair.
Pass(i) ==
    /\ i = Original \/ task[i] = "completed"
    /\ passed' = passed \cup {i}
    /\ UNCHANGED <<task, because, mark, promotion, branch, blocked>>

\* Some candidate has passed.  A rejection may be overwritten.
Accept ==
    /\ passed # {}
    /\ task' = [task EXCEPT ![Original] = "completed"]
    /\ UNCHANGED <<because, passed, mark, promotion, branch, blocked>>

\* A person is told once no repair is left to make.
Block ==
    /\ RepairsMade
    /\ blocked' = TRUE
    /\ UNCHANGED <<task, because, passed, mark, promotion, branch>>

\* The last resort.  An acceptance may be overwritten.
Reject ==
    /\ blocked /\ RepairsCompleted
    /\ task' = [task EXCEPT ![Original] = "failed"]
    /\ UNCHANGED <<because, passed, mark, promotion, branch, blocked>>

-----------------------------------------------------------------------------
(* The promotion.                                                          *)

MarkEligible(i) ==
    /\ i \in passed /\ Judged
    /\ mark' = [mark EXCEPT ![i] = "promotion_eligible"]
    /\ UNCHANGED <<task, because, passed, promotion, branch, blocked>>

\* One candidate of the lineage is chosen, once.
Choose(i) ==
    /\ i \in passed /\ Judged
    /\ mark[i] \in {"promotion_eligible", "promoted"}
    /\ \A j \in Member : promotion[j] = "absent"
    /\ promotion' = [promotion EXCEPT ![i] = "pending"]
    /\ UNCHANGED <<task, because, passed, mark, branch, blocked>>

\* The branch never loses the tree it has.
Push(i) ==
    /\ promotion[i] # "absent"
    /\ branch \in {None, i}
    /\ branch' = i
    /\ UNCHANGED <<task, because, passed, mark, promotion, blocked>>

\* A success is on the branch; a failure may overwrite a success.
ReportPromotion(i) ==
    /\ promotion[i] # "absent"
    /\ \/ promotion' = [promotion EXCEPT ![i] = "failed"]
       \/ branch = i /\ promotion' = [promotion EXCEPT ![i] = "succeeded"]
    /\ UNCHANGED <<task, because, passed, mark, branch, blocked>>

MarkPromoted(i) ==
    /\ branch = i
    /\ mark' = [mark EXCEPT ![i] = "promoted"]
    /\ UNCHANGED <<task, because, passed, promotion, branch, blocked>>

-----------------------------------------------------------------------------
Next ==
    \/ Accept \/ Block \/ Reject
    \/ \E i \in Member :
          \/ MakeRepair(i) \/ EndRepair(i) \/ AcceptRepair(i) \/ Pass(i)
          \/ MarkEligible(i) \/ Choose(i) \/ Push(i) \/ ReportPromotion(i)
          \/ MarkPromoted(i)

Spec == Init /\ [][Next]_vars
=============================================================================
