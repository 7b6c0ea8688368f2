---------------------------- MODULE Orchestration ----------------------------
(***************************************************************************)
(* From an implemented task to a pushed branch: src/orchestrator/*.ts with *)
(* the verifier and promotion workflows it launches.                       *)
(*                                                                         *)
(* The model follows ONE original task (member 0 of the lineage) whose     *)
(* worker run has succeeded, and its repair tasks 1, 2, ...  A task has at *)
(* most one code candidate, so a candidate is named by its task.  The      *)
(* verifier runs of the task are named by their attempt, 0, 1, ...         *)
(*                                                                         *)
(* Several orchestration cycles (POST /orchestrate) may run at once: each  *)
(* is a process whose step is one database write, or the reads of one      *)
(* decision, or one launch of a workflow.  A write uses what an earlier    *)
(* step read, as the code does.                                            *)
(***************************************************************************)
EXTENDS Integers, FiniteSets

CONSTANTS
    Cycles,        \* the orchestration cycles that may overlap
    MaxRepairs,    \* thresholds.maxRepairAttemptsPerTask
    MaxAttempts,   \* bound: verifier runs of the task
    MaxFaults      \* bound: crashes, lost answers, lost workers, errors

ASSUME BoundsAssumption ==
    /\ MaxRepairs \in Nat
    /\ MaxAttempts \in Nat \ {0}
    /\ MaxFaults \in Nat

None == -1

Original == 0
\* One id more than the threshold allows, so that a model can exceed it.
Repairs == 1 .. (MaxRepairs + 1)
Lineage == 0 .. (MaxRepairs + 1)
Attempts == 0 .. (MaxAttempts - 1)

TaskStatus == {"absent", "open", "awaiting_verification", "completed", "failed"}
Outcome == {"PASS", "FAIL", "INCONCLUSIVE"}

VARIABLES
    tasks,      \* status of each task; "open": pending, assigned or in progress
    because,    \* the verifier run named in the context of a repair task
    runs,       \* verifier_runs: status, outcome, candidate
    latest,     \* the completed verifier run with the greatest completedAt
    verifier,   \* the verifier workflow of each attempt
    cands,      \* code_candidates: status, verifierRunId
    promo,      \* promotion_runs: status, verifierRunId
    pusher,     \* the promotion workflows of each candidate
    branch,     \* the candidate whose tree the task's branch holds
    blocked,    \* an open blocker relates to the original task
    cyc,        \* the orchestration cycles
    faults,     \* faults spent
    passed      \* history: candidates a verifier workflow has passed

storeVars == <<tasks, because, runs, latest, cands, promo, blocked>>
worldVars == <<verifier, pusher, branch, faults, passed>>
vars == <<tasks, because, runs, latest, verifier, cands, promo, pusher, branch,
          blocked, cyc, faults, passed>>

PC == {"idle", "accept_repairs", "accept_repair_write",
       "verify", "verify_insert", "verify_launch", "verify_fail",
       "accept", "accept_check", "accept_write", "mark_read", "mark_write",
       "promote", "promo_create", "promo_launch", "promo_fail",
       "repair", "repair_create",
       "exhaust", "blocker_create", "reject_check", "reject_write"}

\* A cycle holds only what its current decision has read.
Holding(pc, list, task, run, cand) ==
    [pc |-> pc, list |-> list, task |-> task, run |-> run, cand |-> cand]
At(pc) == Holding(pc, {}, None, None, None)

RunRow == [status : {"absent", "pending", "completed"},
           outcome : Outcome \cup {"none"}, cand : Lineage \cup {None}]
CandRow == [status : {"absent", "pending_verification", "promotion_eligible", "promoted"},
            run : Attempts \cup {None}]
PromoRow == [status : {"absent", "pending", "succeeded", "failed"},
             run : Attempts \cup {None}]
PusherRow == [queued : Nat, step : {"idle", "push", "succeeded", "failed", "mark"}]
CycleRow == [pc : PC, list : SUBSET Repairs, task : Lineage \cup {None},
             run : Attempts \cup {None}, cand : Lineage \cup {None}]

TypeOK ==
    /\ tasks \in [Lineage -> TaskStatus]
    /\ because \in [Lineage -> Attempts \cup {None}]
    /\ runs \in [Attempts -> RunRow]
    /\ latest \in Attempts \cup {None}
    /\ verifier \in [Attempts -> {"idle", "running", "unanswered", "done"}]
    /\ cands \in [Lineage -> CandRow]
    /\ promo \in [Lineage -> PromoRow]
    /\ pusher \in [Lineage -> PusherRow]
    /\ branch \in Lineage \cup {None}
    /\ blocked \in BOOLEAN
    /\ cyc \in [Cycles -> CycleRow]
    /\ faults \in 0 .. MaxFaults
    /\ passed \subseteq Lineage

Init ==
    /\ tasks = [i \in Lineage |->
                   IF i = Original THEN "awaiting_verification" ELSE "absent"]
    /\ because = [i \in Lineage |-> None]
    /\ runs = [a \in Attempts |-> [status |-> "absent", outcome |-> "none", cand |-> None]]
    /\ latest = None
    /\ verifier = [a \in Attempts |-> "idle"]
    /\ cands = [i \in Lineage |->
                   [status |-> IF i = Original THEN "pending_verification" ELSE "absent",
                    run |-> None]]
    /\ promo = [i \in Lineage |-> [status |-> "absent", run |-> None]]
    /\ pusher = [i \in Lineage |-> [queued |-> 0, step |-> "idle"]]
    /\ branch = None
    /\ blocked = FALSE
    /\ cyc = [c \in Cycles |-> At("idle")]
    /\ faults = 0
    /\ passed = {}

-----------------------------------------------------------------------------
(* What a decision reads.                                                  *)

\* hasPendingVerifierRun
PendingRun == \E a \in Attempts : runs[a].status = "pending"

CompletedRuns == {a \in Attempts : runs[a].status = "completed"}

\* latestCompletedVerifierRun(...)?.outcome
LatestOutcome == IF latest = None THEN "none" ELSE runs[latest].outcome

\* countRepairTasksForOriginal
RepairTasks == {i \in Repairs : tasks[i] # "absent"}
RepairCount == Cardinality(RepairTasks)

CompletedRepairs == {i \in Repairs : tasks[i] = "completed"}

\* Mutation: an off-by-one at the threshold.
RepairsLeftInclusive == RepairCount <= MaxRepairs

\* repairCount < thresholds.maxRepairAttemptsPerTask
RepairsLeft == RepairCount < MaxRepairs

\* Mutation: a repair that awaits acceptance is not pending.
PendingRepairsOpen == {i \in RepairTasks : tasks[i] = "open"}

\* Mutation: every repair is pending.
PendingRepairsAll == RepairTasks

\* pendingRepair: a repair that is not completed; a failed one counts.
PendingRepairs == RepairTasks \ CompletedRepairs

\* Mutation: INSERT OR REPLACE.
RunIsNewAlways(a) == TRUE

\* The primary keys that refuse a second INSERT.
RunIsNew(a) == runs[a].status = "absent"

RepairIsNew(i) == tasks[i] = "absent"

\* Mutation: the status of the repair is not looked at.
CandidatesOfAnyRepair ==
    IF LatestOutcome = "FAIL"
    THEN {i \in RepairTasks : \A j \in RepairTasks : j <= i}
    ELSE {Original}

\* resolveCandidateForVerification: the candidate of the completed repair with
\* the highest attempt, but only right after a FAIL.
CandidatesForVerification ==
    IF LatestOutcome = "FAIL"
    THEN {i \in CompletedRepairs : \A j \in CompletedRepairs : j <= i}
    ELSE {Original}

\* Mutation: the candidate of the newest completed repair, if there is one.
NewestCandidate(a) ==
    IF CompletedRepairs = {} THEN Original
    ELSE CHOOSE i \in CompletedRepairs : \A j \in CompletedRepairs : j <= i

\* verifierRun.codeCandidateId of the run that led to the acceptance.
JudgedCandidate(a) == runs[a].cand

\* Mutation: the verifier run is forgotten.
EligibleByNobody(a) == [status |-> "promotion_eligible", run |-> None]

\* What markCodeCandidatePromotionEligible writes.
EligibleBy(a) == [status |-> "promotion_eligible", run |-> a]

\* Mutation: any eligible candidate.
EligibleCandidatesOfAnyRun ==
    {i \in Lineage : /\ cands[i].status = "promotion_eligible"
                     /\ promo[i].status = "absent"}

\* The candidate to promote: the latest run's, marked by that very run, and
\* without a promotion run.
EligibleCandidates ==
    {i \in Lineage : /\ i = runs[latest].cand
                     /\ cands[i].status = "promotion_eligible"
                     /\ cands[i].run = latest
                     /\ promo[i].status = "absent"}

\* Mutation: the status of a worker run.
VerdictRunStatus == [accept |-> "succeeded", reject |-> "failed"]

\* What verifyTaskResult writes.
VerdictStatus == [accept |-> "completed", reject |-> "failed"]

\* The branch of the task can take this candidate's tree.
Pushable(i) == branch \in {None, i}

\* A step of a cycle ends by moving to another point of runOrchestrationCycle
\* with what it has read; an exception ends the cycle.
Goto(c, pc) == cyc' = [cyc EXCEPT ![c] = At(pc)]
GotoWith(c, pc, task, run, cand) ==
    cyc' = [cyc EXCEPT ![c] = Holding(pc, {}, task, run, cand)]
GotoWithList(c, pc, list, task) ==
    cyc' = [cyc EXCEPT ![c] = Holding(pc, list, task, None, None)]
Throw(c) == Goto(c, "idle")

\* completeVerifierRun: an unconditional UPDATE with completedAt = now, which
\* makes this run the latest one.
CompleteRun(a, outcome) ==
    /\ runs' = [runs EXCEPT ![a].status = "completed", ![a].outcome = outcome]
    /\ latest' = a

Fault == faults < MaxFaults /\ faults' = faults + 1

-----------------------------------------------------------------------------
(* Repair tasks whose worker is done are accepted first.                   *)

\* The list of tasks is read once, when the cycle starts.
Start(c) ==
    /\ cyc[c].pc = "idle"
    /\ GotoWithList(c, "accept_repairs",
                    {i \in Repairs : tasks[i] = "awaiting_verification"}, None)
    /\ UNCHANGED <<storeVars, worldVars>>

\* maybeAcceptCompletedRepairTask, up to the check of verifyTaskResult, which
\* throws if the task has moved on since the list was read.
AcceptRepair(c) ==
    /\ cyc[c].pc = "accept_repairs"
    /\ \/ cyc[c].list = {} /\ Goto(c, "verify")
       \/ \E i \in cyc[c].list :
             /\ \A j \in cyc[c].list : i <= j
             /\ IF tasks[i] = "awaiting_verification"
                THEN GotoWithList(c, "accept_repair_write", cyc[c].list, i)
                ELSE Throw(c)
    /\ UNCHANGED <<storeVars, worldVars>>

AcceptRepairWrite(c) ==
    /\ cyc[c].pc = "accept_repair_write"
    /\ tasks' = [tasks EXCEPT ![cyc[c].task] = VerdictStatus.accept]
    /\ GotoWithList(c, "accept_repairs", cyc[c].list \ {cyc[c].task}, None)
    /\ UNCHANGED <<because, runs, latest, cands, promo, blocked, worldVars>>

-----------------------------------------------------------------------------
(* Verification of the original task.                                      *)

\* maybeRunTaskVerification: what it reads, and the attempt it numbers.
Verify(c) ==
    /\ cyc[c].pc = "verify"
    /\ \/ /\ tasks[Original] = "awaiting_verification"
          /\ ~PendingRun
          /\ LatestOutcome # "PASS"
          /\ \E i \in CandidatesForVerification :
                GotoWith(c, "verify_insert", None, Cardinality(CompletedRuns), i)
          /\ Cardinality(CompletedRuns) < MaxAttempts
       \/ /\ \/ tasks[Original] # "awaiting_verification"
             \/ PendingRun
             \/ LatestOutcome = "PASS"
             \/ CandidatesForVerification = {}
             \/ Cardinality(CompletedRuns) = MaxAttempts
          /\ Goto(c, "accept")
    /\ UNCHANGED <<storeVars, worldVars>>

\* createVerifierRun.  A run of that name found by getVerifierRun is left
\* alone; one inserted after that look-up violates the primary key and throws.
VerifyInsert(c) ==
    /\ cyc[c].pc = "verify_insert"
    /\ LET a == cyc[c].run
       IN  IF RunIsNew(a)
           THEN /\ runs' = [runs EXCEPT ![a] = [status |-> "pending", outcome |-> "none",
                                                cand |-> cyc[c].cand]]
                /\ GotoWith(c, "verify_launch", None, a, None)
           ELSE /\ Goto(c, "accept") \/ Throw(c)
                /\ UNCHANGED runs
    /\ UNCHANGED <<tasks, because, latest, cands, promo, blocked, worldVars>>

\* launchBridge.launch: acknowledged; delivered but not acknowledged; refused.
VerifyLaunch(c) ==
    /\ cyc[c].pc = "verify_launch"
    /\ \/ /\ verifier' = [verifier EXCEPT ![cyc[c].run] = "running"]
          /\ Goto(c, "accept")
          /\ UNCHANGED faults
       \/ /\ Fault
          /\ verifier' = [verifier EXCEPT ![cyc[c].run] = "running"]
          /\ GotoWith(c, "verify_fail", None, cyc[c].run, None)
       \/ /\ Fault
          /\ GotoWith(c, "verify_fail", None, cyc[c].run, None)
          /\ UNCHANGED verifier
    /\ UNCHANGED <<storeVars, pusher, branch, passed>>

VerifyFail(c) ==
    /\ cyc[c].pc = "verify_fail"
    /\ CompleteRun(cyc[c].run, "FAIL")
    /\ Goto(c, "accept")
    /\ UNCHANGED <<tasks, because, cands, promo, blocked, worldVars>>

-----------------------------------------------------------------------------
(* Acceptance of the original task.                                        *)

\* maybeAcceptVerifiedTask.  A workflow stores its test result and evidence
\* before its PASS, so they are there.
Accept(c) ==
    /\ cyc[c].pc = "accept"
    /\ IF tasks[Original] = "awaiting_verification" /\ LatestOutcome = "PASS"
       THEN GotoWith(c, "accept_check", None, latest, None)
       ELSE Goto(c, "promote")
    /\ UNCHANGED <<storeVars, worldVars>>

\* verifyTaskResult reads the task again, and throws if it has moved on.
AcceptCheck(c) ==
    /\ cyc[c].pc = "accept_check"
    /\ IF tasks[Original] = "awaiting_verification"
       THEN GotoWith(c, "accept_write", None, cyc[c].run, None)
       ELSE Throw(c)
    /\ UNCHANGED <<storeVars, worldVars>>

AcceptWrite(c) ==
    /\ cyc[c].pc = "accept_write"
    /\ tasks' = [tasks EXCEPT ![Original] = VerdictStatus.accept]
    /\ GotoWith(c, "mark_read", None, cyc[c].run, None)
    /\ UNCHANGED <<because, runs, latest, cands, promo, blocked, worldVars>>

\* markCandidateEligibleOnAccept reads the run and its candidate again.
MarkRead(c) ==
    /\ cyc[c].pc = "mark_read"
    /\ LET a == cyc[c].run
           i == JudgedCandidate(a)
       IN  IF runs[a].outcome = "PASS" /\ cands[i].status # "promoted"
           THEN GotoWith(c, "mark_write", None, a, i)
           ELSE Goto(c, "promote")
    /\ UNCHANGED <<storeVars, worldVars>>

MarkWrite(c) ==
    /\ cyc[c].pc = "mark_write"
    /\ cands' = [cands EXCEPT ![cyc[c].cand] = EligibleBy(cyc[c].run)]
    /\ Goto(c, "promote")
    /\ UNCHANGED <<tasks, because, runs, latest, promo, blocked, worldVars>>

-----------------------------------------------------------------------------
(* Promotion is scheduled.                                                 *)

\* maybeSchedulePromotion
Promote(c) ==
    /\ cyc[c].pc = "promote"
    /\ IF /\ tasks[Original] = "completed"
          /\ LatestOutcome = "PASS"
          /\ EligibleCandidates # {}
       THEN \E i \in EligibleCandidates :
               GotoWith(c, "promo_create", None, cands[i].run, i)
       ELSE Goto(c, "repair")
    /\ UNCHANGED <<storeVars, worldVars>>

\* createPromotionRun returns the run it finds, and the caller goes on to
\* launch it; a run inserted after its look-up violates UNIQUE and throws.
PromoCreate(c) ==
    /\ cyc[c].pc = "promo_create"
    /\ LET i == cyc[c].cand
       IN  \/ /\ promo[i].status = "absent"
              /\ promo' = [promo EXCEPT ![i] = [status |-> "pending", run |-> cyc[c].run]]
              /\ GotoWith(c, "promo_launch", None, None, i)
           \/ /\ promo[i].status # "absent"
              /\ GotoWith(c, "promo_launch", None, None, i) \/ Throw(c)
              /\ UNCHANGED promo
    /\ UNCHANGED <<tasks, because, runs, latest, cands, blocked, worldVars>>

PromoLaunch(c) ==
    /\ cyc[c].pc = "promo_launch"
    /\ LET i == cyc[c].cand
       IN  \/ /\ pusher' = [pusher EXCEPT ![i].queued = @ + 1]
              /\ Goto(c, "repair")
              /\ UNCHANGED faults
           \/ /\ Fault
              /\ pusher' = [pusher EXCEPT ![i].queued = @ + 1]
              /\ GotoWith(c, "promo_fail", None, None, i)
           \/ /\ Fault
              /\ GotoWith(c, "promo_fail", None, None, i)
              /\ UNCHANGED pusher
    /\ UNCHANGED <<storeVars, verifier, branch, passed>>

\* completePromotionRun(failed): the store lets "failed" replace "succeeded".
PromoFail(c) ==
    /\ cyc[c].pc = "promo_fail"
    /\ promo' = [promo EXCEPT ![cyc[c].cand].status = "failed"]
    /\ Goto(c, "repair")
    /\ UNCHANGED <<tasks, because, runs, latest, cands, blocked, worldVars>>

-----------------------------------------------------------------------------
(* Repair tasks and the end of the repair chain.                           *)

\* maybeCreateRepairTask
Repair(c) ==
    /\ cyc[c].pc = "repair"
    /\ IF /\ tasks[Original] = "awaiting_verification"
          /\ LatestOutcome = "FAIL"
          /\ RepairsLeft
          /\ RepairIsNew(RepairCount + 1)
       THEN GotoWith(c, "repair_create", RepairCount + 1, latest, None)
       ELSE Goto(c, "exhaust")
    /\ UNCHANGED <<storeVars, worldVars>>

\* createTask: the deterministic id makes a second INSERT throw.
RepairCreate(c) ==
    /\ cyc[c].pc = "repair_create"
    /\ LET i == cyc[c].task
       IN  IF RepairIsNew(i)
           THEN /\ tasks' = [tasks EXCEPT ![i] = "open"]
                /\ because' = [because EXCEPT ![i] = cyc[c].run]
                /\ Goto(c, "exhaust")
           ELSE /\ Throw(c)
                /\ UNCHANGED <<tasks, because>>
    /\ UNCHANGED <<runs, latest, cands, promo, blocked, worldVars>>

AfterBlocker(pending) == IF pending = {} THEN "reject_check" ELSE "idle"

\* maybeHandleRepairExhaustion.  A repair that is not completed stops the
\* rejection; a failed one does so for good.
Exhaust(c) ==
    /\ cyc[c].pc = "exhaust"
    /\ IF /\ tasks[Original] = "awaiting_verification"
          /\ LatestOutcome = "FAIL"
          /\ ~RepairsLeft
       THEN IF blocked
            THEN Goto(c, AfterBlocker(PendingRepairs))
            ELSE GotoWithList(c, "blocker_create", PendingRepairs, None)
       ELSE Goto(c, "idle")
    /\ UNCHANGED <<storeVars, worldVars>>

BlockerCreate(c) ==
    /\ cyc[c].pc = "blocker_create"
    /\ blocked' = TRUE
    /\ Goto(c, AfterBlocker(cyc[c].list))
    /\ UNCHANGED <<tasks, because, runs, latest, cands, promo, worldVars>>

RejectCheck(c) ==
    /\ cyc[c].pc = "reject_check"
    /\ IF tasks[Original] = "awaiting_verification"
       THEN Goto(c, "reject_write")
       ELSE Throw(c)
    /\ UNCHANGED <<storeVars, worldVars>>

RejectWrite(c) ==
    /\ cyc[c].pc = "reject_write"
    /\ tasks' = [tasks EXCEPT ![Original] = VerdictStatus.reject]
    /\ Goto(c, "idle")
    /\ UNCHANGED <<because, runs, latest, cands, promo, blocked, worldVars>>

\* The request that runs the cycle dies between two of its calls.
CycleCrash(c) ==
    /\ cyc[c].pc # "idle"
    /\ Fault
    /\ Throw(c)
    /\ UNCHANGED <<storeVars, verifier, pusher, branch, passed>>

-----------------------------------------------------------------------------
(* The worker, verifier and promotion workflows.                           *)

\* The worker posts its candidate before it reports success.
RepairSucceeds(i) ==
    /\ tasks[i] = "open"
    /\ tasks' = [tasks EXCEPT ![i] = "awaiting_verification"]
    /\ cands' = [cands EXCEPT ![i].status = "pending_verification"]
    /\ UNCHANGED <<because, runs, latest, promo, blocked, cyc, worldVars>>

\* The worker run fails, or its lease expires once too often.
RepairFails(i) ==
    /\ tasks[i] = "open"
    /\ Fault
    /\ tasks' = [tasks EXCEPT ![i] = "failed"]
    /\ UNCHANGED <<because, runs, latest, cands, promo, blocked, cyc,
                   verifier, pusher, branch, passed>>

\* persistBrowserVerification ends with completeVerifierRun.  If its answer is
\* lost, the workflow completes the run once more, as INCONCLUSIVE.
VerifierAnswers(a, outcome) ==
    /\ verifier[a] = "running"
    /\ CompleteRun(a, outcome)
    /\ passed' = IF outcome = "PASS" THEN passed \cup {runs[a].cand} ELSE passed
    /\ \/ verifier' = [verifier EXCEPT ![a] = "done"] /\ UNCHANGED faults
       \/ verifier' = [verifier EXCEPT ![a] = "unanswered"] /\ Fault
    /\ UNCHANGED <<tasks, because, cands, promo, blocked, cyc, pusher, branch>>

\* completeInconclusiveBestEffort, after a lost answer or any other error.
VerifierErrs(a) ==
    /\ \/ verifier[a] = "unanswered" /\ UNCHANGED faults
       \/ verifier[a] = "running" /\ Fault
    /\ CompleteRun(a, "INCONCLUSIVE")
    /\ verifier' = [verifier EXCEPT ![a] = "done"]
    /\ UNCHANGED <<tasks, because, cands, promo, blocked, cyc, pusher, branch, passed>>

\* The runner dies: nothing is reported, and nothing else ends the run.
VerifierDies(a) ==
    /\ verifier[a] \in {"running", "unanswered"}
    /\ Fault
    /\ verifier' = [verifier EXCEPT ![a] = "done"]
    /\ UNCHANGED <<storeVars, cyc, pusher, branch, passed>>

PusherEnds(i) == pusher' = [pusher EXCEPT ![i].queued = @ - 1, ![i].step = "idle"]
PusherStep(i, step) == pusher' = [pusher EXCEPT ![i].step = step]

\* runOrchestratedPromotion, up to assertPromotionEligible.  Workflows of the
\* same promotion run never overlap (the workflow's concurrency group).
PromotionStarts(i) ==
    /\ pusher[i].queued > 0
    /\ pusher[i].step = "idle"
    /\ IF promo[i].status = "succeeded"
       THEN PusherEnds(i)
       ELSE IF /\ tasks[Original] = "completed"
               /\ cands[i].status \in {"promotion_eligible", "promoted"}
               /\ cands[i].run = promo[i].run
            THEN PusherStep(i, "push")
            ELSE PusherStep(i, "failed")
    /\ UNCHANGED <<storeVars, cyc, verifier, branch, faults, passed>>

\* executePromotion: a branch with the same tree is reused, one with another
\* tree is refused, and a moved source ref or a failing git command refuses too.
\* If the report of a success cannot be delivered, a failure is reported next.
PromotionPushes(i) ==
    /\ pusher[i].step = "push"
    /\ \/ /\ Pushable(i)
          /\ branch' = i
          /\ \/ PusherStep(i, "succeeded") /\ UNCHANGED faults
             \/ PusherStep(i, "failed") /\ Fault
       \/ /\ PusherStep(i, "failed")
          /\ UNCHANGED <<branch, faults>>
    /\ UNCHANGED <<storeVars, cyc, verifier, passed>>

\* handlePostPromotionRunComplete: a succeeded run keeps its status; the
\* candidate is written in a second call.
PromotionReports(i) ==
    /\ pusher[i].step \in {"succeeded", "failed"}
    /\ IF promo[i].status = "succeeded"
       THEN PusherEnds(i) /\ UNCHANGED promo
       ELSE /\ promo' = [promo EXCEPT ![i].status = pusher[i].step]
            /\ IF pusher[i].step = "succeeded"
               THEN PusherStep(i, "mark")
               ELSE PusherEnds(i)
    /\ UNCHANGED <<tasks, because, runs, latest, cands, blocked, cyc,
                   verifier, branch, faults, passed>>

PromotionMarks(i) ==
    /\ pusher[i].step = "mark"
    /\ cands' = [cands EXCEPT ![i].status = "promoted"]
    /\ PusherEnds(i)
    /\ UNCHANGED <<tasks, because, runs, latest, promo, blocked, cyc,
                   verifier, branch, faults, passed>>

PromotionDies(i) ==
    /\ pusher[i].step # "idle"
    /\ Fault
    /\ PusherEnds(i)
    /\ UNCHANGED <<storeVars, cyc, verifier, branch, passed>>

-----------------------------------------------------------------------------
CycleStep(c) ==
    \/ Start(c) \/ AcceptRepair(c) \/ AcceptRepairWrite(c)
    \/ Verify(c) \/ VerifyInsert(c) \/ VerifyLaunch(c) \/ VerifyFail(c)
    \/ Accept(c) \/ AcceptCheck(c) \/ AcceptWrite(c) \/ MarkRead(c) \/ MarkWrite(c)
    \/ Promote(c) \/ PromoCreate(c) \/ PromoLaunch(c) \/ PromoFail(c)
    \/ Repair(c) \/ RepairCreate(c)
    \/ Exhaust(c) \/ BlockerCreate(c) \/ RejectCheck(c) \/ RejectWrite(c)

VerifierStep(a) ==
    \/ \E outcome \in {"PASS", "FAIL"} : VerifierAnswers(a, outcome)
    \/ VerifierErrs(a)

PromotionStep(i) ==
    PromotionStarts(i) \/ PromotionPushes(i) \/ PromotionReports(i) \/ PromotionMarks(i)

Next ==
    \/ \E c \in Cycles : CycleStep(c) \/ CycleCrash(c)
    \/ \E i \in Repairs : RepairSucceeds(i) \/ RepairFails(i)
    \/ \E a \in Attempts : VerifierStep(a) \/ VerifierDies(a)
    \/ \E i \in Lineage : PromotionStep(i) \/ PromotionDies(i)

Spec == Init /\ [][Next]_vars

\* Cycles are run again and again (the control CLI polls /orchestrate until the
\* task is terminal), and a workflow that was launched runs to its end.
Fairness ==
    /\ \A c \in Cycles : WF_vars(CycleStep(c))
    /\ \A i \in Repairs : WF_vars(RepairSucceeds(i))
    /\ \A a \in Attempts : WF_vars(VerifierStep(a))
    /\ \A i \in Lineage : WF_vars(PromotionStep(i))

FairSpec == Spec /\ Fairness

-----------------------------------------------------------------------------
(* Safety.                                                                 *)

\* Only a candidate that a verifier workflow has passed is ever marked
\* eligible, given a promotion run or pushed, however cycles overlap and
\* whatever becomes of the outcome of its run later (promotion.ts,
\* markCandidateEligibleOnAccept; promote.ts, assertPromotionEligible).
OnlyPassedIsPromoted ==
    \A i \in Lineage :
        \/ cands[i].status \in {"promotion_eligible", "promoted"}
        \/ promo[i].status # "absent"
        \/ branch = i
        => i \in passed

\* Verifier runs are numbered without a gap and at most one of them, the last,
\* is unfinished: overlapping cycles never verify twice at once, although each
\* numbers its attempt from a list it read earlier (verification.ts,
\* maybeRunTaskVerification).
OneVerificationAtATime ==
    \A a \in Attempts :
        runs[a].status # "absent" => \A b \in 0 .. (a - 1) : runs[b].status = "completed"

\* Repair tasks are numbered 1, 2, ... without a gap and never exceed the
\* threshold, although the count is read before the INSERT (repair.ts,
\* maybeCreateRepairTask).
RepairsAreNumbered ==
    /\ RepairTasks = 1 .. RepairCount
    /\ RepairCount <= MaxRepairs

\* The original task is rejected only with an open blocker, and only after
\* every repair the threshold allows was made and completed (repair.ts,
\* maybeHandleRepairExhaustion).
RejectedAfterAllRepairs ==
    tasks[Original] = "failed" =>
        blocked /\ \A i \in 1 .. MaxRepairs : tasks[i] = "completed"

\* At most one candidate of the lineage ever gets a promotion run, although two
\* of them may be marked eligible: two cycles may accept on two verifier runs when
\* the launch of one was recorded as failed and its workflow passed later
\* (promotion.ts, maybeSchedulePromotion).
OnePromotion ==
    \A i, j \in Lineage : promo[i].status # "absent" /\ promo[j].status # "absent" => i = j

-----------------------------------------------------------------------------
(* Liveness, for a run without faults.                                     *)

\* The original task is accepted or rejected in the end.
LineageResolves == <>(tasks[Original] \in {"completed", "failed"})

\* An accepted task gets its branch and its candidate the mark "promoted",
\* unless the promotion workflow reports a failure.
AcceptedIsPromoted ==
    (tasks[Original] = "completed") ~>
        \E i \in Lineage :
            \/ branch = i /\ promo[i].status = "succeeded" /\ cands[i].status = "promoted"
            \/ promo[i].status = "failed"

\* A lineage comes to its end, and its end is carried out: maybeHandleRepairExhaustion
\* or maybeAcceptVerifiedTask decides, and maybeSchedulePromotion acts on it.
LineageIsSettled == LineageResolves /\ AcceptedIsPromoted

-----------------------------------------------------------------------------
(* What the repository says of the program, and the code does not do.      *)

\* The chain ends with a verdict on every repair: when the task is rejected,
\* each completed repair has had a completed verification of its candidate.
EveryRepairIsVerified ==
    tasks[Original] = "failed" =>
        \A i \in CompletedRepairs : \E a \in CompletedRuns : runs[a].cand = i
=============================================================================
