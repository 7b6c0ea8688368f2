------------------------ MODULE OrchestrationProofs ------------------------
(***************************************************************************)
(* Proofs about Orchestration, for any set of cycles, any repair threshold *)
(* and any bounds.                                                         *)
(***************************************************************************)
EXTENDS OrchestrationRefinement, FiniteSetTheorems, TLAPS

(***************************************************************************)
(* What a cycle holds, by the point it has reached.                        *)
(***************************************************************************)
Launching == {"verify_launch", "verify_fail"}
Accepting == {"accept_check", "accept_write", "mark_read", "mark_write"}
Promoting == {"promo_create", "promo_launch", "promo_fail"}
Rejecting == {"reject_check", "reject_write"}

AllRepaired == \A i \in 1 .. MaxRepairs : tasks[i] = "completed"
VerifiedBefore(a) == \A b \in 0 .. (a - 1) : runs[b].status = "completed"

\* The ids a cycle goes by are ids of rows.
HoldsIds(c) ==
    /\ cyc[c].pc = "accept_repair_write" => cyc[c].task \in Repairs
    /\ cyc[c].pc = "verify_insert" => cyc[c].run \in Attempts /\ cyc[c].cand \in Lineage
    /\ cyc[c].pc \in Launching \cup Accepting \cup {"promo_create"} =>
          cyc[c].run \in Attempts /\ runs[cyc[c].run].status # "absent"
    /\ cyc[c].pc \in Promoting \cup {"mark_write"} => cyc[c].cand \in Lineage
    /\ cyc[c].pc = "repair_create" => cyc[c].task \in Repairs /\ cyc[c].run \in Attempts

\* What it has read still bounds what it will write.
HoldsReads(c) ==
    /\ cyc[c].pc = "accept_repair_write" =>
          tasks[cyc[c].task] \in {"awaiting_verification", "completed"}
    /\ cyc[c].pc = "verify_insert" => VerifiedBefore(cyc[c].run)
    /\ cyc[c].pc \in Promoting \cup {"mark_write"} => cyc[c].cand \in passed
    /\ cyc[c].pc \in {"promo_launch", "promo_fail"} => promo[cyc[c].cand].status # "absent"
    /\ cyc[c].pc = "repair_create" =>
          /\ cyc[c].task <= MaxRepairs
          /\ \A j \in 1 .. (cyc[c].task - 1) : tasks[j] # "absent"
    /\ cyc[c].pc = "blocker_create" /\ cyc[c].list = {} => AllRepaired
    /\ cyc[c].pc \in Rejecting => blocked /\ AllRepaired

Held == \A c \in Cycles : HoldsIds(c) /\ HoldsReads(c)

(***************************************************************************)
(* Rows that refer to each other.                                          *)
(***************************************************************************)
RowsOK ==
    /\ \A a \in Attempts :
          /\ runs[a].status # "absent" => runs[a].cand \in Lineage
          /\ runs[a].outcome # "none" => runs[a].status = "completed"
          /\ verifier[a] # "idle" => runs[a].status # "absent"
    /\ latest # None => runs[latest].status = "completed"
    /\ \A i \in Lineage :
          /\ pusher[i].step # "idle" => pusher[i].queued > 0
          /\ pusher[i].queued > 0 => promo[i].status # "absent"

\* A launch happens once per run, and only its workflow passes a run.
LaunchedOK ==
    /\ \A c \in Cycles : cyc[c].pc = "verify_launch" =>
          /\ verifier[cyc[c].run] = "idle"
          /\ \A d \in Cycles : cyc[d].pc = "verify_launch" /\ cyc[d].run = cyc[c].run => d = c
    /\ \A a \in Attempts : runs[a].outcome = "PASS" =>
          /\ runs[a].cand \in passed
          /\ verifier[a] \in {"unanswered", "done"}

\* A cycle accepts, or a candidate was marked, on the strength of this run.
Trusted(a) ==
    \/ \E c \in Cycles : cyc[c].pc \in Accepting /\ cyc[c].run = a
    \/ \E i \in Lineage : cands[i].run = a

\* A candidate has a promotion run, or a cycle is about to create it.
Chosen(i) ==
    \/ promo[i].status # "absent"
    \/ \E c \in Cycles : cyc[c].pc = "promo_create" /\ cyc[c].cand = i

TrustedOK == \A a \in Attempts : Trusted(a) => verifier[a] \in {"unanswered", "done"}

\* Once a candidate is chosen the task is closed, and no run of another
\* candidate can become the one that a promotion goes by.
ChosenOK ==
    \A i \in Lineage : Chosen(i) =>
        /\ tasks[Original] # "awaiting_verification"
        /\ \A a \in Attempts :
              Trusted(a) /\ runs[a].cand # i => latest # a \/ runs[a].outcome # "PASS"
        /\ \A j \in Lineage : Chosen(j) => j = i

IInv == /\ TypeOK /\ Held /\ RowsOK
        /\ RepairsAreNumbered /\ RejectedAfterAllRepairs
        /\ OneVerificationAtATime /\ LaunchedOK /\ TrustedOK
        /\ OnlyPassedIsPromoted /\ ChosenOK

-----------------------------------------------------------------------------
(***************************************************************************)
(* What a step does to the table of cycles.                                *)
(***************************************************************************)
\* The sets of ids.
LEMMA IdsFacts ==
    /\ Original \in Lineage /\ Repairs \subseteq Lineage
    /\ Original \notin Repairs /\ None \notin Lineage /\ None \notin Attempts
BY BoundsAssumption DEF Original, Lineage, Repairs, None, Attempts

\* What a cycle holds is a row of the table.
LEMMA HoldingFacts ==
    ASSUME NEW pc \in PC, NEW list \in SUBSET Repairs, NEW task \in Lineage \cup {None},
           NEW run \in Attempts \cup {None}, NEW cand \in Lineage \cup {None}
    PROVE  Holding(pc, list, task, run, cand) \in CycleRow
BY DEF Holding, CycleRow

\* The three ways to move a cycle keep the table well-typed.
LEMMA MoveTypes ==
    ASSUME cyc \in [Cycles -> CycleRow], NEW c \in Cycles, NEW pc \in PC
    PROVE  /\ Goto(c, pc) => cyc' \in [Cycles -> CycleRow]
           /\ \A task \in Lineage \cup {None}, run \in Attempts \cup {None},
                 cand \in Lineage \cup {None} :
                 GotoWith(c, pc, task, run, cand) => cyc' \in [Cycles -> CycleRow]
           /\ \A list \in SUBSET Repairs, task \in Lineage \cup {None} :
                 GotoWithList(c, pc, list, task) => cyc' \in [Cycles -> CycleRow]
BY HoldingFacts DEF Goto, GotoWith, GotoWithList, At

\* The points of a cycle and what a row of the table is made of.
LEMMA CycleFacts ==
    ASSUME cyc \in [Cycles -> CycleRow], NEW c \in Cycles
    PROVE  /\ cyc[c].pc \in PC /\ cyc[c].list \in SUBSET Repairs
           /\ cyc[c].task \in Lineage \cup {None} /\ cyc[c].cand \in Lineage \cup {None}
           /\ cyc[c].run \in Attempts \cup {None}
BY DEF CycleRow

\* TypeOK without the table of cycles.
StoreTypes ==
    /\ tasks \in [Lineage -> TaskStatus] /\ because \in [Lineage -> Attempts \cup {None}]
    /\ runs \in [Attempts -> RunRow] /\ latest \in Attempts \cup {None}
    /\ verifier \in [Attempts -> {"idle", "running", "unanswered", "done"}]
    /\ cands \in [Lineage -> CandRow] /\ promo \in [Lineage -> PromoRow]
    /\ pusher \in [Lineage -> PusherRow] /\ branch \in Lineage \cup {None}
    /\ blocked \in BOOLEAN /\ faults \in 0 .. MaxFaults /\ passed \subseteq Lineage

(***************************************************************************)
(* What a step does to a row of the store.                                 *)
(***************************************************************************)
\* completeVerifierRun changes one row.
LEMMA Completes ==
    ASSUME runs \in [Attempts -> RunRow], NEW a \in Attempts, NEW o \in Outcome,
           CompleteRun(a, o)
    PROVE  /\ runs' \in [Attempts -> RunRow] /\ latest' = a
           /\ runs'[a].status = "completed" /\ runs'[a].outcome = o
           /\ runs'[a].cand = runs[a].cand
           /\ \A b \in Attempts : b # a => runs'[b] = runs[b]
BY DEF CompleteRun, RunRow

\* What happens to the workflows of a candidate.
LEMMA PusherMoves ==
    ASSUME pusher \in [Lineage -> PusherRow], NEW i \in Lineage
    PROVE  /\ pusher' = [pusher EXCEPT ![i].queued = @ + 1] =>
                 /\ pusher' \in [Lineage -> PusherRow]
                 /\ pusher'[i].queued > 0 /\ pusher'[i].step = pusher[i].step
                 /\ \A j \in Lineage : j # i => pusher'[j] = pusher[j]
           /\ pusher[i].queued > 0 /\ PusherEnds(i) =>
                 /\ pusher' \in [Lineage -> PusherRow]
                 /\ pusher'[i].step = "idle" /\ pusher'[i].queued <= pusher[i].queued
                 /\ \A j \in Lineage : j # i => pusher'[j] = pusher[j]
           /\ \A s \in {"push", "succeeded", "failed", "mark"} : PusherStep(i, s) =>
                 /\ pusher' \in [Lineage -> PusherRow]
                 /\ pusher'[i].step = s /\ pusher'[i].queued = pusher[i].queued
                 /\ \A j \in Lineage : j # i => pusher'[j] = pusher[j]
BY DEF PusherStep, PusherEnds, PusherRow

\* The numbers given to repairs and attempts are ids, and so are candidates.
LEMMA Numbers ==
    /\ IsFiniteSet(RepairTasks) /\ RepairCount \in Nat
    /\ IsFiniteSet(CompletedRuns) /\ Cardinality(CompletedRuns) \in Nat
    /\ RepairsLeft => RepairCount + 1 \in Repairs /\ RepairCount + 1 <= MaxRepairs
    /\ Cardinality(CompletedRuns) < MaxAttempts => Cardinality(CompletedRuns) \in Attempts
    /\ CandidatesForVerification \subseteq Lineage
<1>1. IsFiniteSet(Repairs) /\ IsFiniteSet(Attempts)
      BY BoundsAssumption, FS_Interval DEF Repairs, Attempts
<1>2. RepairTasks \subseteq Repairs /\ CompletedRuns \subseteq Attempts
      BY DEF RepairTasks, CompletedRuns
<1>3. /\ IsFiniteSet(RepairTasks) /\ RepairCount \in Nat
      /\ IsFiniteSet(CompletedRuns) /\ Cardinality(CompletedRuns) \in Nat
      BY <1>1, <1>2, FS_Subset, FS_CardinalityType DEF RepairCount
<1>4. CandidatesForVerification \subseteq Lineage
      BY IdsFacts DEF CandidatesForVerification, CompletedRepairs
<1>. QED BY <1>3, <1>4, BoundsAssumption DEF RepairsLeft, Repairs, Attempts

\* What no step undoes.
Grows ==
    /\ \A a \in Attempts : runs[a].status # "absent" =>
          /\ runs'[a].status # "absent" /\ runs'[a].cand = runs[a].cand
          /\ runs[a].status = "completed" => runs'[a].status = "completed"
    /\ \A a \in Attempts : verifier[a] \in {"unanswered", "done"} =>
          verifier'[a] \in {"unanswered", "done"}
    /\ \A i \in Repairs :
          /\ tasks[i] # "absent" => tasks'[i] # "absent" /\ because'[i] = because[i]
          /\ tasks[i] \in {"completed", "failed"} => tasks'[i] = tasks[i]
          /\ tasks[i] = "awaiting_verification" =>
                tasks'[i] \in {"awaiting_verification", "completed"}
    /\ tasks[Original] # "awaiting_verification" =>
          tasks'[Original] # "awaiting_verification"
    /\ \A i \in Lineage : promo[i].status # "absent" => promo'[i].status # "absent"
    /\ blocked => blocked'
    /\ passed \subseteq passed'

\* What a change of the store goes back to.
Causes ==
    /\ \A i \in Repairs : tasks[i] = "absent" /\ tasks'[i] # "absent" =>
          \E c \in Cycles : cyc[c].pc = "repair_create" /\ cyc[c].task = i
    /\ tasks[Original] # "failed" /\ tasks'[Original] = "failed" =>
          \E c \in Cycles : cyc[c].pc = "reject_write"
    /\ \A a \in Attempts : runs[a].status = "absent" /\ runs'[a].status # "absent" =>
          \E c \in Cycles : cyc[c].pc = "verify_insert" /\ cyc[c].run = a
    /\ \A a \in Attempts : latest' = a /\ runs'[a].outcome = "PASS" =>
          (latest = a /\ runs[a].outcome = "PASS") \/ verifier[a] = "running"

\* What an acceptance and a promotion go back to.
TrustCauses ==
    \A a \in Attempts : Trusted(a)' =>
        \/ Trusted(a)
        \/ latest = a /\ runs[a].outcome = "PASS" /\ tasks[Original] = "awaiting_verification"

ChoiceCauses ==
    \A i \in Lineage : Chosen(i)' =>
        \/ Chosen(i)
        \/ /\ tasks[Original] = "completed"
           /\ latest \in Attempts /\ runs[latest].outcome = "PASS"
           /\ cands[i].run = latest /\ runs[latest].cand = i
           /\ UNCHANGED <<runs, latest>>

\* The table of cycles keeps its type.
LEMMA CycTypeStep ==
    ASSUME IInv, [Next]_vars
    PROVE  (cyc \in [Cycles -> CycleRow])'
<1> USE DEF storeVars, worldVars, Fault, IInv, TypeOK, Held, HoldsIds, RowsOK
<1>1. CASE UNCHANGED vars BY <1>1 DEF vars, storeVars, worldVars
<1>2. ASSUME NEW c \in Cycles, Start(c) PROVE (cyc \in [Cycles -> CycleRow])'
      BY <1>2, IdsFacts, MoveTypes, CycleFacts DEF Start, PC
<1>3. ASSUME NEW c \in Cycles, AcceptRepair(c) PROVE (cyc \in [Cycles -> CycleRow])'
      BY <1>3, IdsFacts, MoveTypes, CycleFacts DEF AcceptRepair, PC, Throw
<1>4. ASSUME NEW c \in Cycles, AcceptRepairWrite(c) PROVE (cyc \in [Cycles -> CycleRow])'
      BY <1>4, IdsFacts, MoveTypes, CycleFacts DEF AcceptRepairWrite,
         VerdictStatus, PC
<1>5. ASSUME NEW c \in Cycles, Verify(c) PROVE (cyc \in [Cycles -> CycleRow])'
      BY <1>5, IdsFacts, MoveTypes, CycleFacts, Numbers DEF Verify, PC
<1>6. ASSUME NEW c \in Cycles, VerifyInsert(c) PROVE (cyc \in [Cycles -> CycleRow])'
      BY <1>6, IdsFacts, MoveTypes, CycleFacts DEF VerifyInsert, RunIsNew, PC,
         Throw
<1>7. ASSUME NEW c \in Cycles, VerifyLaunch(c) PROVE (cyc \in [Cycles -> CycleRow])'
      BY <1>7, IdsFacts, MoveTypes, CycleFacts DEF VerifyLaunch, PC
<1>8. ASSUME NEW c \in Cycles, VerifyFail(c) PROVE (cyc \in [Cycles -> CycleRow])'
      BY <1>8, IdsFacts, MoveTypes, CycleFacts DEF VerifyFail, CompleteRun, PC
<1>9. ASSUME NEW c \in Cycles, Accept(c) PROVE (cyc \in [Cycles -> CycleRow])'
      BY <1>9, IdsFacts, MoveTypes, CycleFacts DEF Accept, LatestOutcome, PC
<1>10. ASSUME NEW c \in Cycles, AcceptCheck(c) PROVE (cyc \in [Cycles -> CycleRow])'
      BY <1>10, IdsFacts, MoveTypes, CycleFacts DEF AcceptCheck, PC, Throw
<1>11. ASSUME NEW c \in Cycles, AcceptWrite(c) PROVE (cyc \in [Cycles -> CycleRow])'
      BY <1>11, IdsFacts, MoveTypes, CycleFacts DEF AcceptWrite,
         VerdictStatus, PC
<1>12. ASSUME NEW c \in Cycles, MarkRead(c) PROVE (cyc \in [Cycles -> CycleRow])'
      BY <1>12, IdsFacts, MoveTypes, CycleFacts DEF MarkRead, JudgedCandidate,
         PC, RunRow, Accepting
<1>13. ASSUME NEW c \in Cycles, MarkWrite(c) PROVE (cyc \in [Cycles -> CycleRow])'
      BY <1>13, IdsFacts, MoveTypes, CycleFacts DEF MarkWrite, EligibleBy, PC
<1>14. ASSUME NEW c \in Cycles, Promote(c) PROVE (cyc \in [Cycles -> CycleRow])'
      BY <1>14, IdsFacts, MoveTypes, CycleFacts DEF Promote,
         EligibleCandidates, PC, CandRow
<1>15. ASSUME NEW c \in Cycles, PromoCreate(c) PROVE (cyc \in [Cycles -> CycleRow])'
      BY <1>15, IdsFacts, MoveTypes, CycleFacts DEF PromoCreate, PC, Throw
<1>16. ASSUME NEW c \in Cycles, PromoLaunch(c) PROVE (cyc \in [Cycles -> CycleRow])'
      BY <1>16, IdsFacts, MoveTypes, CycleFacts DEF PromoLaunch, PC
<1>17. ASSUME NEW c \in Cycles, PromoFail(c) PROVE (cyc \in [Cycles -> CycleRow])'
      BY <1>17, IdsFacts, MoveTypes, CycleFacts DEF PromoFail, PC
<1>18. ASSUME NEW c \in Cycles, Repair(c) PROVE (cyc \in [Cycles -> CycleRow])'
      BY <1>18, IdsFacts, MoveTypes, CycleFacts, Numbers DEF Repair, PC
<1>19. ASSUME NEW c \in Cycles, RepairCreate(c) PROVE (cyc \in [Cycles -> CycleRow])'
      BY <1>19, IdsFacts, MoveTypes, CycleFacts DEF RepairCreate, RepairIsNew,
         PC, Throw
<1>20. ASSUME NEW c \in Cycles, Exhaust(c) PROVE (cyc \in [Cycles -> CycleRow])'
      BY <1>20, IdsFacts, MoveTypes, CycleFacts DEF Exhaust, AfterBlocker, PC,
         PendingRepairs, RepairTasks
<1>21. ASSUME NEW c \in Cycles, BlockerCreate(c) PROVE (cyc \in [Cycles -> CycleRow])'
      BY <1>21, IdsFacts, MoveTypes, CycleFacts DEF BlockerCreate,
         AfterBlocker, PC
<1>22. ASSUME NEW c \in Cycles, RejectCheck(c) PROVE (cyc \in [Cycles -> CycleRow])'
      BY <1>22, IdsFacts, MoveTypes, CycleFacts DEF RejectCheck, PC, Throw
<1>23. ASSUME NEW c \in Cycles, RejectWrite(c) PROVE (cyc \in [Cycles -> CycleRow])'
      BY <1>23, IdsFacts, MoveTypes, CycleFacts DEF RejectWrite,
         VerdictStatus, PC
<1>24. ASSUME NEW c \in Cycles, CycleCrash(c) PROVE (cyc \in [Cycles -> CycleRow])'
      BY <1>24, IdsFacts, MoveTypes, CycleFacts DEF CycleCrash, PC, Throw
<1>25. ASSUME NEW i \in Repairs, RepairSucceeds(i) PROVE (cyc \in [Cycles -> CycleRow])'
      BY <1>25, IdsFacts, MoveTypes, CycleFacts DEF RepairSucceeds
<1>26. ASSUME NEW i \in Repairs, RepairFails(i) PROVE (cyc \in [Cycles -> CycleRow])'
      BY <1>26, IdsFacts, MoveTypes, CycleFacts DEF RepairFails
<1>27. ASSUME NEW a \in Attempts, NEW o \in {"PASS", "FAIL"}, VerifierAnswers(a, o) PROVE (cyc \in [Cycles -> CycleRow])'
      BY <1>27, IdsFacts, MoveTypes, CycleFacts DEF VerifierAnswers,
         CompleteRun
<1>28. ASSUME NEW a \in Attempts, VerifierErrs(a) PROVE (cyc \in [Cycles -> CycleRow])'
      BY <1>28, IdsFacts, MoveTypes, CycleFacts DEF VerifierErrs, CompleteRun
<1>29. ASSUME NEW a \in Attempts, VerifierDies(a) PROVE (cyc \in [Cycles -> CycleRow])'
      BY <1>29, IdsFacts, MoveTypes, CycleFacts DEF VerifierDies
<1>30. ASSUME NEW i \in Lineage, PromotionStarts(i) PROVE (cyc \in [Cycles -> CycleRow])'
      BY <1>30, IdsFacts, MoveTypes, CycleFacts DEF PromotionStarts,
         PusherStep, PusherEnds
<1>31. ASSUME NEW i \in Lineage, PromotionPushes(i) PROVE (cyc \in [Cycles -> CycleRow])'
      BY <1>31, IdsFacts, MoveTypes, CycleFacts DEF PromotionPushes,
         PusherStep
<1>32. ASSUME NEW i \in Lineage, PromotionReports(i) PROVE (cyc \in [Cycles -> CycleRow])'
      BY <1>32, IdsFacts, MoveTypes, CycleFacts DEF PromotionReports,
         PusherStep, PusherEnds
<1>33. ASSUME NEW i \in Lineage, PromotionMarks(i) PROVE (cyc \in [Cycles -> CycleRow])'
      BY <1>33, IdsFacts, MoveTypes, CycleFacts DEF PromotionMarks, PusherEnds
<1>34. ASSUME NEW i \in Lineage, PromotionDies(i) PROVE (cyc \in [Cycles -> CycleRow])'
      BY <1>34, IdsFacts, MoveTypes, CycleFacts DEF PromotionDies, PusherEnds
<1>. QED BY <1>1, <1>2, <1>3, <1>4, <1>5, <1>6, <1>7, <1>8, <1>9, <1>10,
   <1>11, <1>12, <1>13, <1>14, <1>15, <1>16, <1>17, <1>18, <1>19, <1>20,
   <1>21, <1>22, <1>23, <1>24, <1>25, <1>26, <1>27, <1>28, <1>29, <1>30,
   <1>31, <1>32, <1>33, <1>34, SMTT(30) DEF Next, CycleStep, VerifierStep,
   PromotionStep

\* The store and the workflows keep their types.
LEMMA StoreTypeStep ==
    ASSUME IInv, [Next]_vars
    PROVE  StoreTypes'
<1> USE DEF storeVars, worldVars, Fault, IInv, TypeOK, StoreTypes, Held,
   HoldsIds, RowsOK, Launching, Accepting, Promoting
<1>1. CASE UNCHANGED vars BY <1>1 DEF vars, storeVars, worldVars
<1>2. ASSUME NEW c \in Cycles, Start(c) PROVE StoreTypes'
      BY <1>2, BoundsAssumption, IdsFacts, CycleFacts DEF Start
<1>3. ASSUME NEW c \in Cycles, AcceptRepair(c) PROVE StoreTypes'
      BY <1>3, BoundsAssumption, IdsFacts, CycleFacts DEF AcceptRepair
<1>4. ASSUME NEW c \in Cycles, AcceptRepairWrite(c) PROVE StoreTypes'
      BY <1>4, BoundsAssumption, IdsFacts, CycleFacts DEF AcceptRepairWrite,
         VerdictStatus, TaskStatus
<1>5. ASSUME NEW c \in Cycles, Verify(c) PROVE StoreTypes'
      BY <1>5, BoundsAssumption, IdsFacts, CycleFacts DEF Verify
<1>6. ASSUME NEW c \in Cycles, VerifyInsert(c) PROVE StoreTypes'
      BY <1>6, BoundsAssumption, IdsFacts, CycleFacts DEF VerifyInsert,
         RunIsNew, RunRow, Outcome
<1>7. ASSUME NEW c \in Cycles, VerifyLaunch(c) PROVE StoreTypes'
      BY <1>7, BoundsAssumption, IdsFacts, CycleFacts DEF VerifyLaunch
<1>8. ASSUME NEW c \in Cycles, VerifyFail(c) PROVE StoreTypes'
      BY <1>8, BoundsAssumption, IdsFacts, CycleFacts, Completes DEF
         VerifyFail, Outcome
<1>9. ASSUME NEW c \in Cycles, Accept(c) PROVE StoreTypes'
      BY <1>9, BoundsAssumption, IdsFacts, CycleFacts DEF Accept,
         LatestOutcome
<1>10. ASSUME NEW c \in Cycles, AcceptCheck(c) PROVE StoreTypes'
      BY <1>10, BoundsAssumption, IdsFacts, CycleFacts DEF AcceptCheck
<1>11. ASSUME NEW c \in Cycles, AcceptWrite(c) PROVE StoreTypes'
      BY <1>11, BoundsAssumption, IdsFacts, CycleFacts DEF AcceptWrite,
         VerdictStatus, TaskStatus
<1>12. ASSUME NEW c \in Cycles, MarkRead(c) PROVE StoreTypes'
      BY <1>12, BoundsAssumption, IdsFacts, CycleFacts DEF MarkRead,
         JudgedCandidate
<1>13. ASSUME NEW c \in Cycles, MarkWrite(c) PROVE StoreTypes'
      BY <1>13, BoundsAssumption, IdsFacts, CycleFacts DEF MarkWrite,
         EligibleBy, CandRow
<1>14. ASSUME NEW c \in Cycles, Promote(c) PROVE StoreTypes'
      BY <1>14, BoundsAssumption, IdsFacts, CycleFacts DEF Promote,
         EligibleCandidates
<1>15. ASSUME NEW c \in Cycles, PromoCreate(c) PROVE StoreTypes'
      BY <1>15, BoundsAssumption, IdsFacts, CycleFacts DEF PromoCreate,
         PromoRow
<1>16. ASSUME NEW c \in Cycles, PromoLaunch(c) PROVE StoreTypes'
      BY <1>16, BoundsAssumption, IdsFacts, CycleFacts, PusherMoves DEF
         PromoLaunch
<1>17. ASSUME NEW c \in Cycles, PromoFail(c) PROVE StoreTypes'
      BY <1>17, BoundsAssumption, IdsFacts, CycleFacts, SMTT(30) DEF
         PromoFail, PromoRow
<1>18. ASSUME NEW c \in Cycles, Repair(c) PROVE StoreTypes'
      BY <1>18, BoundsAssumption, IdsFacts, CycleFacts DEF Repair
<1>19. ASSUME NEW c \in Cycles, RepairCreate(c) PROVE StoreTypes'
      BY <1>19, BoundsAssumption, IdsFacts, CycleFacts DEF RepairCreate,
         RepairIsNew, TaskStatus
<1>20. ASSUME NEW c \in Cycles, Exhaust(c) PROVE StoreTypes'
      BY <1>20, BoundsAssumption, IdsFacts, CycleFacts DEF Exhaust,
         AfterBlocker
<1>21. ASSUME NEW c \in Cycles, BlockerCreate(c) PROVE StoreTypes'
      BY <1>21, BoundsAssumption, IdsFacts, CycleFacts DEF BlockerCreate,
         AfterBlocker
<1>22. ASSUME NEW c \in Cycles, RejectCheck(c) PROVE StoreTypes'
      BY <1>22, BoundsAssumption, IdsFacts, CycleFacts DEF RejectCheck
<1>23. ASSUME NEW c \in Cycles, RejectWrite(c) PROVE StoreTypes'
      BY <1>23, BoundsAssumption, IdsFacts, CycleFacts DEF RejectWrite,
         VerdictStatus, TaskStatus
<1>24. ASSUME NEW c \in Cycles, CycleCrash(c) PROVE StoreTypes'
      BY <1>24, BoundsAssumption, IdsFacts, CycleFacts DEF CycleCrash
<1>25. ASSUME NEW i \in Repairs, RepairSucceeds(i) PROVE StoreTypes'
      BY <1>25, BoundsAssumption, IdsFacts, CycleFacts DEF RepairSucceeds,
         TaskStatus, CandRow
<1>26. ASSUME NEW i \in Repairs, RepairFails(i) PROVE StoreTypes'
      BY <1>26, BoundsAssumption, IdsFacts, CycleFacts DEF RepairFails,
         TaskStatus
<1>27. ASSUME NEW a \in Attempts, NEW o \in {"PASS", "FAIL"}, VerifierAnswers(a, o) PROVE StoreTypes'
      BY <1>27, BoundsAssumption, IdsFacts, CycleFacts, Completes DEF
         VerifierAnswers, RunRow, Outcome
<1>28. ASSUME NEW a \in Attempts, VerifierErrs(a) PROVE StoreTypes'
      BY <1>28, BoundsAssumption, IdsFacts, CycleFacts, Completes DEF
         VerifierErrs, Outcome
<1>29. ASSUME NEW a \in Attempts, VerifierDies(a) PROVE StoreTypes'
      BY <1>29, BoundsAssumption, IdsFacts, CycleFacts DEF VerifierDies
<1>30. ASSUME NEW i \in Lineage, PromotionStarts(i) PROVE StoreTypes'
      BY <1>30, BoundsAssumption, IdsFacts, CycleFacts, PusherMoves DEF
         PromotionStarts
<1>31. ASSUME NEW i \in Lineage, PromotionPushes(i) PROVE StoreTypes'
      BY <1>31, BoundsAssumption, IdsFacts, CycleFacts, PusherMoves DEF
         PromotionPushes
<1>32. ASSUME NEW i \in Lineage, PromotionReports(i) PROVE StoreTypes'
      <2>1. pusher[i].step \in {"succeeded", "failed"} /\ pusher[i].queued > 0
            BY <1>32 DEF PromotionReports
      <2>2. pusher' \in [Lineage -> PusherRow]
            BY <1>32, <2>1, PusherMoves DEF PromotionReports
      <2>3. [promo EXCEPT ![i].status = pusher[i].step] \in [Lineage -> PromoRow]
            BY <2>1 DEF PromoRow
      <2>. QED BY <1>32, <2>2, <2>3 DEF PromotionReports
<1>33. ASSUME NEW i \in Lineage, PromotionMarks(i) PROVE StoreTypes'
      <2>1. pusher[i].queued > 0
            BY <1>33 DEF PromotionMarks
      <2>2. pusher' \in [Lineage -> PusherRow]
            BY <1>33, <2>1, PusherMoves DEF PromotionMarks
      <2>. QED BY <1>33, <2>2 DEF PromotionMarks, CandRow
<1>34. ASSUME NEW i \in Lineage, PromotionDies(i) PROVE StoreTypes'
      BY <1>34, BoundsAssumption, IdsFacts, CycleFacts, PusherMoves DEF
         PromotionDies
<1>. QED BY <1>1, <1>2, <1>3, <1>4, <1>5, <1>6, <1>7, <1>8, <1>9, <1>10,
   <1>11, <1>12, <1>13, <1>14, <1>15, <1>16, <1>17, <1>18, <1>19, <1>20,
   <1>21, <1>22, <1>23, <1>24, <1>25, <1>26, <1>27, <1>28, <1>29, <1>30,
   <1>31, <1>32, <1>33, <1>34, SMTT(30) DEF Next, CycleStep, VerifierStep,
   PromotionStep

\* Type correctness is preserved.
LEMMA TypeStep ==
    ASSUME IInv, [Next]_vars
    PROVE  TypeOK'
BY CycTypeStep, StoreTypeStep DEF StoreTypes, TypeOK

\* No step undoes what Grows lists.
LEMMA NothingIsUndone ==
    ASSUME IInv, [Next]_vars
    PROVE  Grows
<1> USE DEF storeVars, worldVars, Fault, IInv, TypeOK, Held, HoldsIds,
   HoldsReads, LaunchedOK, Launching, Promoting, Grows
<1>1. CASE UNCHANGED vars BY <1>1 DEF vars, storeVars, worldVars
<1>2. ASSUME NEW c \in Cycles, Start(c) PROVE Grows
      BY <1>2, IdsFacts, CycleFacts DEF Start
<1>3. ASSUME NEW c \in Cycles, AcceptRepair(c) PROVE Grows
      BY <1>3, IdsFacts, CycleFacts DEF AcceptRepair
<1>4. ASSUME NEW c \in Cycles, AcceptRepairWrite(c) PROVE Grows
      BY <1>4, IdsFacts, CycleFacts DEF AcceptRepairWrite, VerdictStatus
<1>5. ASSUME NEW c \in Cycles, Verify(c) PROVE Grows
      BY <1>5, IdsFacts, CycleFacts DEF Verify
<1>6. ASSUME NEW c \in Cycles, VerifyInsert(c) PROVE Grows
      <2>1. \A a \in Attempts : runs[a].status # "absent" => runs'[a] = runs[a]
            BY <1>6 DEF VerifyInsert, RunIsNew
      <2>2. UNCHANGED <<tasks, because, promo, blocked, verifier, passed>>
            BY <1>6 DEF VerifyInsert
      <2>. QED BY <2>1, <2>2, IdsFacts
<1>7. ASSUME NEW c \in Cycles, VerifyLaunch(c) PROVE Grows
      BY <1>7, IdsFacts, CycleFacts DEF VerifyLaunch
<1>8. ASSUME NEW c \in Cycles, VerifyFail(c) PROVE Grows
      BY <1>8, IdsFacts, CycleFacts, Completes DEF VerifyFail, Outcome
<1>9. ASSUME NEW c \in Cycles, Accept(c) PROVE Grows
      BY <1>9, IdsFacts, CycleFacts DEF Accept, LatestOutcome
<1>10. ASSUME NEW c \in Cycles, AcceptCheck(c) PROVE Grows
      BY <1>10, IdsFacts, CycleFacts DEF AcceptCheck
<1>11. ASSUME NEW c \in Cycles, AcceptWrite(c) PROVE Grows
      BY <1>11, IdsFacts, CycleFacts DEF AcceptWrite, VerdictStatus
<1>12. ASSUME NEW c \in Cycles, MarkRead(c) PROVE Grows
      BY <1>12, IdsFacts, CycleFacts DEF MarkRead, JudgedCandidate
<1>13. ASSUME NEW c \in Cycles, MarkWrite(c) PROVE Grows
      BY <1>13, IdsFacts, CycleFacts DEF MarkWrite, EligibleBy
<1>14. ASSUME NEW c \in Cycles, Promote(c) PROVE Grows
      BY <1>14, IdsFacts, CycleFacts DEF Promote, EligibleCandidates
<1>15. ASSUME NEW c \in Cycles, PromoCreate(c) PROVE Grows
      BY <1>15, IdsFacts, CycleFacts DEF PromoCreate
<1>16. ASSUME NEW c \in Cycles, PromoLaunch(c) PROVE Grows
      BY <1>16, IdsFacts, CycleFacts DEF PromoLaunch
<1>17. ASSUME NEW c \in Cycles, PromoFail(c) PROVE Grows
      BY <1>17, IdsFacts, CycleFacts DEF PromoFail
<1>18. ASSUME NEW c \in Cycles, Repair(c) PROVE Grows
      BY <1>18, IdsFacts, CycleFacts DEF Repair
<1>19. ASSUME NEW c \in Cycles, RepairCreate(c) PROVE Grows
      BY <1>19, IdsFacts, CycleFacts DEF RepairCreate, RepairIsNew
<1>20. ASSUME NEW c \in Cycles, Exhaust(c) PROVE Grows
      BY <1>20, IdsFacts, CycleFacts DEF Exhaust, AfterBlocker
<1>21. ASSUME NEW c \in Cycles, BlockerCreate(c) PROVE Grows
      BY <1>21, IdsFacts, CycleFacts DEF BlockerCreate, AfterBlocker
<1>22. ASSUME NEW c \in Cycles, RejectCheck(c) PROVE Grows
      BY <1>22, IdsFacts, CycleFacts DEF RejectCheck
<1>23. ASSUME NEW c \in Cycles, RejectWrite(c) PROVE Grows
      BY <1>23, IdsFacts, CycleFacts DEF RejectWrite, VerdictStatus
<1>24. ASSUME NEW c \in Cycles, CycleCrash(c) PROVE Grows
      BY <1>24, IdsFacts, CycleFacts DEF CycleCrash
<1>25. ASSUME NEW i \in Repairs, RepairSucceeds(i) PROVE Grows
      BY <1>25, IdsFacts, CycleFacts DEF RepairSucceeds
<1>26. ASSUME NEW i \in Repairs, RepairFails(i) PROVE Grows
      BY <1>26, IdsFacts, CycleFacts DEF RepairFails
<1>27. ASSUME NEW a \in Attempts, NEW o \in {"PASS", "FAIL"}, VerifierAnswers(a, o) PROVE Grows
      BY <1>27, IdsFacts, CycleFacts, Completes DEF VerifierAnswers, Outcome
<1>28. ASSUME NEW a \in Attempts, VerifierErrs(a) PROVE Grows
      BY <1>28, IdsFacts, CycleFacts, Completes DEF VerifierErrs, Outcome
<1>29. ASSUME NEW a \in Attempts, VerifierDies(a) PROVE Grows
      BY <1>29, IdsFacts, CycleFacts DEF VerifierDies
<1>30. ASSUME NEW i \in Lineage, PromotionStarts(i) PROVE Grows
      BY <1>30, IdsFacts, CycleFacts DEF PromotionStarts
<1>31. ASSUME NEW i \in Lineage, PromotionPushes(i) PROVE Grows
      BY <1>31, IdsFacts, CycleFacts DEF PromotionPushes
<1>32. ASSUME NEW i \in Lineage, PromotionReports(i) PROVE Grows
      <2>1. pusher[i].step # "absent"
            BY <1>32 DEF PromotionReports
      <2>2. \A j \in Lineage : promo[j].status # "absent" => promo'[j].status # "absent"
            BY <1>32, <2>1 DEF PromotionReports, PromoRow
      <2>. QED BY <1>32, <2>2 DEF PromotionReports
<1>33. ASSUME NEW i \in Lineage, PromotionMarks(i) PROVE Grows
      BY <1>33, IdsFacts, CycleFacts DEF PromotionMarks
<1>34. ASSUME NEW i \in Lineage, PromotionDies(i) PROVE Grows
      BY <1>34, IdsFacts, CycleFacts DEF PromotionDies
<1>. QED BY <1>1, <1>2, <1>3, <1>4, <1>5, <1>6, <1>7, <1>8, <1>9, <1>10,
   <1>11, <1>12, <1>13, <1>14, <1>15, <1>16, <1>17, <1>18, <1>19, <1>20,
   <1>21, <1>22, <1>23, <1>24, <1>25, <1>26, <1>27, <1>28, <1>29, <1>30,
   <1>31, <1>32, <1>33, <1>34, SMTT(30) DEF Next, CycleStep, VerifierStep,
   PromotionStep

\* A step of a cycle moves that cycle only.
LEMMA OthersStay ==
    ASSUME IInv, NEW c \in Cycles, CycleStep(c) \/ CycleCrash(c)
    PROVE  \A d \in Cycles : d # c => cyc'[d] = cyc[d]
<1> USE DEF IInv, TypeOK, Goto, GotoWith, GotoWithList, Throw, At, Holding
<1>1. CASE Start(c)
      BY <1>1 DEF Start
<1>2. CASE AcceptRepair(c)
      BY <1>2 DEF AcceptRepair
<1>3. CASE AcceptRepairWrite(c)
      BY <1>3 DEF AcceptRepairWrite, VerdictStatus
<1>4. CASE Verify(c)
      BY <1>4 DEF Verify
<1>5. CASE VerifyInsert(c)
      BY <1>5 DEF VerifyInsert, RunIsNew
<1>6. CASE VerifyLaunch(c)
      BY <1>6 DEF VerifyLaunch
<1>7. CASE VerifyFail(c)
      BY <1>7 DEF VerifyFail
<1>8. CASE Accept(c)
      BY <1>8 DEF Accept, LatestOutcome
<1>9. CASE AcceptCheck(c)
      BY <1>9 DEF AcceptCheck
<1>10. CASE AcceptWrite(c)
      BY <1>10 DEF AcceptWrite, VerdictStatus
<1>11. CASE MarkRead(c)
      BY <1>11 DEF MarkRead, JudgedCandidate
<1>12. CASE MarkWrite(c)
      BY <1>12 DEF MarkWrite, EligibleBy
<1>13. CASE Promote(c)
      BY <1>13 DEF Promote, EligibleCandidates
<1>14. CASE PromoCreate(c)
      BY <1>14 DEF PromoCreate
<1>15. CASE PromoLaunch(c)
      BY <1>15 DEF PromoLaunch
<1>16. CASE PromoFail(c)
      BY <1>16 DEF PromoFail
<1>17. CASE Repair(c)
      BY <1>17 DEF Repair
<1>18. CASE RepairCreate(c)
      BY <1>18 DEF RepairCreate, RepairIsNew
<1>19. CASE Exhaust(c)
      BY <1>19 DEF Exhaust, AfterBlocker
<1>20. CASE BlockerCreate(c)
      BY <1>20 DEF BlockerCreate, AfterBlocker
<1>21. CASE RejectCheck(c)
      BY <1>21 DEF RejectCheck
<1>22. CASE RejectWrite(c)
      BY <1>22 DEF RejectWrite, VerdictStatus
<1>23. CASE CycleCrash(c)
      BY <1>23 DEF CycleCrash
<1>. QED BY <1>1, <1>2, <1>3, <1>4, <1>5, <1>6, <1>7, <1>8, <1>9, <1>10,
   <1>11, <1>12, <1>13, <1>14, <1>15, <1>16, <1>17, <1>18, <1>19, <1>20,
   <1>21, <1>22, <1>23, SMTT(30) DEF CycleStep

\* The cycle that moves holds ids of rows.
LEMMA OwnIds ==
    ASSUME IInv, NEW c \in Cycles, CycleStep(c) \/ CycleCrash(c)
    PROVE  HoldsIds(c)'
<1> USE DEF storeVars, worldVars, Fault, Goto, GotoWith, GotoWithList, Throw,
   At, Holding, IInv, TypeOK, Held, HoldsIds, RowsOK, Launching, Accepting,
   Promoting
<1>1. CASE Start(c)
      BY <1>1 DEF Start
<1>2. CASE AcceptRepair(c)
      BY <1>2, CycleFacts DEF AcceptRepair
<1>3. CASE AcceptRepairWrite(c)
      BY <1>3 DEF AcceptRepairWrite, VerdictStatus
<1>4. CASE Verify(c)
      BY <1>4, Numbers DEF Verify, LatestOutcome
<1>5. CASE VerifyInsert(c)
      BY <1>5 DEF VerifyInsert, RunIsNew
<1>6. CASE VerifyLaunch(c)
      BY <1>6 DEF VerifyLaunch
<1>7. CASE VerifyFail(c)
      BY <1>7, Completes DEF VerifyFail, Outcome
<1>8. CASE Accept(c)
      BY <1>8 DEF Accept, LatestOutcome
<1>9. CASE AcceptCheck(c)
      BY <1>9 DEF AcceptCheck
<1>10. CASE AcceptWrite(c)
      BY <1>10 DEF AcceptWrite, VerdictStatus
<1>11. CASE MarkRead(c)
      BY <1>11 DEF MarkRead, JudgedCandidate, RunRow
<1>12. CASE MarkWrite(c)
      BY <1>12 DEF MarkWrite, EligibleBy
<1>13. CASE Promote(c)
      BY <1>13 DEF Promote, EligibleCandidates, CandRow, LatestOutcome
<1>14. CASE PromoCreate(c)
      BY <1>14 DEF PromoCreate
<1>15. CASE PromoLaunch(c)
      BY <1>15 DEF PromoLaunch
<1>16. CASE PromoFail(c)
      BY <1>16 DEF PromoFail
<1>17. CASE Repair(c)
      BY <1>17, Numbers DEF Repair, LatestOutcome
<1>18. CASE RepairCreate(c)
      BY <1>18 DEF RepairCreate, RepairIsNew
<1>19. CASE Exhaust(c)
      BY <1>19 DEF Exhaust, AfterBlocker
<1>20. CASE BlockerCreate(c)
      BY <1>20 DEF BlockerCreate, AfterBlocker
<1>21. CASE RejectCheck(c)
      BY <1>21 DEF RejectCheck
<1>22. CASE RejectWrite(c)
      BY <1>22 DEF RejectWrite, VerdictStatus
<1>23. CASE CycleCrash(c)
      BY <1>23 DEF CycleCrash
<1>. QED BY <1>1, <1>2, <1>3, <1>4, <1>5, <1>6, <1>7, <1>8, <1>9, <1>10,
   <1>11, <1>12, <1>13, <1>14, <1>15, <1>16, <1>17, <1>18, <1>19, <1>20,
   <1>21, <1>22, <1>23, SMTT(30) DEF CycleStep

\* With no run pending, the runs below the next attempt are all completed:
\* otherwise the completed ones would all lie below a gap, and be too few.
LEMMA NextVerification ==
    ASSUME IInv, ~PendingRun, Cardinality(CompletedRuns) \in Attempts
    PROVE  VerifiedBefore(Cardinality(CompletedRuns))
<1> DEFINE n == Cardinality(CompletedRuns)
<1>1. SUFFICES ASSUME NEW b \in 0 .. (n - 1), runs[b].status # "completed" PROVE FALSE
      BY DEF VerifiedBefore
<1>2. n \in Nat /\ b \in Nat /\ b < n /\ b \in Attempts
      BY <1>1, Numbers, BoundsAssumption DEF Attempts
<1>3. runs[b].status = "absent"
      BY <1>1, <1>2 DEF PendingRun, IInv, TypeOK, RunRow
<1>4. CompletedRuns \subseteq 0 .. (b - 1)
  <2>1. SUFFICES ASSUME NEW a \in CompletedRuns, a \notin 0 .. (b - 1) PROVE FALSE
        OBVIOUS
  <2>2. a \in Attempts /\ runs[a].status = "completed"
        BY DEF CompletedRuns
  <2>3. a = b \/ b \in 0 .. (a - 1)
        BY <1>2, <2>1, <2>2 DEF Attempts
  <2>. QED BY <1>1, <2>2, <2>3 DEF IInv, OneVerificationAtATime
<1>5. IsFiniteSet(0 .. (b - 1)) /\ Cardinality(0 .. (b - 1)) = b
  <2>1. 0 \in Int /\ b - 1 \in Int
        BY <1>2
  <2>2. /\ IsFiniteSet(0 .. (b - 1))
        /\ Cardinality(0 .. (b - 1)) = IF 0 > b - 1 THEN 0 ELSE (b - 1) - 0 + 1
        BY ONLY <2>1, FS_Interval
  <2>. QED BY <1>2, <2>2
<1>6. n <= b
      BY ONLY <1>4, <1>5, FS_Subset
<1>. QED BY <1>2, <1>6

\* At the threshold, with no repair pending, every repair is completed.
LEMMA RepairsUsedUp ==
    ASSUME IInv, ~RepairsLeft, PendingRepairs = {}
    PROVE  AllRepaired
<1>1. RepairCount = MaxRepairs
      BY Numbers, BoundsAssumption DEF RepairsLeft, IInv, RepairsAreNumbered
<1>. QED BY <1>1 DEF PendingRepairs, CompletedRepairs, AllRepaired, IInv, RepairsAreNumbered

\* The cycle that moves has read what HoldsReads says.
LEMMA OwnReads ==
    ASSUME IInv, NEW c \in Cycles, CycleStep(c) \/ CycleCrash(c)
    PROVE  HoldsReads(c)'
<1> USE DEF storeVars, worldVars, Fault, Goto, GotoWith, GotoWithList, Throw,
   At, Holding, IInv, TypeOK, Held, HoldsIds, HoldsReads, RowsOK, Launching,
   Accepting, Promoting, Rejecting
<1>1. CASE Start(c)
      BY <1>1 DEF Start
<1>2. CASE AcceptRepair(c)
      BY <1>2, CycleFacts DEF AcceptRepair
<1>3. CASE AcceptRepairWrite(c)
      BY <1>3 DEF AcceptRepairWrite, VerdictStatus
<1>4. CASE Verify(c)
      <2>1. CASE cyc'[c].pc = "verify_insert"
        <3>1. ~PendingRun /\ Cardinality(CompletedRuns) \in Attempts
              BY <1>4, <2>1, Numbers DEF Verify
        <3>2. cyc'[c].run = Cardinality(CompletedRuns) /\ UNCHANGED runs
              BY <1>4, <2>1 DEF Verify
        <3>3. VerifiedBefore(cyc'[c].run)
              BY <3>1, <3>2, NextVerification
        <3>. QED BY <2>1, <3>2, <3>3 DEF VerifiedBefore
      <2>2. CASE cyc'[c].pc = "accept"
            BY <2>2
      <2>. QED BY <1>4, <2>1, <2>2 DEF Verify
<1>5. CASE VerifyInsert(c)
      BY <1>5 DEF VerifyInsert, RunIsNew
<1>6. CASE VerifyLaunch(c)
      BY <1>6 DEF VerifyLaunch
<1>7. CASE VerifyFail(c)
      BY <1>7 DEF VerifyFail, Outcome
<1>8. CASE Accept(c)
      BY <1>8 DEF Accept, LatestOutcome
<1>9. CASE AcceptCheck(c)
      BY <1>9 DEF AcceptCheck
<1>10. CASE AcceptWrite(c)
      BY <1>10 DEF AcceptWrite, VerdictStatus
<1>11. CASE MarkRead(c)
      BY <1>11 DEF MarkRead, JudgedCandidate, RunRow, LaunchedOK
<1>12. CASE MarkWrite(c)
      BY <1>12 DEF MarkWrite, EligibleBy
<1>13. CASE Promote(c)
      BY <1>13 DEF Promote, EligibleCandidates, CandRow, LatestOutcome,
         OnlyPassedIsPromoted
<1>14. CASE PromoCreate(c)
      BY <1>14 DEF PromoCreate, PromoRow
<1>15. CASE PromoLaunch(c)
      BY <1>15 DEF PromoLaunch
<1>16. CASE PromoFail(c)
      BY <1>16 DEF PromoFail, PromoRow
<1>17. CASE Repair(c)
      BY <1>17, Numbers DEF Repair, LatestOutcome, RepairsAreNumbered,
         RepairTasks
<1>18. CASE RepairCreate(c)
      BY <1>18 DEF RepairCreate, RepairIsNew
<1>19. CASE Exhaust(c)
      BY <1>19, RepairsUsedUp DEF Exhaust, AfterBlocker, Rejecting,
         AllRepaired
<1>20. CASE BlockerCreate(c)
      BY <1>20 DEF BlockerCreate, AfterBlocker, Rejecting, AllRepaired
<1>21. CASE RejectCheck(c)
      BY <1>21 DEF RejectCheck, Rejecting, AllRepaired
<1>22. CASE RejectWrite(c)
      BY <1>22 DEF RejectWrite, VerdictStatus
<1>23. CASE CycleCrash(c)
      BY <1>23 DEF CycleCrash
<1>. QED BY <1>1, <1>2, <1>3, <1>4, <1>5, <1>6, <1>7, <1>8, <1>9, <1>10,
   <1>11, <1>12, <1>13, <1>14, <1>15, <1>16, <1>17, <1>18, <1>19, <1>20,
   <1>21, <1>22, <1>23, SMTT(30) DEF CycleStep

\* What a cycle holds survives a step that is not its own.
LEMMA HeldKept ==
    ASSUME IInv, Grows, NEW d \in Cycles, cyc'[d] = cyc[d]
    PROVE  HoldsIds(d)' /\ HoldsReads(d)'
<1>1. HoldsIds(d)'
      BY DEF IInv, Held, HoldsIds, Grows
<1>2. VerifiedBefore(cyc[d].run) /\ cyc[d].run \in Attempts => VerifiedBefore(cyc[d].run)'
      BY BoundsAssumption DEF VerifiedBefore, Attempts, Grows
<1>3. AllRepaired => AllRepaired'
      BY BoundsAssumption DEF AllRepaired, Repairs, Grows
<1>4. \A j \in 1 .. (cyc[d].task - 1) : cyc[d].task \in Repairs => j \in Repairs
      BY BoundsAssumption DEF Repairs
<1>. QED BY <1>1, <1>2, <1>3, <1>4, IdsFacts
         DEF IInv, Held, HoldsIds, HoldsReads, Grows, Promoting, Rejecting

\* Every cycle holds what it should after a step.
LEMMA HeldStep ==
    ASSUME IInv, [Next]_vars
    PROVE  Held'
<1>1. Grows
      BY NothingIsUndone
<1>2. CASE cyc' = cyc
      BY <1>1, <1>2, HeldKept DEF Held
<1>3. ASSUME NEW c \in Cycles, CycleStep(c) \/ CycleCrash(c) PROVE Held'
  <2>1. HoldsIds(c)' /\ HoldsReads(c)'
        BY <1>3, OwnIds, OwnReads
  <2>2. \A d \in Cycles : d # c => cyc'[d] = cyc[d]
        BY <1>3, OthersStay
  <2>. QED BY <1>1, <2>1, <2>2, HeldKept DEF Held
<1>4. ASSUME NEW i \in Repairs, RepairSucceeds(i) \/ RepairFails(i) PROVE cyc' = cyc
      BY <1>4 DEF RepairSucceeds, RepairFails
<1>5. ASSUME NEW a \in Attempts, VerifierStep(a) \/ VerifierDies(a) PROVE cyc' = cyc
      BY <1>5 DEF VerifierStep, VerifierAnswers, VerifierErrs, VerifierDies
<1>6. ASSUME NEW i \in Lineage, PromotionStep(i) \/ PromotionDies(i) PROVE cyc' = cyc
      BY <1>6 DEF PromotionStep, PromotionStarts, PromotionPushes, PromotionReports,
                  PromotionMarks, PromotionDies
<1>. QED BY <1>2, <1>3, <1>4, <1>5, <1>6 DEF Next, vars

\* Rows still refer to each other after a step.
LEMMA RowsStep ==
    ASSUME IInv, [Next]_vars
    PROVE  RowsOK'
<1> USE DEF storeVars, worldVars, Fault, IInv, TypeOK, Held, HoldsIds,
   HoldsReads, RowsOK, Launching, Accepting, Promoting
<1>1. CASE UNCHANGED vars BY <1>1 DEF vars, storeVars, worldVars
<1>2. ASSUME NEW c \in Cycles, Start(c) PROVE RowsOK'
      BY <1>2, IdsFacts DEF Start
<1>3. ASSUME NEW c \in Cycles, AcceptRepair(c) PROVE RowsOK'
      BY <1>3, IdsFacts DEF AcceptRepair
<1>4. ASSUME NEW c \in Cycles, AcceptRepairWrite(c) PROVE RowsOK'
      BY <1>4, IdsFacts DEF AcceptRepairWrite, VerdictStatus
<1>5. ASSUME NEW c \in Cycles, Verify(c) PROVE RowsOK'
      BY <1>5, IdsFacts DEF Verify
<1>6. ASSUME NEW c \in Cycles, VerifyInsert(c) PROVE RowsOK'
      BY <1>6, IdsFacts DEF VerifyInsert, RunIsNew, RunRow
<1>7. ASSUME NEW c \in Cycles, VerifyLaunch(c) PROVE RowsOK'
      BY <1>7, IdsFacts DEF VerifyLaunch
<1>8. ASSUME NEW c \in Cycles, VerifyFail(c) PROVE RowsOK'
      BY <1>8, IdsFacts, Completes DEF VerifyFail, Outcome
<1>9. ASSUME NEW c \in Cycles, Accept(c) PROVE RowsOK'
      BY <1>9, IdsFacts DEF Accept, LatestOutcome
<1>10. ASSUME NEW c \in Cycles, AcceptCheck(c) PROVE RowsOK'
      BY <1>10, IdsFacts DEF AcceptCheck
<1>11. ASSUME NEW c \in Cycles, AcceptWrite(c) PROVE RowsOK'
      BY <1>11, IdsFacts DEF AcceptWrite, VerdictStatus
<1>12. ASSUME NEW c \in Cycles, MarkRead(c) PROVE RowsOK'
      BY <1>12, IdsFacts DEF MarkRead, JudgedCandidate
<1>13. ASSUME NEW c \in Cycles, MarkWrite(c) PROVE RowsOK'
      BY <1>13, IdsFacts DEF MarkWrite, EligibleBy
<1>14. ASSUME NEW c \in Cycles, Promote(c) PROVE RowsOK'
      BY <1>14, IdsFacts DEF Promote, EligibleCandidates
<1>15. ASSUME NEW c \in Cycles, PromoCreate(c) PROVE RowsOK'
      BY <1>15, IdsFacts DEF PromoCreate
<1>16. ASSUME NEW c \in Cycles, PromoLaunch(c) PROVE RowsOK'
      BY <1>16, IdsFacts, PusherMoves DEF PromoLaunch
<1>17. ASSUME NEW c \in Cycles, PromoFail(c) PROVE RowsOK'
      BY <1>17, IdsFacts DEF PromoFail
<1>18. ASSUME NEW c \in Cycles, Repair(c) PROVE RowsOK'
      BY <1>18, IdsFacts DEF Repair
<1>19. ASSUME NEW c \in Cycles, RepairCreate(c) PROVE RowsOK'
      BY <1>19, IdsFacts DEF RepairCreate, RepairIsNew
<1>20. ASSUME NEW c \in Cycles, Exhaust(c) PROVE RowsOK'
      BY <1>20, IdsFacts DEF Exhaust, AfterBlocker
<1>21. ASSUME NEW c \in Cycles, BlockerCreate(c) PROVE RowsOK'
      BY <1>21, IdsFacts DEF BlockerCreate, AfterBlocker
<1>22. ASSUME NEW c \in Cycles, RejectCheck(c) PROVE RowsOK'
      BY <1>22, IdsFacts DEF RejectCheck
<1>23. ASSUME NEW c \in Cycles, RejectWrite(c) PROVE RowsOK'
      BY <1>23, IdsFacts DEF RejectWrite, VerdictStatus
<1>24. ASSUME NEW c \in Cycles, CycleCrash(c) PROVE RowsOK'
      BY <1>24, IdsFacts DEF CycleCrash
<1>25. ASSUME NEW i \in Repairs, RepairSucceeds(i) PROVE RowsOK'
      BY <1>25, IdsFacts DEF RepairSucceeds
<1>26. ASSUME NEW i \in Repairs, RepairFails(i) PROVE RowsOK'
      BY <1>26, IdsFacts DEF RepairFails
<1>27. ASSUME NEW a \in Attempts, NEW o \in {"PASS", "FAIL"}, VerifierAnswers(a, o) PROVE RowsOK'
      BY <1>27, IdsFacts, Completes DEF VerifierAnswers, Outcome
<1>28. ASSUME NEW a \in Attempts, VerifierErrs(a) PROVE RowsOK'
      BY <1>28, IdsFacts, Completes DEF VerifierErrs, Outcome
<1>29. ASSUME NEW a \in Attempts, VerifierDies(a) PROVE RowsOK'
      BY <1>29, IdsFacts DEF VerifierDies
<1>30. ASSUME NEW i \in Lineage, PromotionStarts(i) PROVE RowsOK'
      BY <1>30, IdsFacts, PusherMoves DEF PromotionStarts
<1>31. ASSUME NEW i \in Lineage, PromotionPushes(i) PROVE RowsOK'
      BY <1>31, IdsFacts, PusherMoves DEF PromotionPushes
<1>32. ASSUME NEW i \in Lineage, PromotionReports(i) PROVE RowsOK'
      <2>1. pusher[i].step \in {"succeeded", "failed"} /\ pusher[i].queued > 0
            BY <1>32 DEF PromotionReports
      <2>2. \A j \in Lineage : promo[j].status # "absent" => promo'[j].status # "absent"
            BY <1>32, <2>1 DEF PromotionReports, PromoRow
      <2>3. /\ pusher'[i].step # "idle" => pusher'[i].queued > 0
            /\ \A j \in Lineage : j # i => pusher'[j] = pusher[j]
            BY <1>32, <2>1, PusherMoves DEF PromotionReports
      <2>. QED BY <1>32, <2>1, <2>2, <2>3 DEF PromotionReports
<1>33. ASSUME NEW i \in Lineage, PromotionMarks(i) PROVE RowsOK'
      BY <1>33, IdsFacts, PusherMoves DEF PromotionMarks
<1>34. ASSUME NEW i \in Lineage, PromotionDies(i) PROVE RowsOK'
      BY <1>34, IdsFacts, PusherMoves DEF PromotionDies
<1>. QED BY <1>1, <1>2, <1>3, <1>4, <1>5, <1>6, <1>7, <1>8, <1>9, <1>10,
   <1>11, <1>12, <1>13, <1>14, <1>15, <1>16, <1>17, <1>18, <1>19, <1>20,
   <1>21, <1>22, <1>23, <1>24, <1>25, <1>26, <1>27, <1>28, <1>29, <1>30,
   <1>31, <1>32, <1>33, <1>34, SMTT(30) DEF Next, CycleStep, VerifierStep,
   PromotionStep

\* Every change of the store goes back to a cycle that had read for it.
LEMMA CausesStep ==
    ASSUME IInv, [Next]_vars
    PROVE  Causes
<1> USE DEF storeVars, worldVars, Fault, IInv, TypeOK, Held, HoldsIds,
   Launching, Accepting, Causes
<1>1. CASE UNCHANGED vars BY <1>1 DEF vars, storeVars, worldVars
<1>2. ASSUME NEW c \in Cycles, Start(c) PROVE Causes
      BY <1>2, IdsFacts DEF Start
<1>3. ASSUME NEW c \in Cycles, AcceptRepair(c) PROVE Causes
      BY <1>3, IdsFacts DEF AcceptRepair
<1>4. ASSUME NEW c \in Cycles, AcceptRepairWrite(c) PROVE Causes
      BY <1>4, IdsFacts DEF AcceptRepairWrite, VerdictStatus, HoldsReads
<1>5. ASSUME NEW c \in Cycles, Verify(c) PROVE Causes
      BY <1>5, IdsFacts DEF Verify
<1>6. ASSUME NEW c \in Cycles, VerifyInsert(c) PROVE Causes
      BY <1>6, IdsFacts DEF VerifyInsert, RunIsNew, RunRow
<1>7. ASSUME NEW c \in Cycles, VerifyLaunch(c) PROVE Causes
      BY <1>7, IdsFacts DEF VerifyLaunch
<1>8. ASSUME NEW c \in Cycles, VerifyFail(c) PROVE Causes
      BY <1>8, IdsFacts, Completes DEF VerifyFail, Outcome, RowsOK
<1>9. ASSUME NEW c \in Cycles, Accept(c) PROVE Causes
      BY <1>9, IdsFacts DEF Accept, LatestOutcome
<1>10. ASSUME NEW c \in Cycles, AcceptCheck(c) PROVE Causes
      BY <1>10, IdsFacts DEF AcceptCheck
<1>11. ASSUME NEW c \in Cycles, AcceptWrite(c) PROVE Causes
      BY <1>11, IdsFacts DEF AcceptWrite, VerdictStatus
<1>12. ASSUME NEW c \in Cycles, MarkRead(c) PROVE Causes
      BY <1>12, IdsFacts DEF MarkRead, JudgedCandidate
<1>13. ASSUME NEW c \in Cycles, MarkWrite(c) PROVE Causes
      BY <1>13, IdsFacts DEF MarkWrite, EligibleBy
<1>14. ASSUME NEW c \in Cycles, Promote(c) PROVE Causes
      BY <1>14, IdsFacts DEF Promote, EligibleCandidates
<1>15. ASSUME NEW c \in Cycles, PromoCreate(c) PROVE Causes
      BY <1>15, IdsFacts DEF PromoCreate
<1>16. ASSUME NEW c \in Cycles, PromoLaunch(c) PROVE Causes
      BY <1>16, IdsFacts DEF PromoLaunch
<1>17. ASSUME NEW c \in Cycles, PromoFail(c) PROVE Causes
      BY <1>17, IdsFacts DEF PromoFail
<1>18. ASSUME NEW c \in Cycles, Repair(c) PROVE Causes
      BY <1>18, IdsFacts DEF Repair
<1>19. ASSUME NEW c \in Cycles, RepairCreate(c) PROVE Causes
      BY <1>19, IdsFacts DEF RepairCreate, RepairIsNew
<1>20. ASSUME NEW c \in Cycles, Exhaust(c) PROVE Causes
      BY <1>20, IdsFacts DEF Exhaust, AfterBlocker
<1>21. ASSUME NEW c \in Cycles, BlockerCreate(c) PROVE Causes
      BY <1>21, IdsFacts DEF BlockerCreate, AfterBlocker
<1>22. ASSUME NEW c \in Cycles, RejectCheck(c) PROVE Causes
      BY <1>22, IdsFacts DEF RejectCheck
<1>23. ASSUME NEW c \in Cycles, RejectWrite(c) PROVE Causes
      BY <1>23, IdsFacts DEF RejectWrite, VerdictStatus
<1>24. ASSUME NEW c \in Cycles, CycleCrash(c) PROVE Causes
      BY <1>24, IdsFacts DEF CycleCrash
<1>25. ASSUME NEW i \in Repairs, RepairSucceeds(i) PROVE Causes
      BY <1>25, IdsFacts DEF RepairSucceeds
<1>26. ASSUME NEW i \in Repairs, RepairFails(i) PROVE Causes
      BY <1>26, IdsFacts DEF RepairFails
<1>27. ASSUME NEW a \in Attempts, NEW o \in {"PASS", "FAIL"}, VerifierAnswers(a, o) PROVE Causes
      BY <1>27, IdsFacts, Completes DEF VerifierAnswers, Outcome, RowsOK
<1>28. ASSUME NEW a \in Attempts, VerifierErrs(a) PROVE Causes
      BY <1>28, IdsFacts, Completes DEF VerifierErrs, Outcome, RowsOK
<1>29. ASSUME NEW a \in Attempts, VerifierDies(a) PROVE Causes
      BY <1>29, IdsFacts DEF VerifierDies
<1>30. ASSUME NEW i \in Lineage, PromotionStarts(i) PROVE Causes
      BY <1>30, IdsFacts DEF PromotionStarts
<1>31. ASSUME NEW i \in Lineage, PromotionPushes(i) PROVE Causes
      BY <1>31, IdsFacts DEF PromotionPushes
<1>32. ASSUME NEW i \in Lineage, PromotionReports(i) PROVE Causes
      BY <1>32, IdsFacts DEF PromotionReports
<1>33. ASSUME NEW i \in Lineage, PromotionMarks(i) PROVE Causes
      BY <1>33, IdsFacts DEF PromotionMarks
<1>34. ASSUME NEW i \in Lineage, PromotionDies(i) PROVE Causes
      BY <1>34, IdsFacts DEF PromotionDies
<1>. QED BY <1>1, <1>2, <1>3, <1>4, <1>5, <1>6, <1>7, <1>8, <1>9, <1>10,
   <1>11, <1>12, <1>13, <1>14, <1>15, <1>16, <1>17, <1>18, <1>19, <1>20,
   <1>21, <1>22, <1>23, <1>24, <1>25, <1>26, <1>27, <1>28, <1>29, <1>30,
   <1>31, <1>32, <1>33, <1>34, SMTT(30) DEF Next, CycleStep, VerifierStep,
   PromotionStep

\* Verifier runs stay numbered, and rejection stays the last resort.
LEMMA NumberedStep ==
    ASSUME IInv, [Next]_vars
    PROVE  OneVerificationAtATime' /\ RejectedAfterAllRepairs'
<1>1. Grows /\ Causes
      BY NothingIsUndone, CausesStep
<1>2. OneVerificationAtATime'
  <2>1. SUFFICES ASSUME NEW a \in Attempts, runs'[a].status # "absent",
                        NEW b \in 0 .. (a - 1)
                 PROVE  runs'[b].status = "completed"
        BY DEF OneVerificationAtATime
  <2>2. b \in Attempts
        BY BoundsAssumption DEF Attempts
  <2>3. runs[b].status = "completed"
        BY <1>1, <2>1 DEF Causes, IInv, OneVerificationAtATime, Held, HoldsReads, VerifiedBefore
  <2>4. runs[b].status # "absent"
        BY <2>3
  <2>. QED BY <1>1, <2>2, <2>3, <2>4 DEF Grows
<1>3. RejectedAfterAllRepairs'
  <2>1. SUFFICES ASSUME tasks'[Original] = "failed" PROVE blocked' /\ AllRepaired'
        BY DEF RejectedAfterAllRepairs, AllRepaired
  <2>2. blocked /\ AllRepaired
        BY <1>1, <2>1 DEF Causes, IInv, RejectedAfterAllRepairs, Held, HoldsReads,
                          Rejecting, AllRepaired
  <2>3. 1 .. MaxRepairs \subseteq Repairs
        BY BoundsAssumption DEF Repairs
  <2>. QED BY <1>1, <2>2, <2>3 DEF Grows, AllRepaired
<1>. QED BY <1>2, <1>3

\* A new repair is number RepairCount + 1.
LEMMA RepairsStep ==
    ASSUME IInv, [Next]_vars
    PROVE  RepairsAreNumbered'
<1>1. Grows /\ Causes
      BY NothingIsUndone, CausesStep
<1>2. RepairTasks = 1 .. RepairCount /\ RepairCount \in Nat /\ RepairCount <= MaxRepairs
      BY Numbers DEF IInv, RepairsAreNumbered
<1>3. RepairTasks \subseteq RepairTasks'
      BY <1>1 DEF RepairTasks, Grows
<1>4. ASSUME NEW i \in RepairTasks', i \notin RepairTasks
      PROVE  i = RepairCount + 1 /\ i <= MaxRepairs
  <2>1. i \in Repairs /\ tasks[i] = "absent" /\ tasks'[i] # "absent"
        BY <1>4 DEF RepairTasks
  <2>2. i <= MaxRepairs /\ \A j \in 1 .. (i - 1) : tasks[j] # "absent"
        BY <1>1, <2>1 DEF Causes, IInv, Held, HoldsReads
  <2>3. \A j \in 1 .. (i - 1) : j \in 1 .. RepairCount
        BY <1>2, <2>1, <2>2, BoundsAssumption DEF RepairTasks, Repairs
  <2>4. i \in Nat /\ i > RepairCount
        BY <1>2, <1>4, <2>1, BoundsAssumption DEF Repairs
  <2>5. CASE i > RepairCount + 1
        BY <1>2, <2>3, <2>4, <2>5, RepairCount + 1 \in 1 .. (i - 1)
  <2>. QED BY <1>2, <2>2, <2>4, <2>5
<1>5. CASE RepairTasks' = RepairTasks
      BY <1>2, <1>5 DEF RepairsAreNumbered, RepairCount
<1>6. CASE RepairTasks' # RepairTasks
  <2>1. RepairTasks' = 1 .. (RepairCount + 1) /\ RepairCount + 1 <= MaxRepairs
    <3>1. RepairCount + 1 \in RepairTasks' /\ RepairCount + 1 <= MaxRepairs
          BY <1>3, <1>4, <1>6
    <3>2. \A i : i \in RepairTasks' <=> i \in RepairTasks \/ i = RepairCount + 1
          BY <1>3, <1>4, <3>1
    <3>3. RepairTasks' = RepairTasks \cup {RepairCount + 1}
          BY <3>2
    <3>. QED BY <1>2, <3>1, <3>3
  <2>2. Cardinality(1 .. (RepairCount + 1)) = RepairCount + 1
    <3>1. 1 \in Int /\ RepairCount + 1 \in Int
          BY <1>2
    <3>2. Cardinality(1 .. (RepairCount + 1)) =
              IF 1 > RepairCount + 1 THEN 0 ELSE (RepairCount + 1) - 1 + 1
          BY ONLY <3>1, FS_Interval
    <3>. QED BY <1>2, <3>2
  <2>3. RepairCount' = RepairCount + 1
        BY <2>1, <2>2 DEF RepairCount
  <2>. QED BY <2>1, <2>3 DEF RepairsAreNumbered
<1>. QED BY <1>5, <1>6

\* Each run is launched once, and a PASS is from its workflow.
LEMMA LaunchedStep ==
    ASSUME IInv, [Next]_vars
    PROVE  LaunchedOK'
<1> USE DEF storeVars, worldVars, Fault, IInv, TypeOK, Held, HoldsIds, RowsOK,
   LaunchedOK, Launching, Goto, GotoWith, GotoWithList, Throw, At, Holding
<1>1. CASE UNCHANGED vars BY <1>1 DEF vars, storeVars, worldVars
<1>2. ASSUME NEW c \in Cycles, Start(c) PROVE LaunchedOK'
      BY <1>2, IdsFacts DEF Start
<1>3. ASSUME NEW c \in Cycles, AcceptRepair(c) PROVE LaunchedOK'
      BY <1>3, IdsFacts, SMTT(30) DEF AcceptRepair
<1>4. ASSUME NEW c \in Cycles, AcceptRepairWrite(c) PROVE LaunchedOK'
      BY <1>4, IdsFacts DEF AcceptRepairWrite, VerdictStatus
<1>5. ASSUME NEW c \in Cycles, Verify(c) PROVE LaunchedOK'
      BY <1>5, IdsFacts DEF Verify
<1>6. ASSUME NEW c \in Cycles, VerifyInsert(c) PROVE LaunchedOK'
      <2>1. \A d \in Cycles : d # c => cyc'[d] = cyc[d]
            BY <1>6, OthersStay DEF CycleStep
      <2>2. CASE runs[cyc[c].run].status = "absent"
        <3>1. cyc'[c].pc = "verify_launch" /\ cyc'[c].run = cyc[c].run
              BY <1>6, <2>2 DEF VerifyInsert, RunIsNew
        <3>2. verifier[cyc[c].run] = "idle" /\ cyc[c].run \in Attempts
              BY <1>6, <2>2 DEF VerifyInsert
        <3>3. \A d \in Cycles : cyc[d].pc = "verify_launch" => cyc[d].run # cyc[c].run
              BY <2>2
        <3>4. /\ runs' = [runs EXCEPT ![cyc[c].run] = [status |-> "pending",
                                            outcome |-> "none", cand |-> cyc[c].cand]]
              /\ UNCHANGED <<verifier, passed>>
              BY <1>6, <2>2 DEF VerifyInsert, RunIsNew
        <3>5. \A a \in Attempts : runs'[a].outcome = "PASS" =>
                 runs'[a] = runs[a]
              BY <3>2, <3>4
        <3>. QED BY <2>1, <3>1, <3>2, <3>3, <3>4, <3>5
      <2>3. CASE runs[cyc[c].run].status # "absent"
        <3>1. cyc'[c].pc # "verify_launch" /\ UNCHANGED <<runs, verifier, passed>>
              BY <1>6, <2>3 DEF VerifyInsert, RunIsNew
        <3>. QED BY <2>1, <3>1
      <2>. QED BY <2>2, <2>3
<1>7. ASSUME NEW c \in Cycles, VerifyLaunch(c) PROVE LaunchedOK'
      BY <1>7, IdsFacts, SMTT(30) DEF VerifyLaunch
<1>8. ASSUME NEW c \in Cycles, VerifyFail(c) PROVE LaunchedOK'
      BY <1>8, IdsFacts, Completes DEF VerifyFail, Outcome
<1>9. ASSUME NEW c \in Cycles, Accept(c) PROVE LaunchedOK'
      BY <1>9, IdsFacts DEF Accept, LatestOutcome
<1>10. ASSUME NEW c \in Cycles, AcceptCheck(c) PROVE LaunchedOK'
      BY <1>10, IdsFacts DEF AcceptCheck
<1>11. ASSUME NEW c \in Cycles, AcceptWrite(c) PROVE LaunchedOK'
      BY <1>11, IdsFacts DEF AcceptWrite, VerdictStatus
<1>12. ASSUME NEW c \in Cycles, MarkRead(c) PROVE LaunchedOK'
      BY <1>12, IdsFacts DEF MarkRead, JudgedCandidate
<1>13. ASSUME NEW c \in Cycles, MarkWrite(c) PROVE LaunchedOK'
      BY <1>13, IdsFacts DEF MarkWrite, EligibleBy
<1>14. ASSUME NEW c \in Cycles, Promote(c) PROVE LaunchedOK'
      BY <1>14, IdsFacts DEF Promote, EligibleCandidates
<1>15. ASSUME NEW c \in Cycles, PromoCreate(c) PROVE LaunchedOK'
      BY <1>15, IdsFacts, SMTT(30) DEF PromoCreate
<1>16. ASSUME NEW c \in Cycles, PromoLaunch(c) PROVE LaunchedOK'
      BY <1>16, IdsFacts, SMTT(30) DEF PromoLaunch
<1>17. ASSUME NEW c \in Cycles, PromoFail(c) PROVE LaunchedOK'
      BY <1>17, IdsFacts DEF PromoFail
<1>18. ASSUME NEW c \in Cycles, Repair(c) PROVE LaunchedOK'
      BY <1>18, IdsFacts DEF Repair
<1>19. ASSUME NEW c \in Cycles, RepairCreate(c) PROVE LaunchedOK'
      BY <1>19, IdsFacts, SMTT(30) DEF RepairCreate, RepairIsNew
<1>20. ASSUME NEW c \in Cycles, Exhaust(c) PROVE LaunchedOK'
      BY <1>20, IdsFacts DEF Exhaust, AfterBlocker
<1>21. ASSUME NEW c \in Cycles, BlockerCreate(c) PROVE LaunchedOK'
      BY <1>21, IdsFacts DEF BlockerCreate, AfterBlocker
<1>22. ASSUME NEW c \in Cycles, RejectCheck(c) PROVE LaunchedOK'
      BY <1>22, IdsFacts DEF RejectCheck
<1>23. ASSUME NEW c \in Cycles, RejectWrite(c) PROVE LaunchedOK'
      BY <1>23, IdsFacts DEF RejectWrite, VerdictStatus
<1>24. ASSUME NEW c \in Cycles, CycleCrash(c) PROVE LaunchedOK'
      BY <1>24, IdsFacts DEF CycleCrash
<1>25. ASSUME NEW i \in Repairs, RepairSucceeds(i) PROVE LaunchedOK'
      BY <1>25, IdsFacts DEF RepairSucceeds
<1>26. ASSUME NEW i \in Repairs, RepairFails(i) PROVE LaunchedOK'
      BY <1>26, IdsFacts DEF RepairFails
<1>27. ASSUME NEW a \in Attempts, NEW o \in {"PASS", "FAIL"}, VerifierAnswers(a, o) PROVE LaunchedOK'
      BY <1>27, IdsFacts, Completes DEF VerifierAnswers, Outcome
<1>28. ASSUME NEW a \in Attempts, VerifierErrs(a) PROVE LaunchedOK'
      BY <1>28, IdsFacts, Completes DEF VerifierErrs, Outcome
<1>29. ASSUME NEW a \in Attempts, VerifierDies(a) PROVE LaunchedOK'
      BY <1>29, IdsFacts DEF VerifierDies
<1>30. ASSUME NEW i \in Lineage, PromotionStarts(i) PROVE LaunchedOK'
      BY <1>30, IdsFacts DEF PromotionStarts
<1>31. ASSUME NEW i \in Lineage, PromotionPushes(i) PROVE LaunchedOK'
      BY <1>31, IdsFacts DEF PromotionPushes
<1>32. ASSUME NEW i \in Lineage, PromotionReports(i) PROVE LaunchedOK'
      BY <1>32, IdsFacts DEF PromotionReports
<1>33. ASSUME NEW i \in Lineage, PromotionMarks(i) PROVE LaunchedOK'
      BY <1>33, IdsFacts DEF PromotionMarks
<1>34. ASSUME NEW i \in Lineage, PromotionDies(i) PROVE LaunchedOK'
      BY <1>34, IdsFacts DEF PromotionDies
<1>. QED BY <1>1, <1>2, <1>3, <1>4, <1>5, <1>6, <1>7, <1>8, <1>9, <1>10,
   <1>11, <1>12, <1>13, <1>14, <1>15, <1>16, <1>17, <1>18, <1>19, <1>20,
   <1>21, <1>22, <1>23, <1>24, <1>25, <1>26, <1>27, <1>28, <1>29, <1>30,
   <1>31, <1>32, <1>33, <1>34, SMTT(30) DEF Next, CycleStep, VerifierStep,
   PromotionStep

\* Only passed candidates get ahead.
LEMMA PassedStep ==
    ASSUME IInv, [Next]_vars
    PROVE  OnlyPassedIsPromoted'
<1> USE DEF storeVars, worldVars, Fault, IInv, TypeOK, Held, HoldsIds,
   HoldsReads, RowsOK, OnlyPassedIsPromoted, Promoting
<1>1. CASE UNCHANGED vars BY <1>1 DEF vars, storeVars, worldVars
<1>2. ASSUME NEW c \in Cycles, Start(c) PROVE OnlyPassedIsPromoted'
      BY <1>2, IdsFacts DEF Start
<1>3. ASSUME NEW c \in Cycles, AcceptRepair(c) PROVE OnlyPassedIsPromoted'
      BY <1>3, IdsFacts DEF AcceptRepair
<1>4. ASSUME NEW c \in Cycles, AcceptRepairWrite(c) PROVE OnlyPassedIsPromoted'
      BY <1>4, IdsFacts DEF AcceptRepairWrite, VerdictStatus
<1>5. ASSUME NEW c \in Cycles, Verify(c) PROVE OnlyPassedIsPromoted'
      BY <1>5, IdsFacts DEF Verify
<1>6. ASSUME NEW c \in Cycles, VerifyInsert(c) PROVE OnlyPassedIsPromoted'
      BY <1>6, IdsFacts DEF VerifyInsert, RunIsNew
<1>7. ASSUME NEW c \in Cycles, VerifyLaunch(c) PROVE OnlyPassedIsPromoted'
      BY <1>7, IdsFacts DEF VerifyLaunch
<1>8. ASSUME NEW c \in Cycles, VerifyFail(c) PROVE OnlyPassedIsPromoted'
      BY <1>8, IdsFacts, Completes DEF VerifyFail, Outcome
<1>9. ASSUME NEW c \in Cycles, Accept(c) PROVE OnlyPassedIsPromoted'
      BY <1>9, IdsFacts DEF Accept, LatestOutcome
<1>10. ASSUME NEW c \in Cycles, AcceptCheck(c) PROVE OnlyPassedIsPromoted'
      BY <1>10, IdsFacts DEF AcceptCheck
<1>11. ASSUME NEW c \in Cycles, AcceptWrite(c) PROVE OnlyPassedIsPromoted'
      BY <1>11, IdsFacts DEF AcceptWrite, VerdictStatus
<1>12. ASSUME NEW c \in Cycles, MarkRead(c) PROVE OnlyPassedIsPromoted'
      BY <1>12, IdsFacts DEF MarkRead, JudgedCandidate
<1>13. ASSUME NEW c \in Cycles, MarkWrite(c) PROVE OnlyPassedIsPromoted'
      BY <1>13, IdsFacts DEF MarkWrite, EligibleBy
<1>14. ASSUME NEW c \in Cycles, Promote(c) PROVE OnlyPassedIsPromoted'
      BY <1>14, IdsFacts DEF Promote, EligibleCandidates
<1>15. ASSUME NEW c \in Cycles, PromoCreate(c) PROVE OnlyPassedIsPromoted'
      BY <1>15, IdsFacts DEF PromoCreate
<1>16. ASSUME NEW c \in Cycles, PromoLaunch(c) PROVE OnlyPassedIsPromoted'
      BY <1>16, IdsFacts DEF PromoLaunch
<1>17. ASSUME NEW c \in Cycles, PromoFail(c) PROVE OnlyPassedIsPromoted'
      BY <1>17, IdsFacts DEF PromoFail
<1>18. ASSUME NEW c \in Cycles, Repair(c) PROVE OnlyPassedIsPromoted'
      BY <1>18, IdsFacts DEF Repair
<1>19. ASSUME NEW c \in Cycles, RepairCreate(c) PROVE OnlyPassedIsPromoted'
      BY <1>19, IdsFacts DEF RepairCreate, RepairIsNew
<1>20. ASSUME NEW c \in Cycles, Exhaust(c) PROVE OnlyPassedIsPromoted'
      BY <1>20, IdsFacts DEF Exhaust, AfterBlocker
<1>21. ASSUME NEW c \in Cycles, BlockerCreate(c) PROVE OnlyPassedIsPromoted'
      BY <1>21, IdsFacts DEF BlockerCreate, AfterBlocker
<1>22. ASSUME NEW c \in Cycles, RejectCheck(c) PROVE OnlyPassedIsPromoted'
      BY <1>22, IdsFacts DEF RejectCheck
<1>23. ASSUME NEW c \in Cycles, RejectWrite(c) PROVE OnlyPassedIsPromoted'
      BY <1>23, IdsFacts DEF RejectWrite, VerdictStatus
<1>24. ASSUME NEW c \in Cycles, CycleCrash(c) PROVE OnlyPassedIsPromoted'
      BY <1>24, IdsFacts DEF CycleCrash
<1>25. ASSUME NEW i \in Repairs, RepairSucceeds(i) PROVE OnlyPassedIsPromoted'
      BY <1>25, IdsFacts DEF RepairSucceeds
<1>26. ASSUME NEW i \in Repairs, RepairFails(i) PROVE OnlyPassedIsPromoted'
      BY <1>26, IdsFacts DEF RepairFails
<1>27. ASSUME NEW a \in Attempts, NEW o \in {"PASS", "FAIL"}, VerifierAnswers(a, o) PROVE OnlyPassedIsPromoted'
      BY <1>27, IdsFacts, Completes DEF VerifierAnswers, Outcome
<1>28. ASSUME NEW a \in Attempts, VerifierErrs(a) PROVE OnlyPassedIsPromoted'
      BY <1>28, IdsFacts, Completes DEF VerifierErrs, Outcome
<1>29. ASSUME NEW a \in Attempts, VerifierDies(a) PROVE OnlyPassedIsPromoted'
      BY <1>29, IdsFacts DEF VerifierDies
<1>30. ASSUME NEW i \in Lineage, PromotionStarts(i) PROVE OnlyPassedIsPromoted'
      BY <1>30, IdsFacts DEF PromotionStarts
<1>31. ASSUME NEW i \in Lineage, PromotionPushes(i) PROVE OnlyPassedIsPromoted'
      BY <1>31, IdsFacts DEF PromotionPushes
<1>32. ASSUME NEW i \in Lineage, PromotionReports(i) PROVE OnlyPassedIsPromoted'
      BY <1>32, IdsFacts DEF PromotionReports
<1>33. ASSUME NEW i \in Lineage, PromotionMarks(i) PROVE OnlyPassedIsPromoted'
      BY <1>33, IdsFacts DEF PromotionMarks
<1>34. ASSUME NEW i \in Lineage, PromotionDies(i) PROVE OnlyPassedIsPromoted'
      BY <1>34, IdsFacts DEF PromotionDies
<1>. QED BY <1>1, <1>2, <1>3, <1>4, <1>5, <1>6, <1>7, <1>8, <1>9, <1>10,
   <1>11, <1>12, <1>13, <1>14, <1>15, <1>16, <1>17, <1>18, <1>19, <1>20,
   <1>21, <1>22, <1>23, <1>24, <1>25, <1>26, <1>27, <1>28, <1>29, <1>30,
   <1>31, <1>32, <1>33, <1>34, SMTT(30) DEF Next, CycleStep, VerifierStep,
   PromotionStep

\* A run is trusted because it passed while the task was open.
LEMMA TrustCausesStep ==
    ASSUME IInv, [Next]_vars
    PROVE  TrustCauses
<1> USE DEF storeVars, worldVars, Fault, IInv, TypeOK, TrustCauses, Trusted,
   Accepting, Goto, GotoWith, GotoWithList, Throw, At, Holding
<1>1. CASE UNCHANGED vars BY <1>1 DEF vars, storeVars, worldVars
<1>2. ASSUME NEW c \in Cycles, Start(c) PROVE TrustCauses
      BY <1>2 DEF Start
<1>3. ASSUME NEW c \in Cycles, AcceptRepair(c) PROVE TrustCauses
      BY <1>3 DEF AcceptRepair
<1>4. ASSUME NEW c \in Cycles, AcceptRepairWrite(c) PROVE TrustCauses
      BY <1>4 DEF AcceptRepairWrite, VerdictStatus
<1>5. ASSUME NEW c \in Cycles, Verify(c) PROVE TrustCauses
      BY <1>5 DEF Verify
<1>6. ASSUME NEW c \in Cycles, VerifyInsert(c) PROVE TrustCauses
      BY <1>6 DEF VerifyInsert, RunIsNew
<1>7. ASSUME NEW c \in Cycles, VerifyLaunch(c) PROVE TrustCauses
      BY <1>7 DEF VerifyLaunch
<1>8. ASSUME NEW c \in Cycles, VerifyFail(c) PROVE TrustCauses
      BY <1>8 DEF VerifyFail
<1>9. ASSUME NEW c \in Cycles, Accept(c) PROVE TrustCauses
      BY <1>9 DEF Accept, LatestOutcome
<1>10. ASSUME NEW c \in Cycles, AcceptCheck(c) PROVE TrustCauses
      BY <1>10 DEF AcceptCheck
<1>11. ASSUME NEW c \in Cycles, AcceptWrite(c) PROVE TrustCauses
      BY <1>11 DEF AcceptWrite, VerdictStatus
<1>12. ASSUME NEW c \in Cycles, MarkRead(c) PROVE TrustCauses
      BY <1>12 DEF MarkRead, JudgedCandidate
<1>13. ASSUME NEW c \in Cycles, MarkWrite(c) PROVE TrustCauses
      BY <1>13 DEF MarkWrite, EligibleBy
<1>14. ASSUME NEW c \in Cycles, Promote(c) PROVE TrustCauses
      BY <1>14 DEF Promote, EligibleCandidates
<1>15. ASSUME NEW c \in Cycles, PromoCreate(c) PROVE TrustCauses
      BY <1>15 DEF PromoCreate
<1>16. ASSUME NEW c \in Cycles, PromoLaunch(c) PROVE TrustCauses
      BY <1>16 DEF PromoLaunch
<1>17. ASSUME NEW c \in Cycles, PromoFail(c) PROVE TrustCauses
      BY <1>17 DEF PromoFail
<1>18. ASSUME NEW c \in Cycles, Repair(c) PROVE TrustCauses
      BY <1>18 DEF Repair
<1>19. ASSUME NEW c \in Cycles, RepairCreate(c) PROVE TrustCauses
      BY <1>19 DEF RepairCreate, RepairIsNew
<1>20. ASSUME NEW c \in Cycles, Exhaust(c) PROVE TrustCauses
      BY <1>20 DEF Exhaust, AfterBlocker
<1>21. ASSUME NEW c \in Cycles, BlockerCreate(c) PROVE TrustCauses
      BY <1>21 DEF BlockerCreate, AfterBlocker
<1>22. ASSUME NEW c \in Cycles, RejectCheck(c) PROVE TrustCauses
      BY <1>22 DEF RejectCheck
<1>23. ASSUME NEW c \in Cycles, RejectWrite(c) PROVE TrustCauses
      BY <1>23 DEF RejectWrite, VerdictStatus
<1>24. ASSUME NEW c \in Cycles, CycleCrash(c) PROVE TrustCauses
      BY <1>24 DEF CycleCrash
<1>25. ASSUME NEW i \in Repairs, RepairSucceeds(i) PROVE TrustCauses
      BY <1>25 DEF RepairSucceeds
<1>26. ASSUME NEW i \in Repairs, RepairFails(i) PROVE TrustCauses
      BY <1>26 DEF RepairFails
<1>27. ASSUME NEW a \in Attempts, NEW o \in {"PASS", "FAIL"}, VerifierAnswers(a, o) PROVE TrustCauses
      BY <1>27 DEF VerifierAnswers
<1>28. ASSUME NEW a \in Attempts, VerifierErrs(a) PROVE TrustCauses
      BY <1>28 DEF VerifierErrs
<1>29. ASSUME NEW a \in Attempts, VerifierDies(a) PROVE TrustCauses
      BY <1>29 DEF VerifierDies
<1>30. ASSUME NEW i \in Lineage, PromotionStarts(i) PROVE TrustCauses
      BY <1>30 DEF PromotionStarts
<1>31. ASSUME NEW i \in Lineage, PromotionPushes(i) PROVE TrustCauses
      BY <1>31 DEF PromotionPushes
<1>32. ASSUME NEW i \in Lineage, PromotionReports(i) PROVE TrustCauses
      BY <1>32 DEF PromotionReports
<1>33. ASSUME NEW i \in Lineage, PromotionMarks(i) PROVE TrustCauses
      BY <1>33 DEF PromotionMarks
<1>34. ASSUME NEW i \in Lineage, PromotionDies(i) PROVE TrustCauses
      BY <1>34 DEF PromotionDies
<1>. QED BY <1>1, <1>2, <1>3, <1>4, <1>5, <1>6, <1>7, <1>8, <1>9, <1>10,
   <1>11, <1>12, <1>13, <1>14, <1>15, <1>16, <1>17, <1>18, <1>19, <1>20,
   <1>21, <1>22, <1>23, <1>24, <1>25, <1>26, <1>27, <1>28, <1>29, <1>30,
   <1>31, <1>32, <1>33, <1>34, SMTT(30) DEF Next, CycleStep, VerifierStep,
   PromotionStep

\* A candidate is chosen because the latest run passed it.
LEMMA ChoiceCausesStep ==
    ASSUME IInv, [Next]_vars
    PROVE  ChoiceCauses
<1> USE DEF storeVars, worldVars, Fault, IInv, TypeOK, ChoiceCauses, Chosen,
   Goto, GotoWith, GotoWithList, Throw, At, Holding
<1>1. CASE UNCHANGED vars BY <1>1 DEF vars, storeVars, worldVars
<1>2. ASSUME NEW c \in Cycles, Start(c) PROVE ChoiceCauses
      BY <1>2 DEF Start
<1>3. ASSUME NEW c \in Cycles, AcceptRepair(c) PROVE ChoiceCauses
      BY <1>3 DEF AcceptRepair
<1>4. ASSUME NEW c \in Cycles, AcceptRepairWrite(c) PROVE ChoiceCauses
      BY <1>4 DEF AcceptRepairWrite, VerdictStatus
<1>5. ASSUME NEW c \in Cycles, Verify(c) PROVE ChoiceCauses
      BY <1>5 DEF Verify
<1>6. ASSUME NEW c \in Cycles, VerifyInsert(c) PROVE ChoiceCauses
      BY <1>6 DEF VerifyInsert, RunIsNew
<1>7. ASSUME NEW c \in Cycles, VerifyLaunch(c) PROVE ChoiceCauses
      BY <1>7 DEF VerifyLaunch
<1>8. ASSUME NEW c \in Cycles, VerifyFail(c) PROVE ChoiceCauses
      BY <1>8 DEF VerifyFail
<1>9. ASSUME NEW c \in Cycles, Accept(c) PROVE ChoiceCauses
      BY <1>9 DEF Accept, LatestOutcome
<1>10. ASSUME NEW c \in Cycles, AcceptCheck(c) PROVE ChoiceCauses
      BY <1>10 DEF AcceptCheck
<1>11. ASSUME NEW c \in Cycles, AcceptWrite(c) PROVE ChoiceCauses
      BY <1>11 DEF AcceptWrite, VerdictStatus
<1>12. ASSUME NEW c \in Cycles, MarkRead(c) PROVE ChoiceCauses
      BY <1>12 DEF MarkRead, JudgedCandidate
<1>13. ASSUME NEW c \in Cycles, MarkWrite(c) PROVE ChoiceCauses
      BY <1>13 DEF MarkWrite, EligibleBy
<1>14. ASSUME NEW c \in Cycles, Promote(c) PROVE ChoiceCauses
      BY <1>14 DEF Promote, EligibleCandidates, LatestOutcome
<1>15. ASSUME NEW c \in Cycles, PromoCreate(c) PROVE ChoiceCauses
      BY <1>15 DEF PromoCreate
<1>16. ASSUME NEW c \in Cycles, PromoLaunch(c) PROVE ChoiceCauses
      BY <1>16 DEF PromoLaunch
<1>17. ASSUME NEW c \in Cycles, PromoFail(c) PROVE ChoiceCauses
      BY <1>17 DEF PromoFail, Held, HoldsReads
<1>18. ASSUME NEW c \in Cycles, Repair(c) PROVE ChoiceCauses
      BY <1>18 DEF Repair
<1>19. ASSUME NEW c \in Cycles, RepairCreate(c) PROVE ChoiceCauses
      BY <1>19 DEF RepairCreate, RepairIsNew
<1>20. ASSUME NEW c \in Cycles, Exhaust(c) PROVE ChoiceCauses
      BY <1>20 DEF Exhaust, AfterBlocker
<1>21. ASSUME NEW c \in Cycles, BlockerCreate(c) PROVE ChoiceCauses
      BY <1>21 DEF BlockerCreate, AfterBlocker
<1>22. ASSUME NEW c \in Cycles, RejectCheck(c) PROVE ChoiceCauses
      BY <1>22 DEF RejectCheck
<1>23. ASSUME NEW c \in Cycles, RejectWrite(c) PROVE ChoiceCauses
      BY <1>23 DEF RejectWrite, VerdictStatus
<1>24. ASSUME NEW c \in Cycles, CycleCrash(c) PROVE ChoiceCauses
      BY <1>24 DEF CycleCrash
<1>25. ASSUME NEW i \in Repairs, RepairSucceeds(i) PROVE ChoiceCauses
      BY <1>25 DEF RepairSucceeds
<1>26. ASSUME NEW i \in Repairs, RepairFails(i) PROVE ChoiceCauses
      BY <1>26 DEF RepairFails
<1>27. ASSUME NEW a \in Attempts, NEW o \in {"PASS", "FAIL"}, VerifierAnswers(a, o) PROVE ChoiceCauses
      BY <1>27 DEF VerifierAnswers
<1>28. ASSUME NEW a \in Attempts, VerifierErrs(a) PROVE ChoiceCauses
      BY <1>28 DEF VerifierErrs
<1>29. ASSUME NEW a \in Attempts, VerifierDies(a) PROVE ChoiceCauses
      BY <1>29 DEF VerifierDies
<1>30. ASSUME NEW i \in Lineage, PromotionStarts(i) PROVE ChoiceCauses
      BY <1>30 DEF PromotionStarts
<1>31. ASSUME NEW i \in Lineage, PromotionPushes(i) PROVE ChoiceCauses
      BY <1>31 DEF PromotionPushes
<1>32. ASSUME NEW i \in Lineage, PromotionReports(i) PROVE ChoiceCauses
      BY <1>32 DEF PromotionReports, RowsOK
<1>33. ASSUME NEW i \in Lineage, PromotionMarks(i) PROVE ChoiceCauses
      BY <1>33 DEF PromotionMarks
<1>34. ASSUME NEW i \in Lineage, PromotionDies(i) PROVE ChoiceCauses
      BY <1>34 DEF PromotionDies
<1>. QED BY <1>1, <1>2, <1>3, <1>4, <1>5, <1>6, <1>7, <1>8, <1>9, <1>10,
   <1>11, <1>12, <1>13, <1>14, <1>15, <1>16, <1>17, <1>18, <1>19, <1>20,
   <1>21, <1>22, <1>23, <1>24, <1>25, <1>26, <1>27, <1>28, <1>29, <1>30,
   <1>31, <1>32, <1>33, <1>34, SMTT(30) DEF Next, CycleStep, VerifierStep,
   PromotionStep

\* A trusted run has no running workflow.
LEMMA TrustedStep ==
    ASSUME IInv, [Next]_vars
    PROVE  TrustedOK'
<1>1. Grows /\ TrustCauses
      BY NothingIsUndone, TrustCausesStep
<1>2. ASSUME NEW a \in Attempts, Trusted(a)' PROVE verifier[a] \in {"unanswered", "done"}
      BY <1>1, <1>2 DEF TrustCauses, IInv, TrustedOK, LaunchedOK
<1>. QED BY <1>1, <1>2 DEF TrustedOK, Grows

\* The chosen candidate stays the only one.
LEMMA ChosenStep ==
    ASSUME IInv, [Next]_vars
    PROVE  ChosenOK'
<1>1. Grows /\ Causes /\ TrustCauses /\ ChoiceCauses
      BY NothingIsUndone, CausesStep, TrustCausesStep, ChoiceCausesStep
<1> DEFINE NewChoice(i) ==
        /\ tasks[Original] = "completed"
        /\ latest \in Attempts /\ runs[latest].outcome = "PASS"
        /\ cands[i].run = latest /\ runs[latest].cand = i
        /\ UNCHANGED <<runs, latest>>
<1>2. \A i \in Lineage : Chosen(i)' => Chosen(i) \/ NewChoice(i)
      BY <1>1 DEF ChoiceCauses
<1>3. ASSUME NEW i \in Lineage, Chosen(i)'
      PROVE  tasks'[Original] # "awaiting_verification" /\ tasks[Original] # "awaiting_verification"
      BY <1>1, <1>2, <1>3 DEF Grows, IInv, ChosenOK
<1>4. ASSUME NEW i \in Lineage, Chosen(i)', NEW a \in Attempts, Trusted(a)'
      PROVE  runs'[a].cand # i => latest' # a \/ runs'[a].outcome # "PASS"
  <2>1. Trusted(a)
        BY <1>1, <1>3, <1>4 DEF TrustCauses
  <2>2. CASE Chosen(i)
    <3>1. runs[a].cand # i => latest # a \/ runs[a].outcome # "PASS"
          BY <2>1, <2>2 DEF IInv, ChosenOK
    <3>2. verifier[a] # "running"
          BY <2>1 DEF IInv, TrustedOK
    <3>3. runs'[a].cand = runs[a].cand
      <4>1. runs[a].status # "absent"
            BY <2>1 DEF IInv, TrustedOK, RowsOK
      <4>. QED BY <1>1, <4>1 DEF Grows
    <3>. QED BY <1>1, <3>1, <3>2, <3>3 DEF Causes
  <2>3. CASE NewChoice(i)
        BY <2>3
  <2>. QED BY <1>2, <1>4, <2>2, <2>3
<1>5. ASSUME NEW i \in Lineage, Chosen(i)', NEW j \in Lineage, Chosen(j)'
      PROVE  j = i
  <2>1. CASE Chosen(i) /\ Chosen(j)
        BY <2>1 DEF IInv, ChosenOK
  <2>2. CASE NewChoice(i) /\ NewChoice(j)
        BY <2>2
  <2>3. ASSUME NEW k \in Lineage, NewChoice(k) PROVE Trusted(latest)
        BY <2>3 DEF Trusted
  <2>4. CASE Chosen(i) /\ NewChoice(j)
        BY <2>3, <2>4 DEF IInv, ChosenOK
  <2>5. CASE NewChoice(i) /\ Chosen(j)
        BY <2>3, <2>5 DEF IInv, ChosenOK
  <2>. QED BY <1>2, <1>5, <2>1, <2>2, <2>4, <2>5
<1>. QED BY <1>3, <1>4, <1>5 DEF ChosenOK

\* The inductive invariant holds at the start.
LEMMA InitIInv == Init => IInv
<1> SUFFICES ASSUME Init PROVE IInv
    OBVIOUS
<1> USE IdsFacts, BoundsAssumption
<1>1. TypeOK
  <2>1. At("idle") \in CycleRow
        BY HoldingFacts DEF At, PC
  <2>2. tasks \in [Lineage -> TaskStatus] /\ cands \in [Lineage -> CandRow]
        BY DEF Init, TaskStatus, CandRow
  <2>3. runs \in [Attempts -> RunRow]
        BY DEF Init, RunRow, Outcome
  <2>4. promo \in [Lineage -> PromoRow] /\ pusher \in [Lineage -> PusherRow]
        BY DEF Init, PromoRow, PusherRow
  <2>5. faults \in 0 .. MaxFaults
        BY DEF Init
  <2>. QED BY <2>1, <2>2, <2>3, <2>4, <2>5 DEF Init, TypeOK
<1>2. \A c \in Cycles : cyc[c].pc = "idle"
      BY DEF Init, At, Holding
<1>3. Held
      BY <1>2 DEF Held, HoldsIds, HoldsReads, Launching, Accepting, Promoting, Rejecting
<1>4. RowsOK /\ OneVerificationAtATime /\ RejectedAfterAllRepairs
      BY DEF Init, RowsOK, OneVerificationAtATime, RejectedAfterAllRepairs
<1>5. RepairsAreNumbered
  <2>1. RepairTasks = {}
        BY DEF Init, RepairTasks
  <2>2. RepairCount = 0
        BY <2>1, FS_EmptySet DEF RepairCount
  <2>. QED BY <2>1, <2>2 DEF RepairsAreNumbered
<1>6. LaunchedOK
      BY <1>2 DEF Init, LaunchedOK
<1>7. TrustedOK
      BY <1>2 DEF Init, TrustedOK, Trusted, Accepting
<1>8. OnlyPassedIsPromoted
      BY DEF Init, OnlyPassedIsPromoted
<1>9. ChosenOK
      BY <1>2 DEF Init, ChosenOK, Chosen
<1>. QED BY <1>1, <1>3, <1>4, <1>5, <1>6, <1>7, <1>8, <1>9 DEF IInv

\* It is preserved by every step.
LEMMA NextIInv == IInv /\ [Next]_vars => IInv'
BY TypeStep, HeldStep, RowsStep, RepairsStep, NumberedStep, LaunchedStep, TrustedStep,
   PassedStep, ChosenStep DEF IInv

-----------------------------------------------------------------------------
(***************************************************************************)
(* The grounds on which the rows change, for the refinement.               *)
(***************************************************************************)
Marked == {"promotion_eligible", "promoted"}

\* The candidate of a task that may be verified.
Verifiable(i) == i = Original \/ tasks[i] = "completed"

AllMade == \A i \in 1 .. MaxRepairs : tasks[i] # "absent"

\* What a cycle has read is the ground of what it will write.
HoldsGrounds(c) ==
    /\ cyc[c].pc = "verify_insert" => Verifiable(cyc[c].cand)
    /\ cyc[c].pc \in Accepting => runs[cyc[c].run].cand \in passed
    /\ cyc[c].pc \in {"mark_read", "mark_write"} => tasks[Original] # "awaiting_verification"
    /\ cyc[c].pc = "blocker_create" => AllMade
    /\ cyc[c].pc = "promo_create" => cands[cyc[c].cand].status \in Marked

CyclesGrounded == \A c \in Cycles : HoldsGrounds(c)

\* Only completed repairs are verified, and only what is on the branch is
\* reported as a success.
RowsGrounded ==
    /\ \A a \in Attempts : runs[a].status # "absent" => Verifiable(runs[a].cand)
    /\ \A i \in passed : Verifiable(i)
    /\ \A i \in Lineage : pusher[i].step \in {"succeeded", "mark"} => branch = i

Grounded == CyclesGrounded /\ RowsGrounded

\* A mark on a candidate that has passed is not taken back: its task is not
\* open, so no worker reports a candidate in its place.
MarksStay ==
    \A i \in Lineage : /\ i \in passed
                       /\ cands[i].status \in Marked
                       => cands'[i].status \in Marked

\* The rows keep their grounds.
LEMMA RowsGroundedStep ==
    ASSUME IInv, Grounded, [Next]_vars
    PROVE  RowsGrounded'
<1> USE DEF storeVars, worldVars, Fault, IInv, TypeOK, Held, HoldsIds,
   HoldsReads, RowsOK, Grounded, RowsGrounded, Verifiable, Launching,
   Promoting
<1>1. CASE UNCHANGED vars BY <1>1 DEF vars, storeVars, worldVars
<1>2. ASSUME NEW c \in Cycles, Start(c) PROVE RowsGrounded'
      BY <1>2, IdsFacts DEF Start
<1>3. ASSUME NEW c \in Cycles, AcceptRepair(c) PROVE RowsGrounded'
      BY <1>3, IdsFacts DEF AcceptRepair
<1>4. ASSUME NEW c \in Cycles, AcceptRepairWrite(c) PROVE RowsGrounded'
      BY <1>4, IdsFacts DEF AcceptRepairWrite, VerdictStatus
<1>5. ASSUME NEW c \in Cycles, Verify(c) PROVE RowsGrounded'
      BY <1>5, IdsFacts DEF Verify
<1>6. ASSUME NEW c \in Cycles, VerifyInsert(c) PROVE RowsGrounded'
      <2>1. \A a \in Attempts : runs'[a].status # "absent" => Verifiable(runs'[a].cand)
            BY <1>6 DEF VerifyInsert, RunIsNew, CyclesGrounded, HoldsGrounds
      <2>2. UNCHANGED <<tasks, passed, pusher, branch>>
            BY <1>6 DEF VerifyInsert
      <2>. QED BY <2>1, <2>2
<1>7. ASSUME NEW c \in Cycles, VerifyLaunch(c) PROVE RowsGrounded'
      BY <1>7, IdsFacts DEF VerifyLaunch
<1>8. ASSUME NEW c \in Cycles, VerifyFail(c) PROVE RowsGrounded'
      BY <1>8, IdsFacts, Completes DEF VerifyFail, Outcome
<1>9. ASSUME NEW c \in Cycles, Accept(c) PROVE RowsGrounded'
      BY <1>9, IdsFacts DEF Accept, LatestOutcome
<1>10. ASSUME NEW c \in Cycles, AcceptCheck(c) PROVE RowsGrounded'
      BY <1>10, IdsFacts DEF AcceptCheck
<1>11. ASSUME NEW c \in Cycles, AcceptWrite(c) PROVE RowsGrounded'
      BY <1>11, IdsFacts DEF AcceptWrite, VerdictStatus
<1>12. ASSUME NEW c \in Cycles, MarkRead(c) PROVE RowsGrounded'
      BY <1>12, IdsFacts DEF MarkRead, JudgedCandidate
<1>13. ASSUME NEW c \in Cycles, MarkWrite(c) PROVE RowsGrounded'
      BY <1>13, IdsFacts DEF MarkWrite, EligibleBy
<1>14. ASSUME NEW c \in Cycles, Promote(c) PROVE RowsGrounded'
      BY <1>14, IdsFacts DEF Promote, EligibleCandidates
<1>15. ASSUME NEW c \in Cycles, PromoCreate(c) PROVE RowsGrounded'
      BY <1>15, IdsFacts DEF PromoCreate
<1>16. ASSUME NEW c \in Cycles, PromoLaunch(c) PROVE RowsGrounded'
      BY <1>16, IdsFacts, PusherMoves DEF PromoLaunch
<1>17. ASSUME NEW c \in Cycles, PromoFail(c) PROVE RowsGrounded'
      BY <1>17, IdsFacts DEF PromoFail
<1>18. ASSUME NEW c \in Cycles, Repair(c) PROVE RowsGrounded'
      BY <1>18, IdsFacts DEF Repair
<1>19. ASSUME NEW c \in Cycles, RepairCreate(c) PROVE RowsGrounded'
      BY <1>19, IdsFacts DEF RepairCreate, RepairIsNew
<1>20. ASSUME NEW c \in Cycles, Exhaust(c) PROVE RowsGrounded'
      BY <1>20, IdsFacts DEF Exhaust, AfterBlocker
<1>21. ASSUME NEW c \in Cycles, BlockerCreate(c) PROVE RowsGrounded'
      BY <1>21, IdsFacts DEF BlockerCreate, AfterBlocker
<1>22. ASSUME NEW c \in Cycles, RejectCheck(c) PROVE RowsGrounded'
      BY <1>22, IdsFacts DEF RejectCheck
<1>23. ASSUME NEW c \in Cycles, RejectWrite(c) PROVE RowsGrounded'
      BY <1>23, IdsFacts DEF RejectWrite, VerdictStatus
<1>24. ASSUME NEW c \in Cycles, CycleCrash(c) PROVE RowsGrounded'
      BY <1>24, IdsFacts DEF CycleCrash
<1>25. ASSUME NEW i \in Repairs, RepairSucceeds(i) PROVE RowsGrounded'
      BY <1>25, IdsFacts DEF RepairSucceeds
<1>26. ASSUME NEW i \in Repairs, RepairFails(i) PROVE RowsGrounded'
      BY <1>26, IdsFacts DEF RepairFails
<1>27. ASSUME NEW a \in Attempts, NEW o \in {"PASS", "FAIL"}, VerifierAnswers(a, o) PROVE RowsGrounded'
      BY <1>27, IdsFacts, Completes DEF VerifierAnswers, Outcome
<1>28. ASSUME NEW a \in Attempts, VerifierErrs(a) PROVE RowsGrounded'
      BY <1>28, IdsFacts, Completes DEF VerifierErrs, Outcome
<1>29. ASSUME NEW a \in Attempts, VerifierDies(a) PROVE RowsGrounded'
      BY <1>29, IdsFacts DEF VerifierDies
<1>30. ASSUME NEW i \in Lineage, PromotionStarts(i) PROVE RowsGrounded'
      BY <1>30, IdsFacts, PusherMoves DEF PromotionStarts
<1>31. ASSUME NEW i \in Lineage, PromotionPushes(i) PROVE RowsGrounded'
      <2>1. \A j \in Lineage : j # i => pusher'[j] = pusher[j]
            BY <1>31, PusherMoves DEF PromotionPushes
      <2>2. \A j \in Lineage : j # i /\ branch = j => branch' = j
            BY <1>31, IdsFacts DEF PromotionPushes, Pushable
      <2>3. pusher'[i].step \in {"succeeded", "mark"} => branch' = i
        <3>1. CASE branch' = i
              BY <3>1
        <3>2. CASE PusherStep(i, "failed")
              BY <3>2, PusherMoves
        <3>. QED BY <1>31, <3>1, <3>2 DEF PromotionPushes
      <2>. QED BY <1>31, <2>1, <2>2, <2>3 DEF PromotionPushes
<1>32. ASSUME NEW i \in Lineage, PromotionReports(i) PROVE RowsGrounded'
      <2>1. pusher[i].step \in {"succeeded", "failed"} /\ pusher[i].queued > 0
            BY <1>32 DEF PromotionReports
      <2>2. /\ \A j \in Lineage : j # i => pusher'[j] = pusher[j]
            /\ pusher'[i].step # "idle" => pusher'[i].step = "mark" /\ pusher[i].step = "succeeded"
            BY <1>32, <2>1, PusherMoves DEF PromotionReports
      <2>. QED BY <1>32, <2>1, <2>2 DEF PromotionReports
<1>33. ASSUME NEW i \in Lineage, PromotionMarks(i) PROVE RowsGrounded'
      BY <1>33, IdsFacts, PusherMoves DEF PromotionMarks
<1>34. ASSUME NEW i \in Lineage, PromotionDies(i) PROVE RowsGrounded'
      BY <1>34, IdsFacts, PusherMoves DEF PromotionDies
<1>. QED BY <1>1, <1>2, <1>3, <1>4, <1>5, <1>6, <1>7, <1>8, <1>9, <1>10,
   <1>11, <1>12, <1>13, <1>14, <1>15, <1>16, <1>17, <1>18, <1>19, <1>20,
   <1>21, <1>22, <1>23, <1>24, <1>25, <1>26, <1>27, <1>28, <1>29, <1>30,
   <1>31, <1>32, <1>33, <1>34, SMTT(30) DEF Next, CycleStep, VerifierStep,
   PromotionStep
\* Marks stay.
LEMMA MarksStayStep ==
    ASSUME IInv, Grounded, [Next]_vars
    PROVE  MarksStay
<1> USE DEF storeVars, worldVars, Fault, IInv, TypeOK, Held, HoldsIds,
   Grounded, RowsGrounded, Verifiable, MarksStay, Marked
<1>1. CASE UNCHANGED vars BY <1>1 DEF vars, storeVars, worldVars
<1>2. ASSUME NEW c \in Cycles, Start(c) PROVE MarksStay
      BY <1>2, IdsFacts DEF Start
<1>3. ASSUME NEW c \in Cycles, AcceptRepair(c) PROVE MarksStay
      BY <1>3, IdsFacts DEF AcceptRepair
<1>4. ASSUME NEW c \in Cycles, AcceptRepairWrite(c) PROVE MarksStay
      BY <1>4, IdsFacts DEF AcceptRepairWrite, VerdictStatus
<1>5. ASSUME NEW c \in Cycles, Verify(c) PROVE MarksStay
      BY <1>5, IdsFacts DEF Verify
<1>6. ASSUME NEW c \in Cycles, VerifyInsert(c) PROVE MarksStay
      BY <1>6, IdsFacts DEF VerifyInsert, RunIsNew
<1>7. ASSUME NEW c \in Cycles, VerifyLaunch(c) PROVE MarksStay
      BY <1>7, IdsFacts DEF VerifyLaunch
<1>8. ASSUME NEW c \in Cycles, VerifyFail(c) PROVE MarksStay
      BY <1>8, IdsFacts DEF VerifyFail
<1>9. ASSUME NEW c \in Cycles, Accept(c) PROVE MarksStay
      BY <1>9, IdsFacts DEF Accept, LatestOutcome
<1>10. ASSUME NEW c \in Cycles, AcceptCheck(c) PROVE MarksStay
      BY <1>10, IdsFacts DEF AcceptCheck
<1>11. ASSUME NEW c \in Cycles, AcceptWrite(c) PROVE MarksStay
      BY <1>11, IdsFacts DEF AcceptWrite, VerdictStatus
<1>12. ASSUME NEW c \in Cycles, MarkRead(c) PROVE MarksStay
      BY <1>12, IdsFacts DEF MarkRead, JudgedCandidate
<1>13. ASSUME NEW c \in Cycles, MarkWrite(c) PROVE MarksStay
      BY <1>13, IdsFacts DEF MarkWrite, EligibleBy
<1>14. ASSUME NEW c \in Cycles, Promote(c) PROVE MarksStay
      BY <1>14, IdsFacts DEF Promote, EligibleCandidates
<1>15. ASSUME NEW c \in Cycles, PromoCreate(c) PROVE MarksStay
      BY <1>15, IdsFacts DEF PromoCreate
<1>16. ASSUME NEW c \in Cycles, PromoLaunch(c) PROVE MarksStay
      BY <1>16, IdsFacts DEF PromoLaunch
<1>17. ASSUME NEW c \in Cycles, PromoFail(c) PROVE MarksStay
      BY <1>17, IdsFacts DEF PromoFail
<1>18. ASSUME NEW c \in Cycles, Repair(c) PROVE MarksStay
      BY <1>18, IdsFacts DEF Repair
<1>19. ASSUME NEW c \in Cycles, RepairCreate(c) PROVE MarksStay
      BY <1>19, IdsFacts DEF RepairCreate, RepairIsNew
<1>20. ASSUME NEW c \in Cycles, Exhaust(c) PROVE MarksStay
      BY <1>20, IdsFacts DEF Exhaust, AfterBlocker
<1>21. ASSUME NEW c \in Cycles, BlockerCreate(c) PROVE MarksStay
      BY <1>21, IdsFacts DEF BlockerCreate, AfterBlocker
<1>22. ASSUME NEW c \in Cycles, RejectCheck(c) PROVE MarksStay
      BY <1>22, IdsFacts DEF RejectCheck
<1>23. ASSUME NEW c \in Cycles, RejectWrite(c) PROVE MarksStay
      BY <1>23, IdsFacts DEF RejectWrite, VerdictStatus
<1>24. ASSUME NEW c \in Cycles, CycleCrash(c) PROVE MarksStay
      BY <1>24, IdsFacts DEF CycleCrash
<1>25. ASSUME NEW i \in Repairs, RepairSucceeds(i) PROVE MarksStay
      BY <1>25, IdsFacts DEF RepairSucceeds
<1>26. ASSUME NEW i \in Repairs, RepairFails(i) PROVE MarksStay
      BY <1>26, IdsFacts DEF RepairFails
<1>27. ASSUME NEW a \in Attempts, NEW o \in {"PASS", "FAIL"}, VerifierAnswers(a, o) PROVE MarksStay
      BY <1>27, IdsFacts DEF VerifierAnswers
<1>28. ASSUME NEW a \in Attempts, VerifierErrs(a) PROVE MarksStay
      BY <1>28, IdsFacts DEF VerifierErrs
<1>29. ASSUME NEW a \in Attempts, VerifierDies(a) PROVE MarksStay
      BY <1>29, IdsFacts DEF VerifierDies
<1>30. ASSUME NEW i \in Lineage, PromotionStarts(i) PROVE MarksStay
      BY <1>30, IdsFacts DEF PromotionStarts
<1>31. ASSUME NEW i \in Lineage, PromotionPushes(i) PROVE MarksStay
      BY <1>31, IdsFacts DEF PromotionPushes
<1>32. ASSUME NEW i \in Lineage, PromotionReports(i) PROVE MarksStay
      BY <1>32, IdsFacts DEF PromotionReports
<1>33. ASSUME NEW i \in Lineage, PromotionMarks(i) PROVE MarksStay
      BY <1>33, IdsFacts DEF PromotionMarks
<1>34. ASSUME NEW i \in Lineage, PromotionDies(i) PROVE MarksStay
      BY <1>34, IdsFacts DEF PromotionDies
<1>. QED BY <1>1, <1>2, <1>3, <1>4, <1>5, <1>6, <1>7, <1>8, <1>9, <1>10,
   <1>11, <1>12, <1>13, <1>14, <1>15, <1>16, <1>17, <1>18, <1>19, <1>20,
   <1>21, <1>22, <1>23, <1>24, <1>25, <1>26, <1>27, <1>28, <1>29, <1>30,
   <1>31, <1>32, <1>33, <1>34, SMTT(30) DEF Next, CycleStep, VerifierStep,
   PromotionStep
\* The cycle that moves has grounds for what it will do.
LEMMA RepairsAllMade ==
    ASSUME IInv, ~RepairsLeft
    PROVE  AllMade
<1>1. RepairCount = MaxRepairs
      BY Numbers, BoundsAssumption DEF RepairsLeft, IInv, RepairsAreNumbered
<1>. QED BY <1>1 DEF AllMade, RepairTasks, IInv, RepairsAreNumbered

LEMMA OwnGrounds ==
    ASSUME IInv, Grounded, NEW c \in Cycles, CycleStep(c) \/ CycleCrash(c)
    PROVE  HoldsGrounds(c)'
<1> USE DEF storeVars, worldVars, Fault, Goto, GotoWith, GotoWithList, Throw,
   At, Holding, IInv, TypeOK, Held, HoldsIds, RowsOK, Grounded,
   CyclesGrounded, HoldsGrounds, Verifiable, Accepting, Launching, Promoting,
   Marked
<1>1. CASE Start(c)
      BY <1>1 DEF Start
<1>2. CASE AcceptRepair(c)
      BY <1>2 DEF AcceptRepair
<1>3. CASE AcceptRepairWrite(c)
      BY <1>3 DEF AcceptRepairWrite, VerdictStatus
<1>4. CASE Verify(c)
      BY <1>4 DEF Verify, CandidatesForVerification, CompletedRepairs
<1>5. CASE VerifyInsert(c)
      BY <1>5 DEF VerifyInsert, RunIsNew
<1>6. CASE VerifyLaunch(c)
      BY <1>6 DEF VerifyLaunch
<1>7. CASE VerifyFail(c)
      BY <1>7 DEF VerifyFail
<1>8. CASE Accept(c)
      BY <1>8 DEF Accept, LatestOutcome, LaunchedOK
<1>9. CASE AcceptCheck(c)
      BY <1>9 DEF AcceptCheck
<1>10. CASE AcceptWrite(c)
      BY <1>10, IdsFacts DEF AcceptWrite, VerdictStatus
<1>11. CASE MarkRead(c)
      BY <1>11 DEF MarkRead, JudgedCandidate
<1>12. CASE MarkWrite(c)
      BY <1>12 DEF MarkWrite, EligibleBy
<1>13. CASE Promote(c)
      BY <1>13 DEF Promote, EligibleCandidates, CandRow
<1>14. CASE PromoCreate(c)
      BY <1>14 DEF PromoCreate
<1>15. CASE PromoLaunch(c)
      BY <1>15 DEF PromoLaunch
<1>16. CASE PromoFail(c)
      BY <1>16 DEF PromoFail
<1>17. CASE Repair(c)
      BY <1>17 DEF Repair
<1>18. CASE RepairCreate(c)
      BY <1>18 DEF RepairCreate, RepairIsNew
<1>19. CASE Exhaust(c)
      <2>1. ~RepairsLeft => AllMade
            BY RepairsAllMade
      <2>. QED BY <1>19, <2>1 DEF Exhaust, AfterBlocker, AllMade
<1>20. CASE BlockerCreate(c)
      BY <1>20 DEF BlockerCreate, AfterBlocker
<1>21. CASE RejectCheck(c)
      BY <1>21 DEF RejectCheck
<1>22. CASE RejectWrite(c)
      BY <1>22 DEF RejectWrite, VerdictStatus
<1>23. CASE CycleCrash(c)
      BY <1>23 DEF CycleCrash
<1>. QED BY <1>1, <1>2, <1>3, <1>4, <1>5, <1>6, <1>7, <1>8, <1>9, <1>10,
   <1>11, <1>12, <1>13, <1>14, <1>15, <1>16, <1>17, <1>18, <1>19, <1>20,
   <1>21, <1>22, <1>23, SMTT(30) DEF CycleStep

\* The grounds of the other cycles hold on.
LEMMA GroundsKept ==
    ASSUME IInv, Grounded, Grows, MarksStay, NEW d \in Cycles, cyc'[d] = cyc[d]
    PROVE  HoldsGrounds(d)'
<1>1. cyc[d].pc = "verify_insert" => Verifiable(cyc[d].cand)'
      BY IdsFacts, BoundsAssumption DEF IInv, Held, HoldsIds, Grounded, CyclesGrounded,
         HoldsGrounds, Verifiable, Grows, Lineage, Repairs, Original
<1>2. cyc[d].pc \in Accepting => runs'[cyc[d].run].cand \in passed'
      BY DEF IInv, Held, HoldsIds, Grounded, CyclesGrounded, HoldsGrounds, Grows
<1>3. AllMade => AllMade'
      BY BoundsAssumption DEF AllMade, Repairs, Grows
<1>4. cyc[d].pc = "promo_create" => cands'[cyc[d].cand].status \in Marked
      BY DEF IInv, Held, HoldsIds, HoldsReads, Promoting, Grounded, CyclesGrounded, HoldsGrounds,
             MarksStay
<1>. QED BY <1>1, <1>2, <1>3, <1>4 DEF Grounded, CyclesGrounded, HoldsGrounds, Grows

\* Every step keeps the grounds.
LEMMA GroundedStep ==
    ASSUME IInv, Grounded, [Next]_vars
    PROVE  Grounded'
<1>1. Grows /\ MarksStay /\ RowsGrounded'
      BY NothingIsUndone, MarksStayStep, RowsGroundedStep
<1>2. CASE cyc' = cyc
      BY <1>1, <1>2, GroundsKept DEF Grounded, CyclesGrounded
<1>3. ASSUME NEW c \in Cycles, CycleStep(c) \/ CycleCrash(c) PROVE Grounded'
  <2>1. HoldsGrounds(c)'
        BY <1>3, OwnGrounds
  <2>2. \A d \in Cycles : d # c => cyc'[d] = cyc[d]
        BY <1>3, OthersStay
  <2>. QED BY <1>1, <2>1, <2>2, GroundsKept DEF Grounded, CyclesGrounded
<1>4. ASSUME NEW i \in Repairs, RepairSucceeds(i) \/ RepairFails(i) PROVE cyc' = cyc
      BY <1>4 DEF RepairSucceeds, RepairFails
<1>5. ASSUME NEW a \in Attempts, VerifierStep(a) \/ VerifierDies(a) PROVE cyc' = cyc
      BY <1>5 DEF VerifierStep, VerifierAnswers, VerifierErrs, VerifierDies
<1>6. ASSUME NEW i \in Lineage, PromotionStep(i) \/ PromotionDies(i) PROVE cyc' = cyc
      BY <1>6 DEF PromotionStep, PromotionStarts, PromotionPushes, PromotionReports,
                  PromotionMarks, PromotionDies
<1>. QED BY <1>2, <1>3, <1>4, <1>5, <1>6 DEF Next, vars

\* They hold at the start.
LEMMA InitGrounded == Init => Grounded
<1> SUFFICES ASSUME Init PROVE Grounded
    OBVIOUS
<1>1. CyclesGrounded
  <2>1. \A c \in Cycles : cyc[c].pc = "idle"
        BY DEF Init, At, Holding
  <2>. QED BY <2>1 DEF CyclesGrounded, HoldsGrounds, Accepting
<1>2. RowsGrounded
      BY DEF Init, RowsGrounded
<1>. QED BY <1>1, <1>2 DEF Grounded

-----------------------------------------------------------------------------
(***************************************************************************)
(* The refinement, step by step.                                           *)
(***************************************************************************)
\* What the abstract rows are after a write.
LEMMA RowMoves ==
    ASSUME TypeOK, NEW i \in Lineage, NEW s
    PROVE  /\ cands' = [cands EXCEPT ![i].status = s] =>
                 CandStatus' = [CandStatus EXCEPT ![i] = s]
           /\ promo' = [promo EXCEPT ![i].status = s] =>
                 PromoStatus' = [PromoStatus EXCEPT ![i] = s]
           /\ \A a : cands' = [cands EXCEPT ![i] = [status |-> s, run |-> a]] =>
                 CandStatus' = [CandStatus EXCEPT ![i] = s]
           /\ \A a : promo' = [promo EXCEPT ![i] = [status |-> s, run |-> a]] =>
                 PromoStatus' = [PromoStatus EXCEPT ![i] = s]
<1> USE DEF TypeOK, CandStatus, PromoStatus, CandRow, PromoRow
<1>1. ASSUME cands' = [cands EXCEPT ![i].status = s]
      PROVE  CandStatus' = [CandStatus EXCEPT ![i] = s]
      BY <1>1
<1>2. ASSUME promo' = [promo EXCEPT ![i].status = s]
      PROVE  PromoStatus' = [PromoStatus EXCEPT ![i] = s]
      BY <1>2
<1>3. ASSUME NEW a, cands' = [cands EXCEPT ![i] = [status |-> s, run |-> a]]
      PROVE  CandStatus' = [CandStatus EXCEPT ![i] = s]
      BY <1>3
<1>4. ASSUME NEW a, promo' = [promo EXCEPT ![i] = [status |-> s, run |-> a]]
      PROVE  PromoStatus' = [PromoStatus EXCEPT ![i] = s]
      BY <1>4
<1>. QED BY <1>1, <1>2, <1>3, <1>4

\* A step that leaves the rows alone is none of the abstract task.
LEMMA Stutter ==
    ASSUME UNCHANGED <<tasks, because, passed, cands, promo, branch, blocked>>
    PROVE  UNCHANGED Promise!vars
BY DEF Promise!vars, CandStatus, PromoStatus

\* Every step is one of the abstract task, or none.
LEMMA PromiseStep ==
    ASSUME IInv, Grounded, [Next]_vars
    PROVE  (Promise!Next \/ UNCHANGED Promise!vars)
<1> USE DEF storeVars, worldVars
<1>1. CASE UNCHANGED vars BY <1>1, Stutter DEF vars, storeVars, worldVars
<1>2. ASSUME NEW c \in Cycles, Start(c) PROVE (Promise!Next \/ UNCHANGED Promise!vars)
      BY <1>2, Stutter DEF Start
<1>3. ASSUME NEW c \in Cycles, AcceptRepair(c) PROVE (Promise!Next \/ UNCHANGED Promise!vars)
      BY <1>3, Stutter DEF AcceptRepair
<1>4. ASSUME NEW c \in Cycles, AcceptRepairWrite(c) PROVE (Promise!Next \/ UNCHANGED Promise!vars)
      <2>1. cyc[c].task \in Repairs /\ cyc[c].task # Original
            BY <1>4, IdsFacts DEF AcceptRepairWrite, IInv, Held, HoldsIds
      <2>2. CASE tasks[cyc[c].task] = "awaiting_verification"
        <3>1. Promise!AcceptRepair(cyc[c].task)
              BY <1>4, <2>1, <2>2 DEF AcceptRepairWrite, VerdictStatus, Promise!AcceptRepair,
                 Promise!Original, Original, worldVars, CandStatus, PromoStatus
        <3>. QED BY <2>1, <3>1, IdsFacts DEF Promise!Next
      <2>3. CASE tasks[cyc[c].task] = "completed"
        <3>1. tasks' = tasks
              BY <1>4, <2>1, <2>3, IdsFacts DEF AcceptRepairWrite, VerdictStatus, IInv, TypeOK
        <3>. QED BY <1>4, <3>1, Stutter DEF AcceptRepairWrite, worldVars
      <2>. QED BY <1>4, <2>2, <2>3 DEF AcceptRepairWrite, IInv, Held, HoldsReads
<1>5. ASSUME NEW c \in Cycles, Verify(c) PROVE (Promise!Next \/ UNCHANGED Promise!vars)
      BY <1>5, Stutter DEF Verify
<1>6. ASSUME NEW c \in Cycles, VerifyInsert(c) PROVE (Promise!Next \/ UNCHANGED Promise!vars)
      BY <1>6, Stutter DEF VerifyInsert
<1>7. ASSUME NEW c \in Cycles, VerifyLaunch(c) PROVE (Promise!Next \/ UNCHANGED Promise!vars)
      BY <1>7, Stutter DEF VerifyLaunch
<1>8. ASSUME NEW c \in Cycles, VerifyFail(c) PROVE (Promise!Next \/ UNCHANGED Promise!vars)
      BY <1>8, Stutter DEF VerifyFail
<1>9. ASSUME NEW c \in Cycles, Accept(c) PROVE (Promise!Next \/ UNCHANGED Promise!vars)
      BY <1>9, Stutter DEF Accept
<1>10. ASSUME NEW c \in Cycles, AcceptCheck(c) PROVE (Promise!Next \/ UNCHANGED Promise!vars)
      BY <1>10, Stutter DEF AcceptCheck
<1>11. ASSUME NEW c \in Cycles, AcceptWrite(c) PROVE (Promise!Next \/ UNCHANGED Promise!vars)
      <2>1. passed # {}
            BY <1>11 DEF AcceptWrite, Grounded, CyclesGrounded, HoldsGrounds, Accepting
      <2>2. Promise!Accept
            BY <1>11, <2>1 DEF AcceptWrite, VerdictStatus, Promise!Accept, Promise!Original,
               Original, worldVars, CandStatus, PromoStatus
      <2>. QED BY <2>2 DEF Promise!Next
<1>12. ASSUME NEW c \in Cycles, MarkRead(c) PROVE (Promise!Next \/ UNCHANGED Promise!vars)
      BY <1>12, Stutter DEF MarkRead
<1>13. ASSUME NEW c \in Cycles, MarkWrite(c) PROVE (Promise!Next \/ UNCHANGED Promise!vars)
      <2> DEFINE i == cyc[c].cand
      <2>1. i \in Lineage /\ i \in passed /\ tasks[Original] # "awaiting_verification"
            BY <1>13 DEF MarkWrite, IInv, Held, HoldsIds, HoldsReads, Grounded, CyclesGrounded,
               HoldsGrounds
      <2>2. CandStatus' = [CandStatus EXCEPT ![i] = "promotion_eligible"]
            BY <1>13, <2>1, RowMoves DEF MarkWrite, EligibleBy, IInv
      <2>3. Promise!MarkEligible(i)
            BY <1>13, <2>1, <2>2 DEF MarkWrite, Promise!MarkEligible, Promise!Judged,
               Promise!Original, Original, worldVars, PromoStatus
      <2>. QED BY <2>1, <2>3 DEF Promise!Next
<1>14. ASSUME NEW c \in Cycles, Promote(c) PROVE (Promise!Next \/ UNCHANGED Promise!vars)
      BY <1>14, Stutter DEF Promote
<1>15. ASSUME NEW c \in Cycles, PromoCreate(c) PROVE (Promise!Next \/ UNCHANGED Promise!vars)
      <2> DEFINE i == cyc[c].cand
      <2>1. CASE UNCHANGED promo
            BY <1>15, <2>1, Stutter DEF PromoCreate, worldVars
      <2>2. CASE promo[i].status = "absent" /\
                 promo' = [promo EXCEPT ![i] = [status |-> "pending", run |-> cyc[c].run]]
        <3>1. i \in Lineage /\ i \in passed /\ cands[i].status \in Marked
              BY <1>15 DEF PromoCreate, IInv, Held, HoldsIds, HoldsReads, Promoting, Grounded,
                 CyclesGrounded, HoldsGrounds
        <3>2. Chosen(i)
              BY <1>15 DEF PromoCreate, Chosen
        <3>3. tasks[Original] # "awaiting_verification" /\ \A j \in Lineage : Chosen(j) => j = i
              BY <3>1, <3>2 DEF IInv, ChosenOK
        <3>4. \A j \in Lineage : promo[j].status = "absent"
              BY <2>2, <3>3 DEF Chosen
        <3>5. PromoStatus' = [PromoStatus EXCEPT ![i] = "pending"]
              BY <2>2, <3>1, RowMoves DEF IInv
        <3>6. Promise!Choose(i)
              BY <1>15, <3>1, <3>3, <3>4, <3>5 DEF PromoCreate, Promise!Choose, Promise!Judged,
                 Promise!Original, Original, Marked, worldVars, CandStatus, PromoStatus
        <3>. QED BY <3>1, <3>6 DEF Promise!Next
      <2>. QED BY <1>15, <2>1, <2>2 DEF PromoCreate
<1>16. ASSUME NEW c \in Cycles, PromoLaunch(c) PROVE (Promise!Next \/ UNCHANGED Promise!vars)
      BY <1>16, Stutter DEF PromoLaunch
<1>17. ASSUME NEW c \in Cycles, PromoFail(c) PROVE (Promise!Next \/ UNCHANGED Promise!vars)
      <2> DEFINE i == cyc[c].cand
      <2>1. i \in Lineage /\ promo[i].status # "absent"
            BY <1>17 DEF PromoFail, IInv, Held, HoldsIds, HoldsReads, Promoting
      <2>2. PromoStatus' = [PromoStatus EXCEPT ![i] = "failed"]
            BY <1>17, <2>1, RowMoves DEF PromoFail, IInv
      <2>3. Promise!ReportPromotion(i)
            BY <1>17, <2>1, <2>2 DEF PromoFail, Promise!ReportPromotion, worldVars, CandStatus,
               PromoStatus
      <2>. QED BY <2>1, <2>3 DEF Promise!Next
<1>18. ASSUME NEW c \in Cycles, Repair(c) PROVE (Promise!Next \/ UNCHANGED Promise!vars)
      BY <1>18, Stutter DEF Repair
<1>19. ASSUME NEW c \in Cycles, RepairCreate(c) PROVE (Promise!Next \/ UNCHANGED Promise!vars)
      <2> DEFINE i == cyc[c].task
      <2>1. CASE tasks[i] # "absent"
            BY <1>19, <2>1, Stutter DEF RepairCreate, RepairIsNew, worldVars
      <2>2. CASE tasks[i] = "absent"
        <3>1. /\ i \in 1 .. MaxRepairs /\ i \in Lineage /\ cyc[c].run \in Attempts
              /\ \A j \in 1 .. (i - 1) : tasks[j] # "absent"
              BY <1>19, IdsFacts, BoundsAssumption DEF RepairCreate, IInv, Held, HoldsIds,
                 HoldsReads, Repairs
        <3>2. Promise!MakeRepair(i)
              BY <1>19, <2>2, <3>1 DEF RepairCreate, RepairIsNew, Promise!MakeRepair, worldVars,
                 CandStatus, PromoStatus
        <3>. QED BY <3>1, <3>2 DEF Promise!Next
      <2>. QED BY <2>1, <2>2
<1>20. ASSUME NEW c \in Cycles, Exhaust(c) PROVE (Promise!Next \/ UNCHANGED Promise!vars)
      BY <1>20, Stutter DEF Exhaust
<1>21. ASSUME NEW c \in Cycles, BlockerCreate(c) PROVE (Promise!Next \/ UNCHANGED Promise!vars)
      <2>1. Promise!Block
            BY <1>21 DEF BlockerCreate, Promise!Block, Promise!RepairsMade, AllMade, Grounded,
               CyclesGrounded, HoldsGrounds, worldVars, CandStatus, PromoStatus
      <2>. QED BY <2>1 DEF Promise!Next
<1>22. ASSUME NEW c \in Cycles, RejectCheck(c) PROVE (Promise!Next \/ UNCHANGED Promise!vars)
      BY <1>22, Stutter DEF RejectCheck
<1>23. ASSUME NEW c \in Cycles, RejectWrite(c) PROVE (Promise!Next \/ UNCHANGED Promise!vars)
      <2>1. blocked /\ AllRepaired
            BY <1>23 DEF RejectWrite, IInv, Held, HoldsReads, Rejecting
      <2>2. Promise!Reject
            BY <1>23, <2>1 DEF RejectWrite, VerdictStatus, AllRepaired, Promise!Reject,
               Promise!RepairsCompleted, Promise!Original, Original, worldVars, CandStatus,
               PromoStatus
      <2>. QED BY <2>2 DEF Promise!Next
<1>24. ASSUME NEW c \in Cycles, CycleCrash(c) PROVE (Promise!Next \/ UNCHANGED Promise!vars)
      BY <1>24, Stutter DEF CycleCrash
<1>25. ASSUME NEW i \in Repairs, RepairSucceeds(i) PROVE (Promise!Next \/ UNCHANGED Promise!vars)
      <2>1. i \in Lineage /\ i # Promise!Original
            BY IdsFacts DEF Promise!Original, Original
      <2>2. CandStatus' = [CandStatus EXCEPT ![i] = "pending_verification"]
            BY <1>25, <2>1, RowMoves DEF RepairSucceeds, IInv
      <2>3. Promise!EndRepair(i)
            BY <1>25, <2>1, <2>2 DEF RepairSucceeds, Promise!EndRepair, worldVars, PromoStatus
      <2>. QED BY <2>1, <2>3 DEF Promise!Next
<1>26. ASSUME NEW i \in Repairs, RepairFails(i) PROVE (Promise!Next \/ UNCHANGED Promise!vars)
      <2>1. i \in Lineage /\ i # Promise!Original
            BY IdsFacts DEF Promise!Original, Original
      <2>2. Promise!EndRepair(i)
            BY <1>26, <2>1 DEF RepairFails, Promise!EndRepair, CandStatus, PromoStatus
      <2>. QED BY <2>1, <2>2 DEF Promise!Next
<1>27. ASSUME NEW a \in Attempts, NEW o \in {"PASS", "FAIL"}, VerifierAnswers(a, o) PROVE (Promise!Next \/ UNCHANGED Promise!vars)
      <2> DEFINE i == runs[a].cand
      <2>1. UNCHANGED <<tasks, because, cands, promo, branch, blocked>>
            BY <1>27 DEF VerifierAnswers
      <2>2. CASE o = "FAIL"
            BY <1>27, <2>1, <2>2, Stutter DEF VerifierAnswers
      <2>3. CASE o = "PASS"
        <3>1. i \in Lineage /\ Verifiable(i)
              BY <1>27 DEF VerifierAnswers, IInv, RowsOK, Grounded, RowsGrounded
        <3>2. passed' = passed \cup {i}
              BY <1>27, <2>3 DEF VerifierAnswers
        <3>3. Promise!Pass(i)
              BY <2>1, <3>1, <3>2 DEF Promise!Pass, Promise!Original, Original, Verifiable,
                 CandStatus, PromoStatus
        <3>. QED BY <3>1, <3>3 DEF Promise!Next
      <2>. QED BY <2>2, <2>3
<1>28. ASSUME NEW a \in Attempts, VerifierErrs(a) PROVE (Promise!Next \/ UNCHANGED Promise!vars)
      BY <1>28, Stutter DEF VerifierErrs
<1>29. ASSUME NEW a \in Attempts, VerifierDies(a) PROVE (Promise!Next \/ UNCHANGED Promise!vars)
      BY <1>29, Stutter DEF VerifierDies
<1>30. ASSUME NEW i \in Lineage, PromotionStarts(i) PROVE (Promise!Next \/ UNCHANGED Promise!vars)
      BY <1>30, Stutter DEF PromotionStarts
<1>31. ASSUME NEW i \in Lineage, PromotionPushes(i) PROVE (Promise!Next \/ UNCHANGED Promise!vars)
      <2>1. UNCHANGED <<tasks, because, passed, cands, promo, blocked>>
            BY <1>31 DEF PromotionPushes, storeVars
      <2>2. CASE UNCHANGED branch
            BY <2>1, <2>2, Stutter
      <2>3. CASE Pushable(i) /\ branch' = i
        <3>1. promo[i].status # "absent"
              BY <1>31 DEF PromotionPushes, IInv, RowsOK
        <3>2. Promise!Push(i)
              BY <2>1, <2>3, <3>1 DEF Promise!Push, Pushable, CandStatus, PromoStatus
        <3>. QED BY <3>2 DEF Promise!Next
      <2>. QED BY <1>31, <2>2, <2>3 DEF PromotionPushes
<1>32. ASSUME NEW i \in Lineage, PromotionReports(i) PROVE (Promise!Next \/ UNCHANGED Promise!vars)
      <2>1. UNCHANGED <<tasks, because, passed, cands, branch, blocked>>
            BY <1>32 DEF PromotionReports
      <2>2. CASE UNCHANGED promo
            BY <2>1, <2>2, Stutter
      <2>3. CASE promo' = [promo EXCEPT ![i].status = pusher[i].step]
        <3>1. /\ promo[i].status # "absent" /\ pusher[i].step \in {"succeeded", "failed"}
              /\ pusher[i].step = "succeeded" => branch = i
              BY <1>32 DEF PromotionReports, IInv, RowsOK, Grounded, RowsGrounded
        <3>2. PromoStatus' = [PromoStatus EXCEPT ![i] = pusher[i].step]
              BY <2>3, RowMoves DEF IInv
        <3>3. Promise!ReportPromotion(i)
              BY <2>1, <3>1, <3>2 DEF Promise!ReportPromotion, CandStatus, PromoStatus
        <3>. QED BY <3>1, <3>3 DEF Promise!Next
      <2>. QED BY <1>32, <2>2, <2>3 DEF PromotionReports
<1>33. ASSUME NEW i \in Lineage, PromotionMarks(i) PROVE (Promise!Next \/ UNCHANGED Promise!vars)
      <2>1. UNCHANGED <<tasks, because, passed, promo, branch, blocked>> /\ branch = i
            BY <1>33 DEF PromotionMarks, Grounded, RowsGrounded
      <2>2. CandStatus' = [CandStatus EXCEPT ![i] = "promoted"]
            BY <1>33, RowMoves DEF PromotionMarks, IInv
      <2>3. Promise!MarkPromoted(i)
            BY <2>1, <2>2 DEF Promise!MarkPromoted, PromoStatus
      <2>. QED BY <2>3 DEF Promise!Next
<1>34. ASSUME NEW i \in Lineage, PromotionDies(i) PROVE (Promise!Next \/ UNCHANGED Promise!vars)
      BY <1>34, Stutter DEF PromotionDies
<1>. QED BY <1>1, <1>2, <1>3, <1>4, <1>5, <1>6, <1>7, <1>8, <1>9, <1>10,
   <1>11, <1>12, <1>13, <1>14, <1>15, <1>16, <1>17, <1>18, <1>19, <1>20,
   <1>21, <1>22, <1>23, <1>24, <1>25, <1>26, <1>27, <1>28, <1>29, <1>30,
   <1>31, <1>32, <1>33, <1>34, SMTT(30) DEF Next, CycleStep, VerifierStep,
   PromotionStep

\* The start is the abstract one.
LEMMA PromiseInit == Init => Promise!Init
BY IdsFacts DEF Init, Promise!Init, Promise!Original, Original, CandStatus, PromoStatus


-----------------------------------------------------------------------------
(***************************************************************************)
(* The theorems.                                                           *)
(***************************************************************************)
\* The inductive invariant holds in every reachable state: what each cycle has
\* read is still good enough for what it will write (cycle.ts).
THEOREM Invariant == Spec => []IInv
BY InitIInv, NextIInv, PTL DEF Spec

\* Every variable keeps its type, whatever the cycles and workflows do.
THEOREM TypeCorrect == Spec => []TypeOK
<1>1. IInv => TypeOK
      BY DEF IInv
<1>. QED BY Invariant, <1>1, PTL

\* Nothing reaches the branch, a promotion run or the mark "eligible" without a
\* PASS of its own (promotion.ts, promote.ts).
THEOREM NothingUnverifiedIsPromoted == Spec => []OnlyPassedIsPromoted
<1>1. IInv => OnlyPassedIsPromoted
      BY DEF IInv
<1>. QED BY Invariant, <1>1, PTL

\* Overlapping cycles never verify the task twice at once (verification.ts).
THEOREM VerificationsFollowEachOther == Spec => []OneVerificationAtATime
<1>1. IInv => OneVerificationAtATime
      BY DEF IInv
<1>. QED BY Invariant, <1>1, PTL

\* Repairs are numbered without a gap and stay within the threshold (repair.ts).
THEOREM RepairsStayInBounds == Spec => []RepairsAreNumbered
<1>1. IInv => RepairsAreNumbered
      BY DEF IInv
<1>. QED BY Invariant, <1>1, PTL

\* A task is rejected only after every repair it is entitled to, and a person
\* is told (repair.ts).
THEOREM RejectionIsLast == Spec => []RejectedAfterAllRepairs
<1>1. IInv => RejectedAfterAllRepairs
      BY DEF IInv
<1>. QED BY Invariant, <1>1, PTL

\* No interleaving gives two candidates of one task a promotion (promotion.ts).
THEOREM OneCandidateIsPromoted == Spec => []OnePromotion
<1>1. IInv => OnePromotion
      BY DEF IInv, ChosenOK, Chosen, OnePromotion
<1>. QED BY Invariant, <1>1, PTL

\* What the cycles have read stays the ground of what they write: only completed
\* repairs are verified, a task is accepted on a candidate that has passed, and
\* only what is on the branch is reported as a success (cycle.ts, promote.ts).
THEOREM GroundsInvariant == Spec => []Grounded
<1>1. Grounded /\ (IInv /\ [Next]_vars) => Grounded'
      BY GroundedStep
<1>. QED BY Invariant, InitGrounded, <1>1, PTL DEF Spec

\* The overlapping cycles implement the task: every change of a row is one
\* atomic change on the ground that holds at that moment (orchestrator/*.ts).
THEOREM CyclesKeepPromise == Spec => KeepsPromise
<1>1. IInv /\ Grounded /\ [Next]_vars => [Promise!Next]_Promise!vars
      BY PromiseStep
<1>. QED BY Invariant, GroundsInvariant, PromiseInit, <1>1, PTL
         DEF Spec, KeepsPromise, Promise!Spec
=============================================================================
