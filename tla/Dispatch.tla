------------------------------- MODULE Dispatch -------------------------------
(***************************************************************************)
(* POST /dispatch: WorkerDispatcher.dispatch of src/dispatch/dispatcher.ts *)
(* with eligibility.ts, domain/coding-model.ts, assignTaskToWorkerRun of   *)
(* src/state/d1-store.ts and the launch bridge of github-launch-bridge.ts, *)
(* together with the workers that it launches and that spend the budget    *)
(* it has looked at.                                                       *)
(*                                                                         *)
(* Each dispatch is one request with an action per read or write of the    *)
(* store.  A run is named by its task and the dispatch that inserted it.   *)
(* The tasks are numbered in the order of compareTasksForDispatch; money   *)
(* is counted in quarters of a dollar.  Retries and cancellations of runs  *)
(* are in D1Lifecycle.                                                     *)
(***************************************************************************)
EXTENDS Totals

CONSTANTS
    Dispatches,      \* the dispatch requests
    Tasks,           \* the tasks, numbered in dispatch order
    DependencyIds,   \* the dependencies of each task; they may name no task at all
    RepairAttempt,   \* the repair attempt in each task's context, 0 for original work
    HardLimit,       \* the hard limit of llm_cost_usd, 0 when there is none
    MaxAssignments,  \* the request's maxAssignments
    CodingBudgetGate,\* WorkerDispatcherOptions.codingBudgetGate
    Launching,       \* what launchWorkers may be
    Overlaps,        \* whether dispatches may overlap, in which executions
    Costs,           \* what a coding attempt may cost
    MaxFaults        \* bound: dispatches that die, launches refused or lost workers

ASSUME DispatchAssumption ==
    /\ IsFiniteSet(Dispatches)
    /\ IsFiniteSet(Tasks)
    /\ Tasks \subseteq Nat
    /\ DependencyIds \in [Tasks -> SUBSET Nat]
    /\ RepairAttempt \in [Tasks -> Nat]
    /\ HardLimit \in Nat
    /\ MaxAssignments \in 1 .. 32
    /\ CodingBudgetGate \in BOOLEAN
    /\ Launching \subseteq BOOLEAN
    /\ Overlaps \subseteq BOOLEAN
    /\ Costs \subseteq Nat
    /\ MaxFaults \in Nat

NoRun == <<>>
RunIds == Tasks \X Dispatches
RunsOf(t) == {t} \X Dispatches

TaskStatus == {"absent", "pending", "assigned", "in_progress",
               "awaiting_verification", "completed", "failed"}
RunStatus == {"absent", "queued", "running", "succeeded", "failed"}
PC == {"new", "ledger", "runs", "assign", "insert", "undo", "reread", "launch", "done"}

VARIABLES
    status,     \* status of each task
    assigned,   \* its assigned_worker_run_id
    runs,       \* worker_runs: the status of each run
    spent,      \* budget_entries: what each run has recorded, or -1
    disp,       \* the dispatch requests
    overlap,    \* whether they may overlap in this execution, never changed
    launched,   \* worker workflows that were started for a run and wait to claim it
    faults,     \* faults spent
    claims,     \* history: how many workers got hold of each run
    missed      \* history: costs that fell between the two reads of a dispatch

store == <<status, assigned, runs, spent>>
vars == <<store, disp, overlap, launched, faults, claims, missed>>

Snapshot == [status : [Tasks -> TaskStatus], assigned : [Tasks -> RunIds \cup {NoRun}]]
DispatchRow == [pc : PC, launch : BOOLEAN, seen : Snapshot, available : Nat,
                todo : SUBSET Tasks, got : SUBSET RunIds]

TypeOK ==
    /\ status \in [Tasks -> TaskStatus]
    /\ assigned \in [Tasks -> RunIds \cup {NoRun}]
    /\ runs \in [RunIds -> RunStatus]
    /\ spent \in [RunIds -> Costs \cup {-1}]
    /\ disp \in [Dispatches -> DispatchRow]
    /\ overlap \in BOOLEAN
    /\ launched \in [RunIds -> Nat]
    /\ faults \in 0 .. MaxFaults
    /\ claims \in [RunIds -> Nat]
    /\ missed \in Nat

NothingSeen == [status |-> [t \in Tasks |-> "absent"], assigned |-> [t \in Tasks |-> NoRun]]

Init ==
    /\ status = [t \in Tasks |-> "absent"]
    /\ assigned = [t \in Tasks |-> NoRun]
    /\ runs = [r \in RunIds |-> "absent"]
    /\ spent = [r \in RunIds |-> -1]
    /\ disp = [d \in Dispatches |->
                  [pc |-> "new", launch |-> TRUE, seen |-> NothingSeen, available |-> 0,
                   todo |-> {}, got |-> {}]]
    /\ overlap \in Overlaps
    /\ launched = [r \in RunIds |-> 0]
    /\ faults = 0
    /\ claims = [r \in RunIds |-> 0]
    /\ missed = 0

-----------------------------------------------------------------------------
(* eligibility.ts                                                          *)

\* Mutation: a dependency that has been implemented counts before it is verified.
ImplementedSuffices(t, seen) ==
    \A i \in DependencyIds[t] : i \in Tasks /\ seen[i] \in {"awaiting_verification", "completed"}

\* areDependenciesSatisfied: each dependency exists and is completed
AreDependenciesSatisfied(t, seen) ==
    \A i \in DependencyIds[t] : i \in Tasks /\ seen[i] = "completed"

\* isTaskEligibleForDispatch
IsTaskEligible(t, snap) ==
    /\ snap.status[t] = "pending"
    /\ snap.assigned[t] = NoRun
    /\ AreDependenciesSatisfied(t, snap.status)

Eligible(snap) == {t \in Tasks : IsTaskEligible(t, snap)}

\* those that compareTasksForDispatch puts before t
Before(S, t) == {u \in S : u < t}

\* selectIndependentEligibleTasks: greedy, in that order
SelectIndependent(eligible) ==
    {sel \in SUBSET eligible :
        \A t \in eligible :
            t \in sel <=> /\ Cardinality(Before(sel, t)) < MaxAssignments
                         /\ DependencyIds[t] \cap Before(sel, t) = {}}

-----------------------------------------------------------------------------
(* domain/coding-model.ts                                                  *)

\* selectCodingModelForTask, cheap first
SelectCodingModel(t) ==
    CASE RepairAttempt[t] >= 3 -> "gpt-5.6-sol"
      [] RepairAttempt[t] = 2  -> "gpt-5.6-terra"
      [] OTHER                 -> "gpt-5.6-luna"

\* CODING_ATTEMPT_RESERVATION_USD, in quarters of a dollar
Reservation(t) ==
    CASE SelectCodingModel(t) = "gpt-5.6-luna"  -> 1
      [] SelectCodingModel(t) = "gpt-5.6-terra" -> 6
      [] SelectCodingModel(t) = "gpt-5.6-sol"   -> 12

AtLeastZero(n) == IF n > 0 THEN n ELSE 0

\* the entries in the ledger; what no run has recorded does not count
RecordedSpend == Total(spent)

ActiveRuns == {r \in RunIds : runs[r] \in {"queued", "running"}}

\* what the runs that are queued or running keep back, of the tasks that were listed
ActiveReservations(seen) ==
    Total([r \in RunIds |->
              IF r \in ActiveRuns /\ seen[r[1]] # "absent" THEN Reservation(r[1]) ELSE 0])

\* what some tasks need together
Reserved(S) == Total([t \in Tasks |-> IF t \in S THEN Reservation(t) ELSE 0])

\* the tasks that fit into what is available, one after the other
WithinBudget(todo, available) ==
    {sel \in SUBSET todo :
        \A t \in todo :
            t \in sel <=> available - Reserved(Before(sel, t)) >= Reservation(t)}

-----------------------------------------------------------------------------
(* WorkerDispatcher.dispatch                                               *)

At(d, pc) == disp[d].pc = pc
Goto(d, pc) == disp' = [disp EXCEPT ![d].pc = pc]
Idle == \A d \in Dispatches : disp[d].pc \in {"new", "done"}

\* listTasksByProject and listTaskDependencies.  The dependency rows repeat what the
\* row of the task says since its INSERT, so it does not matter when they are read.
ReadTasks(d) ==
    /\ At(d, "new")
    /\ overlap \/ Idle
    /\ LET snap == [status |-> status, assigned |-> assigned]
       IN  \E launch \in Launching, sel \in SelectIndependent(Eligible(snap)) :
              disp' = [disp EXCEPT ![d] =
                 [@ EXCEPT !.pc = IF CodingBudgetGate /\ sel # {} THEN "ledger" ELSE "assign",
                           !.launch = launch, !.seen = snap, !.todo = sel]]
    /\ UNCHANGED <<store, launched, faults, claims, missed, overlap>>

\* getBudgetLedger: without a limit nothing is assigned
ReadLedger(d) ==
    /\ At(d, "ledger")
    /\ IF HardLimit = 0
         THEN disp' = [disp EXCEPT ![d].pc = "assign", ![d].todo = {}]
         ELSE \E available \in 0 .. HardLimit :
                 /\ available = AtLeastZero(HardLimit - RecordedSpend)
                 /\ disp' = [disp EXCEPT ![d].pc = "runs", ![d].available = available]
    /\ UNCHANGED <<store, launched, faults, claims, missed, overlap>>

\* Mutation: the runs that are queued or running keep nothing back.
ReadNoRuns(d) ==
    /\ At(d, "runs")
    /\ \E sel \in WithinBudget(disp[d].todo, disp[d].available) :
          disp' = [disp EXCEPT ![d].pc = "assign", ![d].todo = sel]
    /\ UNCHANGED <<store, launched, faults, claims, missed, overlap>>

\* listWorkerRunsByProject: each active run keeps its reservation back
ReadRuns(d) ==
    /\ At(d, "runs")
    /\ \E available \in 0 .. disp[d].available :
          /\ available = AtLeastZero(disp[d].available - ActiveReservations(disp[d].seen.status))
          /\ \E sel \in WithinBudget(disp[d].todo, available) :
                disp' = [disp EXCEPT ![d].pc = "assign", ![d].available = available,
                                     ![d].todo = sel]
    /\ UNCHANGED <<store, launched, faults, claims, missed, overlap>>

\* the task whose turn it is
IsNext(d, t) == t \in disp[d].todo /\ Before(disp[d].todo, t) = {}

\* the loop over the selected tasks is done
Assigned(d) ==
    /\ At(d, "assign")
    /\ disp[d].todo = {}
    /\ Goto(d, IF disp[d].launch THEN "launch" ELSE "done")
    /\ UNCHANGED <<store, launched, faults, claims, missed, overlap>>

\* assignTaskToWorkerRun up to its batch
Assign(d, t) ==
    /\ At(d, "assign")
    /\ IsNext(d, t)
    /\ IF assigned[t] = NoRun /\ status[t] = "pending"
         THEN Goto(d, "insert")
         ELSE disp' = [disp EXCEPT ![d].todo = @ \ {t},   \* created: false, or undefined
                  ![d].got = IF assigned[t] = NoRun THEN @ ELSE @ \cup {assigned[t]}]
    /\ UNCHANGED <<store, launched, faults, claims, missed, overlap>>

\* the batch: INSERT the run, UPDATE the task if it is still unassigned and pending
InsertRun(d, t) ==
    LET r == <<t, d>>
    IN  /\ At(d, "insert")
        /\ IsNext(d, t)
        /\ runs' = [runs EXCEPT ![r] = "queued"]
        /\ IF assigned[t] = NoRun /\ status[t] = "pending"
             THEN /\ assigned' = [assigned EXCEPT ![t] = r]
                  /\ status' = [status EXCEPT ![t] = "assigned"]
                  /\ disp' = [disp EXCEPT ![d].pc = "assign", ![d].todo = @ \ {t},
                                          ![d].got = @ \cup {r}]
             ELSE Goto(d, "undo") /\ UNCHANGED <<assigned, status>>
        /\ UNCHANGED <<spent, launched, faults, claims, missed, overlap>>

\* DELETE FROM worker_runs: the race for the task is lost
UndoRun(d, t) ==
    /\ At(d, "undo")
    /\ IsNext(d, t)
    /\ runs' = [runs EXCEPT ![<<t, d>>] = "absent"]
    /\ Goto(d, "reread")
    /\ UNCHANGED <<status, assigned, spent, launched, faults, claims, missed, overlap>>

\* the run of the winner is the answer, created: false
RereadTask(d, t) ==
    /\ At(d, "reread")
    /\ IsNext(d, t)
    /\ disp' = [disp EXCEPT ![d].pc = "assign", ![d].todo = @ \ {t},
                            ![d].got = IF assigned[t] = NoRun THEN @ ELSE @ \cup {assigned[t]}]
    /\ UNCHANGED <<store, launched, faults, claims, missed, overlap>>

\* Promise.all of the launches: workflow_dispatch starts a worker, or is refused.
\* The answer only goes into the response.
Launch(d, r, delivered) ==
    /\ At(d, "launch")
    /\ r \in disp[d].got
    /\ IF delivered
         THEN launched' = [launched EXCEPT ![r] = @ + 1] /\ UNCHANGED faults
         ELSE faults < MaxFaults /\ faults' = faults + 1 /\ UNCHANGED launched
    /\ disp' = [disp EXCEPT ![d].got = @ \ {r}]
    /\ UNCHANGED <<store, claims, missed, overlap>>

\* Mutation: the response does not wait for the launches, which then never happen.
RespondEarly(d) ==
    /\ At(d, "launch")
    /\ Goto(d, "done")
    /\ UNCHANGED <<store, launched, faults, claims, missed, overlap>>

Respond(d) ==
    /\ At(d, "launch")
    /\ disp[d].got = {}
    /\ Goto(d, "done")
    /\ UNCHANGED <<store, launched, faults, claims, missed, overlap>>

DispatchStep(d) ==
    \/ ReadTasks(d) \/ ReadLedger(d) \/ ReadRuns(d) \/ Assigned(d)
    \/ \E t \in Tasks : Assign(d, t) \/ InsertRun(d, t) \/ UndoRun(d, t) \/ RereadTask(d, t)
    \/ \E r \in RunIds : Launch(d, r, TRUE)
    \/ Respond(d)

DispatchDies(d) ==
    /\ disp[d].pc \notin {"new", "done"}
    /\ faults < MaxFaults
    /\ faults' = faults + 1
    /\ Goto(d, "done")
    /\ UNCHANGED <<store, launched, claims, missed, overlap>>

-----------------------------------------------------------------------------
(* What goes on meanwhile: tasks appear, workers work and tasks are judged. *)

\* createTask, in the order of the numbers
CreateTask(t) ==
    /\ status[t] = "absent"
    /\ \A u \in Tasks : u < t => status[u] # "absent"
    /\ status' = [status EXCEPT ![t] = "pending"]
    /\ UNCHANGED <<assigned, runs, spent, disp, launched, faults, claims, missed, overlap>>

\* Mutation: a worker claims its run whoever has claimed it before.
ClaimAgain(r) ==
    /\ launched[r] > 0
    /\ launched' = [launched EXCEPT ![r] = @ - 1]
    /\ runs' = [runs EXCEPT ![r] = "running"]
    /\ status' = [status EXCEPT ![r[1]] = "in_progress"]
    /\ claims' = [claims EXCEPT ![r] = @ + 1]
    /\ UNCHANGED <<assigned, spent, disp, faults, missed, overlap>>

\* claim of a launched worker: refused unless the run is queued and is its task's
ClaimRun(r) ==
    /\ launched[r] > 0
    /\ launched' = [launched EXCEPT ![r] = @ - 1]
    /\ IF runs[r] = "queued" /\ assigned[r[1]] = r /\ status[r[1]] = "assigned"
         THEN /\ runs' = [runs EXCEPT ![r] = "running"]
              /\ status' = [status EXCEPT ![r[1]] = "in_progress"]
              /\ claims' = [claims EXCEPT ![r] = @ + 1]
         ELSE UNCHANGED <<runs, status, claims>>
    /\ UNCHANGED <<assigned, spent, disp, faults, missed, overlap>>

\* recordBudgetEntry budg-coding-<run>, while the run is running
RecordCost(r, c) ==
    /\ runs[r] = "running"
    /\ spent[r] = -1
    /\ spent' = [spent EXCEPT ![r] = c]
    \* the part above the reservation was never set aside
    /\ missed' = missed + AtLeastZero(c - Reservation(r[1]))
    /\ UNCHANGED <<status, assigned, runs, disp, launched, faults, claims, overlap>>

\* Mutation: the task takes over the status of its run.
FinishAlike(r, ok) ==
    /\ runs[r] = "running"
    /\ ok => spent[r] # -1
    /\ runs' = [runs EXCEPT ![r] = IF ok THEN "succeeded" ELSE "failed"]
    /\ status' = [status EXCEPT ![r[1]] = runs'[r]]
    /\ UNCHANGED <<assigned, spent, disp, launched, faults, claims, missed, overlap>>

\* succeed or fail, the terminal report of the worker
FinishRun(r, ok) ==
    /\ runs[r] = "running"
    /\ ok => spent[r] # -1
    /\ runs' = [runs EXCEPT ![r] = IF ok THEN "succeeded" ELSE "failed"]
    /\ status' = [status EXCEPT ![r[1]] = IF ok THEN "awaiting_verification" ELSE "failed"]
    \* a dispatch between its two reads has neither the entry nor the run
    /\ missed' = missed + (IF spent[r] # -1 /\ \E d \in Dispatches : At(d, "runs")
                             THEN spent[r] ELSE 0)
    /\ UNCHANGED <<assigned, spent, disp, launched, faults, claims, overlap>>

\* verifyTask
Judge(t, verdict) ==
    /\ status[t] = "awaiting_verification"
    /\ status' = [status EXCEPT ![t] = verdict]
    /\ UNCHANGED <<assigned, runs, spent, disp, launched, faults, claims, missed, overlap>>

Next ==
    \/ \E d \in Dispatches : DispatchStep(d) \/ DispatchDies(d)
    \/ \E d \in Dispatches, r \in RunIds : Launch(d, r, FALSE)
    \/ \E t \in Tasks : CreateTask(t) \/ \E v \in {"completed", "failed"} : Judge(t, v)
    \/ \E r \in RunIds :
          \/ ClaimRun(r)
          \/ \E c \in Costs : RecordCost(r, c)
          \/ \E ok \in BOOLEAN : FinishRun(r, ok)

Spec == Init /\ [][Next]_vars

-----------------------------------------------------------------------------
(* Properties                                                              *)

\* A task is given to a worker only after every task it depends on was completed, and
\* never while one of them does not exist (areDependenciesSatisfied, read from a
\* snapshot that later steps no longer look at).
DependenciesFirst ==
    \A t \in Tasks : assigned[t] # NoRun =>
        \A i \in DependencyIds[t] : i \in Tasks /\ status[i] = "completed"

\* Dispatches that overlap select the same tasks, and the loser of the race launches the
\* winner's run once more (dispatcher.ts:203).  Still at most one worker ever works on a
\* task and at most one of its runs costs money.
OneWorkerPerTask ==
    \A t \in Tasks :
        /\ \A r \in RunsOf(t) :
              claims[r] > 0 \/ runs[r] \notin {"absent", "queued"} => r = assigned[t]
        /\ assigned[t] # NoRun => claims[assigned[t]] <= 1

\* What a run has spent or, while it is its task's and has not, keeps back; and all of it.
Commitment(r) ==
    CASE spent[r] # -1 -> spent[r]
      [] spent[r] = -1 /\ r \in ActiveRuns /\ assigned[r[1]] = r -> Reservation(r[1])
      [] OTHER -> 0
Committed == Total([r \in RunIds |-> Commitment(r)])

\* Admission control of dispatches that do not overlap: money that is spent or set aside
\* never exceeds the hard limit, except for costs above a reservation and for costs of
\* runs that ended between the dispatch's read of the ledger and its read of the runs
\* (dispatcher.ts:134 and :146).
CommittedWithinLimit ==
    CodingBudgetGate /\ HardLimit # 0 /\ ~overlap => Committed <= HardLimit + missed

\* Only the dispatch that got a run launches it, and nothing looks for assigned tasks
\* later: as long as the run of a task is queued, a worker was launched for it or a
\* dispatch still holds the run, unless a dispatch died, a launch was refused or the
\* dispatches that got it were asked not to launch (dispatcher.ts:206).
AssignedIsLaunched ==
    \A t \in Tasks : assigned[t] # NoRun /\ runs[assigned[t]] = "queued" =>
        \/ launched[assigned[t]] > 0
        \/ \E d \in Dispatches :
              /\ assigned[t] \in disp[d].got
              /\ disp[d].pc # "done" \/ ~disp[d].launch
        \/ faults > 0
=============================================================================
