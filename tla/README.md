# A TLA+ development of AutoDev's control plane

AutoDev drives coding work through a control plane (a Cloudflare Worker over a D1
database): a *Master* model proposes tasks, a dispatcher assigns them to worker
runs executed on GitHub Actions, verifiers judge the results, an orchestration
cycle repairs or promotes them. The code is in `src/src/`. This directory holds
the specifications of that system, their TLC configurations and the proofs.

## 1. The system

| component | state it keeps | operations | where |
|---|---|---|---|
| Worker-run lifecycle | none of its own: rows of `tasks`, `worker_runs`, `worker_events`, `worker_reports` | claim, heartbeat, succeed, fail, cancel, recoverExpiredRuns, retry, verifyTaskResult | `executor/` |
| StateStore | every table; two implementations behind one interface | about 90 calls; the compound ones are assignTaskToWorkerRun, applyWorkerRunTaskTransition, claimQueuedWorkerRun, requeueTimedOutWorkerRun, syncAuditFindings, completePromotionRun | `state/in-memory-store.ts`, `state/d1-store.ts` |
| Dispatcher | reads tasks, dependencies, budget; writes assignments, reports, inbox items | dispatch, persistWorkerReport | `dispatch/` |
| Orchestration cycle | verifier runs, candidates, promotion runs, repair tasks, blockers | one cycle: audit, dispatch, verify, repair, promote, re-evaluate | `orchestrator/` |
| Master orchestrator | master state, budget ledger, proposals, blockers, release contract | run: authorize, call the model, record cost, persist | `master/` |
| Promotion | candidate and promotion rows, the remote branch | push, re-inspect, complete | `persistence/` |
| Budget ledger | one row of limits per project, one row per entry | add, increase, record | `domain/budget.ts`, `state/d1-store.ts` |
| Actuator | the worker's lease, its terminal call, its charges and its candidate | claim, heartbeat loop, coding task with one repair pass, succeed or fail | `actuator/` |
| Verifier runner | verifier run outcome, evidence | run a browser spec, report | `verifier/` |
| Auditor | audit findings | pure rules, then a sync | `auditor/` |
| API, CLI, evidence | - | routing, validation, scripts | `api/`, `cli/`, `evidence/` |

The components interact through the tables. Each HTTP request is served by an
invocation that runs concurrently with all others; it talks to D1 one statement
or one `batch` (a transaction) at a time; it may be killed between two of them.
Nothing in the repository calls `recoverExpiredRuns`, `retry` or the cycle on a
schedule: they are requests too. The worker is a separate process that knows its
run id and its lease token, and whose calls may be late or repeated.

What is hard: interleavings between the statements of two invocations
(everywhere a store method reads, decides and then writes); an invocation that
dies between two statements; workers that go silent and come back; late and
repeated finishes; limits (attempts, budget) checked on values read earlier.
`PROJECT.json` lists each hazard at its line.

What makes each component correct:

- *lifecycle*: one worker at a time per task; a lease never changes hands; task
  and run move together; attempts are bounded; the Master is told the outcome of
  every run that ends, once, and truthfully; a silent worker does not hold its task.
- *store*: both implementations have the same effects.
- *dispatcher*: only eligible tasks are assigned; one worker per task; the budget is not
  over-reserved; what is assigned is launched.
- *budget ledger*: no limit beyond what was granted, no acknowledged spend lost.
- *cycle*: one verification in flight per lineage; repairs numbered and bounded; a
  candidate is promoted only if a verifier passed it, and only one of a lineage is;
  a task is rejected only when its repairs are used up; no lineage is stuck.
- *Master*: finishes only on grounds; overspends by a bounded amount; a completed run names
  its tasks with all their dependencies, and they stay active.
- *actuator*: reports the truth, nothing after it lost its lease, and charges every start
  of Codex; a claimed run ends, unless its report came too late.
- *promotion*: the branch gets the candidate's tree at most once.
- *auditor*: the active findings are those that the rules yield for the project.

## 2. The modules

| module | what it is |
|---|---|
| `RunTransitions` | statuses, rows, and the table of moves (`transitions.ts`) |
| `StoreContract` | abstract: the calls of the in-memory store, each atomic, by arbitrary callers |
| `D1Lifecycle` | detailed: the lifecycle over D1, one action per statement or batch of every call |
| `D1Refinement` | the refinement mapping of D1Lifecycle to StoreContract, and its one exception |
| `Orchestration` | the cycle, its verifier and promotion workflows, over one task and its repairs |
| `TaskLineage` | abstract: what becomes of an implemented task, its repairs, candidates and branch, one change of a row at a time, with neither cycles nor verifier runs |
| `OrchestrationRefinement` | the refinement mapping of Orchestration to TaskLineage |
| `Dispatch` | overlapping dispatch requests: selection, coding budget, assignment, launches, and the workers that spend |
| `MasterRun` | overlapping master runs on a project that changes under them |
| `Budget` | the requests of the budget ledger, statement by statement |
| `Actuator` | the workers: script, heartbeat loop, coding task, on one budget |
| `Audit` | extends `Budget`: overlapping audits of a ledger and of runs that move (by `RunTransitions`) |
| `MC*` | instances for TLC: starting states, symmetry sets |
| `Totals` | sums over the ledger, as the number of the units that the amounts consist of |
| `StoreContractProofs`, `D1Proofs`, `OrchestrationProofs`, `DispatchProofs`, `MasterRunProofs`, `AuditProofs`, `ActuatorProofs` | theorems and proofs, a module for each component (`D1Proofs` and `OrchestrationProofs` also of the refinements, `AuditProofs` also of `Budget`) |
| `TotalsProofs` | what sums are and what an update does to them |

Each module takes what it needs of the others as a small environment: in `Dispatch` workers
claim, spend and finish; in `Actuator` the server answers a call by the status of the run; in
`Orchestration` a repair task succeeds or fails. `D1Lifecycle` is where these steps are
modelled in full, and its theorems (tasks and runs move together, leases do not change
hands) are what justifies the environments.

### Correspondence with the code: the lifecycle

`task` and `run` are the rows of `tasks` and `worker_runs`, with the columns that
decide something: status and `assigned_worker_run_id`; status, `task_id`,
`iteration`, `lease_token_hash` and `lease_expires_at`. A run id without a row has
status "absent". An expiry of 0 is NULL: the clock starts at 1, so the code's
"NULL or `<= now`" is `expires <= now`. Status "pending" stands for the two
statuses that can be assigned ("ready" is treated alike everywhere here).
`events`, `report` and `inbox` are what the lifecycle records of a run, `verdicts`
counts the inbox items of verdicts, which nobody deduplicates. The token stands
for its SHA-256 hash.

In `D1Lifecycle` a handler `h` is an invocation and `req[h]` its local state: the
step it is about to take (`pc`), the call (`op`), its run, task and token, the time
`at` that the lifecycle reads before it awaits anything, the runs that a recovery
has listed and not yet tried (`todo`). The actions are the steps:

- `StartAssign`, `Scan`, `Insert`, `Undo`: `assignTaskToWorkerRun`: the reads, the
  COUNT that numbers the run, the batch of INSERT and conditional UPDATE, the
  DELETE when the UPDATE matched nothing. `StartRetry` with the same three steps:
  `retry` and `requeueTimedOutWorkerRun`, whose `Scan` looks for an active run.
- `StartClaim`, `Claim`; `StartHeartbeat`, `Beat`.
- `StartMove`, `Check`, `Batch`, `Reread`: succeed, fail and cancel through
  `applyWorkerRunTaskTransition`. `RunMatches` and `TaskMatches` are the WHERE
  clauses of the two UPDATEs of its batch.
- `StartRecover`, `NextExpired`: `recoverExpiredRuns`, which then goes through the
  same steps for each run it listed.
- `FindEvent`, `AddEvent`, `FindReport`, `AddReport`, `FindInbox`, `AddInbox`:
  `ensureLifecycleEvent`, `persistWorkerReport`, `ensureWorkerReportInbox`. Event
  and report ids are derived from the run's id, so the second of two racing
  inserts fails and its call is thrown out, a recovery with all its remaining runs.
- `StartVerdict`, `WriteVerdict`, `Notify`: `verifyTaskResult`.
- `Crash`: the invocation dies between two steps. `Tick`: the clock.

A batch is one step. Reads that only decide, with no statement of the same call
before them, are one step with their decision; a read whose result is used by a
later write is separate from the write. `StartMove` admits every caller: any
token, any run, at any time, repeated or late. Calls that a store method would
refuse at its first read are not started, since they change nothing.

### Correspondence with the code: the cycle

`Orchestration` follows one original task from the success of its worker run
(status awaiting_verification, one candidate) to the end of its lineage; no decision
of the cycle about a task reads a row of another task's lineage. `tasks[i]` is
the original (0) or its i-th repair task; since a task has one candidate, `cands[i]`
and `promo[i]` are the candidate of task i and its promotion run, whose id is derived
from the candidate's. `runs[a]` is the verifier run of attempt a, `latest` the completed run
with the greatest `completedAt` (two completions in one millisecond are taken in
the order they were written). `because[i]` is the verifier run in the context of
a repair task. Status "open" of a repair stands for pending, assigned and in
progress: its worker is `D1Lifecycle`, here it succeeds (after posting its candidate) or
fails. `verifier[a]` and `pusher[i]` are the launched GitHub workflows;
promotion workflows of one promotion run are queued, since the workflow file names
it as its concurrency group. `branch` is the candidate whose tree the destination
branch of the task holds. `passed` is a history variable.

A cycle `c` is one request to `POST .../orchestrate`; `cyc[c]` holds the point it has
reached and what its current decision has read. The reads of one decision are one
step, taken together with the last of them; every write is a step; what a
write uses was read by an earlier step. The phases are those of `cycle.ts:106-208`, in order:

- `Start`, `AcceptRepair`, `AcceptRepairWrite`: `maybeAcceptCompletedRepairTask` for
  each repair task in the list that was read when the cycle began;
- `Verify`, `VerifyInsert`, `VerifyLaunch`, `VerifyFail`: `maybeRunTaskVerification`
  with the scheduling adapter: a pending run, a launch (delivered, delivered
  without an answer, refused), a FAIL for the latter two;
- `Accept`, `AcceptCheck`, `AcceptWrite`, `MarkRead`, `MarkWrite`: `maybeAcceptVerifiedTask`;
- `Promote`, `PromoCreate`, `PromoLaunch`, `PromoFail`: `maybeSchedulePromotion`;
- `Repair`, `RepairCreate`: `maybeCreateRepairTask`;
- `Exhaust`, `BlockerCreate`, `RejectCheck`, `RejectWrite`: `maybeHandleRepairExhaustion`.

An insert whose id exists throws, which ends the cycle (`Throw`), as does
`verifyTaskResult` when the task has moved on. `CycleCrash` ends it anywhere.
`VerifierAnswers`, `VerifierErrs`, `VerifierDies` are `run-orchestrated-verifier.ts`, which
reports INCONCLUSIVE after any error, also when only the answer to its PASS was
lost. `PromotionStarts`, `PromotionPushes`, `PromotionReports`, `PromotionMarks`,
`PromotionDies` are `runOrchestratedPromotion` and the handler of its report.

`TaskLineage` is what all this amounts to for a reader of the store: the statuses of the task and
its repairs, of the candidates and the promotion runs, the blocker and the branch, each changed
by one atomic action on the ground that holds at that moment. `OrchestrationRefinement` maps the
rows to it; `runs`, `latest`, `verifier`, `pusher`, `cyc` and `faults` have no counterpart. Its guards
are the promise: a repair takes the next number within the threshold and stays; only the task
itself or a completed repair is passed; a task is accepted after some PASS, and rejected after a blocker and the last
repair; a candidate is marked and chosen only once it has passed and the task is judged, and
one is chosen, once; the branch is given one tree; a success is reported, and a candidate marked
"promoted", only when its tree is on the branch. What has no guard is as telling, and
overlapping cycles of the small instance reach all of it: `Accept` and `Reject` may each
overwrite the other, also after the promotion, because `verifyTaskResult` checks the status in one
call and writes it in another; a failure may replace a reported success (`PromoFail`); and a candidate
marked "promoted" may be marked "promotion_eligible" again (`MarkWrite` after a stale `MarkRead`).

Left out: inbox items, test cases and evidence (written before the outcome they
go with), the operator's own verdicts, resolving a blocker, cancelling a repair.

### Correspondence with the code: dispatch

`Dispatch` numbers the tasks in the order of `compareTasksForDispatch` and names a run by its
task and the request that inserted it. `status`, `assigned`, `runs`, `spent` are the rows;
`disp[d]` is a request: what it has listed (`seen`), the money it counts on (`available`), the
selected tasks still to be assigned (`todo`) and the runs to launch (`got`).

- `ReadTasks` lists and selects; `SelectIndependent` and `WithinBudget` are the two greedy
  loops, each written as the one subset in which a task is taken exactly when what was taken
  before it allows so;
- `ReadLedger`, `ReadRuns`: the budget gate, which reads in two queries;
- `Assign`, `InsertRun`, `UndoRun`, `RereadTask`: `assignTaskToWorkerRun`; `Assigned` ends the loop;
- `Launch`, `Respond`: the launches, each delivered or refused; `DispatchDies`.

`CreateTask`, `ClaimRun`, `RecordCost`, `FinishRun`, `Judge` are what goes on meanwhile. A run
records one cost, before it ends; a repair pass of a coding task is part of that amount. Money is
counted in quarters of a dollar, which the three reservations of `coding-model.ts` are.
`missed` is a history variable: costs that no dispatch could have counted.

### Correspondence with the code: master runs

In `MasterRun` `m[i]` is a run in flight: `load` holds the queries of `loadInput` not yet
answered, `gate` and `usage` what they gave, `decision` and `used` what the model answered. `seen[i]` is a
history variable: what the project was while the run was loading.
`project` is what the FINISHED gate looks at, changed by `ProjectStep`. The steps are
`MasterOrchestrator.run` in its order: `Start`, `LoadState`, `InsertState`, `LoadPart`, `Loaded`,
`Authorize`, `ModelAnswers` or `ModelFails`, `RecordTokens`, `RecordDollars`, `Decide`, then for
CREATE_TASKS and REPLAN `ListTasks`, `CreateTask`, `AddDependency`, `SyncRead`, `SetActive`, and
for every run `WriteRow`, `UpdatePhase`, `EnqueueRead`, `EnqueueWrite`. What the model may answer is
the constant `Decisions`: proposal lists in the wrong order, with a cycle, with a repeated
and with an unknown dependency, and FINISHED. Tokens and dollars are small units. A
provider call that fails or times out costs nothing here as in the ledger, although the provider
may bill it. Blockers, verifier runs, test results and evidence are queries of their own in the code and
one read here (part "rest"); `FinishedHadGrounds` asks for each of them separately, so that it claims no more
than the code's separate reads give.

### Correspondence with the code: budgets and audits

`Budget` is one project's ledger. `limits` is the JSON column that every change reads and
writes back whole (`AddRead`, `AddFirst`, `AddNext`, `IncreaseCheck`, `IncreaseRead`, `IncreaseWrite`);
entries are rows with an id of the client's choice (`EntryCheck`, `EntryRead`, `EntryWrite`). The INSERT or UPDATE
of a limit and the answer to its operator are two steps (`AnswerGrant`): a request that stays "granted" is
one whose invocation died after its write, or whose answer was lost, and the operator's second try is one
more request.

`Audit` extends it with audits, each a process: `ListRuns`, `ReadReport` for each run, `ReadTable` for
the five reads that arrive in any order, `Evaluate` with the eight rules as sets of finding
keys, `SelectFinding` and `WriteFinding` for each detected one, `ListActive` and `ResolveFinding` for
those not detected any more, `ListFindings` for the answer. `FindingId` is what
`auditFindingIdFromKey` keeps of a key: neither the project nor the end of a long message, so
that `WriteFinding` may break the primary key, which ends the audit. The tables it observes move by
`WorldStep`, whose moves of runs are the table of `RunTransitions`, or by the requests of
`Budget`. A scene (`Scenes`) fixes which of the two moves, which requests and audits are asked for, and for which
resources audits of other projects may take an id. `calm` is a history flag: nothing the audit observes has moved since it, or
any audit it overlaps with, began. Thresholds are constants.

### Correspondence with the code: workers

In `Actuator` `w[i]` is a worker process: `pc` of its script, `beating` and `flying` for the timer
of `startHeartbeatLoop` and the heartbeat under way, `misses`, `lost`, `aborted` for the flags
they set, `left`, `pass`, `cost`, `first`, `changed` for `runCodingTask`, `ended` and `reason` for what
comes of it. Each call of the control plane is one action with three ends: answered, done
without an answer, never arrived. The script is `Claim`, then `Sleep` (synthetic-noop) or
`GetTaskPacket`, `GetBudget`, `Checkout`, `Codex`, `Charge`, `Test` (once more from `Codex` for the
repair pass), `StoreCandidate`, then `StopHeartbeat` and `Succeed` or `Fail`. Beside it run `Tick`, `Beat`,
`Signal`, `Die`, `Expire`, `LeaseRunsOut` and `Recover`. Of a run the model keeps its status and, while it is
running, what has become of its lease: "expired" is a run still running whose lease is over, and
"stranded" one for which a report was refused after that, which has moved its task (finding 1), so that
`Recover` passes it over for ever. What git, Codex and the trusted test do is an
outcome; a coding task that ends by a signal is reported as failed tests. `crowd` is a history
variable: the most workers that were ever between their look at the budget and their last charge.

## 3. Runs

| run | instance | what it shows |
|---|---|---|
| `d1_lifecycle` | 1 task, 3 run ids, 2 tokens, 2 handlers, 1 death, lease of 1 tick, 2 attempts | type, `RunningOwns`, `TaskBacked`, `AttemptsNumbered`, `ReportsAreTrue`, `ReportsAreOwed`, `LeaseStays`; `KeepsContractButForRefusals`: every step is an atomic call of the contract or none, except the refused finish |
| `store_contract` | 2 tasks, 3 run ids, 2 tokens, 3 ticks, fair | the contract's own invariants and that expired runs end: under this contract, not over D1 (finding 1) |
| `orchestration` | 2 cycles, 2 repairs, 2 verifier runs, 1 fault | type, `OnlyPassedIsPromoted`, `OneVerificationAtATime`, `RepairsAreNumbered`, `RejectedAfterAllRepairs`, `OnePromotion`; `KeepsPromise`: every change of a row is a step of `TaskLineage` |
| `orchestration_live` | 1 cycle, 2 repairs, 4 verifier runs, no fault, fair | `LineageIsSettled`: the task is accepted or rejected; an accepted one is promoted or its promotion reported as failed |
| `dispatch` | 4 tasks, 2 dispatches one after the other or overlapping, limit 7, 1 fault | type, `DependenciesFirst`, `OneWorkerPerTask`, `CommittedWithinLimit`, `AssignedIsLaunched` |
| `master` | 2 master runs one after the other on a project that has begun, or overlapping on one that is accepted, 5 kinds of answer, 1 change of the project | type, `CompletedRunsTellTheirTasks`, `OvershootIsBounded`, `NewTasksAreActive`, `FinishedHadGrounds` |
| `actuator` | 1 coding worker with 2 faults beside a synthetic one; 2 coding workers without faults; fair | type, `OutcomeIsTrue`, `SilentWhenLost`, `LaunchesAreCharged`, `SpendIsBounded`, `ClaimedRunsEnd` |
| `audit` | 1 audit while runs move, from 3 worlds, and 2 audits, from 2 worlds and a table of old findings; 1 audit while 2 budget requests race; 4 budget requests on 2 resources alone | type, `NeverOvergranted`, `AcknowledgedIsRecorded`, `CalmAuditIsExact` |
| `d1_not_contract` | 1 handler | violated: finding 1 |
| `d1_timeout_race` | 2 handlers, lease of 2 ticks | violated: finding 2 |
| `orchestration_last_repair` | 1 cycle, 1 repair, no fault | violated: finding 3 |
| `audit_approaching` | 1 audit, 2 budget requests, nothing else moves | violated: finding 4 |

**Bounds of the lifecycle.** `MaxClock` ends the clock, `MaxCrashes` counts invocations that
died; the finite set `Run` bounds how many runs are ever inserted. One task is enough
over D1: no statement of the lifecycle touches two tasks, and `StoreContract`, which
is run with two, is where tasks could mix. Two handlers give every pairwise race,
and every handler makes any number of calls in turn. Three run ids are an attempt,
a retry and the orphan of a lost race. With `LeaseDuration` 1 a heartbeat never
extends a lease that another tick would not end, so the run about a heartbeat that
comes just in time uses 2. Two attempts meet the limit; no run of TLC tries to pass it, since the clock ends
before the second attempt's lease does, and `AttemptsAreNumbered` is proved for every bound.
Symmetry is used for safety only.

**Bounds of the cycle.** `MaxRepairs` is the code's threshold, and the table has one id more,
so that a model of wrong code can exceed it. `MaxAttempts` bounds the verifier runs: the
cycle goes on without verifying once they are used. Two with two cycles are a verdict and another that
overtakes it. The four of the liveness run are more than a lineage
without faults needs with two repairs if it is verified once per candidate, but a failed
candidate is verified again in every cycle while the next repair is open, so the
bound does end some executions; the liveness run still asks that these are decided.
`MaxFaults` counts crashes, lost answers, refused launches, dead workflows and
failed repairs; one fault with two cycles covers each of them at every point. Two
cycles give every pairwise race, and start again when they end. The safety properties and
`KeepsPromise` hold with three verifier runs too, in a few minutes more, and are proved for any numbers.

**Bounds of dispatch.** Of the four tasks one depends on another, one on a task that does not
exist, and one is a second repair, whose reservation is six times that of the others. The
limit has room for it and one task more; a cost of 2 is beyond the small reservation and
far below the large one, so that both kinds of miscount can happen. Each dispatch is one
request; two of them in either regime (`Overlaps`) are two requests, or one after the other.

**Bounds of the master.** `Estimate` and `CostReserve` are smaller than the larger usage, so that
the limits can be overshot, and the limits have room for one call and not for two. One change of
the project between the reads of two overlapping runs is what makes their inputs inconsistent;
in the accepted project, where runs overlap, every conjunct of the gate is one change away from
failing, or its contract from being replaced by one without a criterion; the project that has just begun, where they
do not, is there for the changes that an accepted one cannot have. With two masters `OvershootIsBounded` is tight
for runs one after the other only: overlapping, its bound is 7 and two calls cannot spend more than 6.

**Bounds of the workers.** Two faults are what a success needs to be lost and contradicted: a lost
answer and a signal, or a lease that runs out under a report. `FailureLimit` 2 is met with
both of them. `HardLimit` 2 with a reservation of 1 and costs up to 2 gives room for one pass
and an overrun. Two workers without faults are enough for the money, which they only share
through the ledger; deaths of workers that spend beside others are left to the proof (`SpendStaysBounded`).

**Bounds of the audits.** One move of the observed tables between the reads of the audits from
the starting worlds reaches every rule; the table of old findings holds an active
finding that is gone and a resolved one that comes back, and is where two audits meet. Both messages are
long and agree in what an id keeps of them, so that two findings of one audit collide. The four budget requests that run
alone are two that race, one that has set the limit and one that is asked again after a lost answer;
with two resources a write of one may take back the limit of the other. Beside an audit two
requests are enough, since audits only read the ledger.

Deadlock checking is off where the clock, the ids or the requests of the instance are used
up; a control plane without requests does nothing. In `orchestration` cycles can always begin
again, and deadlock is checked.

**Fairness.** `StoreContract`'s is that recovery is called for a run that stays
expired: the repository has the route and leaves the schedule to its operator, and
`ExpiredRunsEnd` says what that schedule buys. `FairSpec` of `Orchestration` gives each cycle
weak fairness on its steps, its start included: `cli/autodev-control.ts:243` calls the route
every ten seconds until the project is done. A launched workflow is weakly fair too, and so is
the success of a repair: without a fault a launched job runs to its end. The outcome of a
verification and of a push is free. `FairSpec` of `Actuator` gives weak fairness to the script of
a worker, to the end of a heartbeat that is under way, to the expiry of a lease that nobody renews and to
its recovery, which somebody has to ask for. `control-plane-client.ts` sets no timeout of its own: that a call
ends, answered or not, is left to the platform's fetch. The timer itself is not fair: nothing that must happen
depends on a heartbeat being sent. `D1Lifecycle`, `Dispatch`, `MasterRun` and `Audit` are checked
for safety only; what a request owes there is said by an invariant about who still has it
in hand (`ReportsAreOwed`, `AssignedIsLaunched`).

### Findings

1. **A refused finish moves its task** (`state/d1-store.ts:1495`). The batch's
   `worker_runs` half has the lease condition, the `tasks` half has not. A succeed
   whose lease has expired answers "expired" and leaves the run running, with the
   task in awaiting_verification; the run can then neither finish nor time out,
   for each of these wants the task in_progress; `ClaimedRunsEnd` names it as its one exception. In the in-memory store nothing
   changes. `KeepsContract` fails; `KeepsContractButForRefusals` shows that this is
   the only step of D1 that the contract does not have.
2. **A renewed lease times out** (`executor/lifecycle.ts:426-440`). Recovery lists and
   later times out, with no condition on the lease. `TimedOutHasExpired` fails.
3. **The last repair is not verified** (`orchestrator/repair.ts:107`). The cycle that
   accepts the last repair schedules the verification of its candidate, and in the same
   pass rejects the task on the older FAIL, since exhaustion does not look for a
   pending run. `EveryRepairIsVerified` fails, with one cycle and no fault.
4. **A budget that runs low is never reported** (`auditor/rules.ts:325`).
   `evaluateBudgetAnomaly` passes over every resource for which `checkBudgetView` finds nothing,
   and that finds only exceeded limits: the comparison with the ratio of
   `thresholds.ts:11` is never reached. `ApproachingIsReported` fails, for a budget with less left than the ratio.

Observed while modelling, and part of the models' behaviour, without a run of their own:

- two calls for one run both find no inbox item and both add one (`dispatch/dispatcher.ts:264`,
  whose comment at 217 promises idempotence);
- until a repair is accepted and judged, each further cycle finds the same FAIL and creates
  the next repair from the same parent (`orchestrator/repair.ts:45`); only their number is bounded;
- a limit written between another request's read and write is lost (`state/d1-store.ts:2645`);
- a dispatch reads the ledger and then the runs: a run that records its cost and ends in
  between is in neither (`dispatch/dispatcher.ts:146`); this is the term `missed` of
  `CommittedWithinLimit`, and needs one dispatch only;
- FINISHED is granted on inputs read before the model was called (`master/orchestrator.ts:169`);
- a master run rejected at a later proposal leaves the tasks of the earlier ones, and names none
  (`master/orchestrator.ts:320`);
- a coding task aborted before Codex starts is charged the reservation (`actuator/coding-task.ts:333`);
- the room for a repair pass is computed from the budget read before the first pass
  (`actuator/coding-task.ts:374`), so that workers that spend at the same time overspend, by what `SpendIsBounded` allows: one
  worker's share for each beyond the first;
- a stale audit resolves a finding that another has just opened (`state/d1-store.ts:3013`);
  and since a finding's id leaves out its project and the end of a long message
  (`domain/audit-finding.ts:65`), an insert may break the primary key, and every later audit of that project with it;
- evidence and candidates are written blob first; when the row's insert fails because the id
  exists, the blob of the existing row is deleted (`api/router.ts:776`, `api/router.ts:1574`).

## 4. Proofs

All theorems hold for any values of the constants that satisfy the named assumptions: null
values outside their sets; sets of runs, requests, dispatches, tasks, masters and workers finite, so
that what there is can be counted; durations, limits, amounts and failure limits natural numbers,
positive where the code's are; one pass of Codex has a largest cost. TLC evaluates each of them
in the run of the module that declares it. Every safety invariant and every action property of the
passing runs has a theorem. The inductive invariants of `MasterRun`,
`Audit`, the budgets and `Actuator` were checked by TLC on the instances of the runs before they were proved.

`StoreContractProofs` proves `TaskFollowsRun` (`TogetherAlways`) and
`SingleNonterminalRun` (`OneNonterminalRun`), and the type invariant (`TypeCorrect`). The inductive invariant is the conjunction of the
type invariant with both: a claim keeps a task together with its run only because the run
is the assigned one, and a requeue needs that no other run is active.

`D1Proofs` proves, for any sets of tasks, runs, tokens and handlers, any
lease duration and bounds, with crashes:

- `TypeCorrect`, the type invariant; `Invariant`, the inductive invariant `IInv`;
- `OnlyAssignedRuns` (`RunningOwns`): a run executes only while it is assigned;
- `TasksAreBacked` (`TaskBacked`): a task is never ahead of its run;
- `LeasesStay` (`LeaseStays`): tokens stay, ended runs stay ended;
- `AttemptsAreNumbered` (`AttemptsNumbered`): the runs of a task are numbered 1, 2, ... up to the
  limit, but for the orphans of handlers that lost a race and have not deleted theirs yet.

`IInv` is the conjunction of

- `Typed`: the type invariant, what each step of a call needs of its own fields
  (`Requests`), and that only a running run has a token (`RowsOK`);
- `NewRunsOK`: the id that a handler drew belongs to no other handler, has no row
  before its INSERT, and is an orphan before its DELETE;
- `BegunOK`: a retry past its checks still finds the run it began with timed out,
  a verdict about to be written still finds the task's run succeeded;
- `RunningOwns` and `TaskBacked` themselves.

The middle two are needed because neither `TaskBacked` nor `RunningOwns` says
anything about handlers half way through a call: `Undo` deletes a row, and keeps
`TaskBacked` only because no task points at the row; `WriteVerdict` writes without
looking, and keeps it only because a succeeded run never leaves its task.
The proof has one step per action.

`D1Proofs` also proves that D1 implements the contract but for refused finishes
(`KeepsContractButForRefusals`): with one lemma for each step that changes a table, every step maps to
one atomic call of `StoreContract` or to none. The mapping needs more than `IInv`: that a missing
row holds nothing (the contract's row is then exactly the absent one), that a task never
assigned has no runs (so an assignment's count is still 1 when its batch takes the task), and that a call acts at
a time the clock has passed. These are `RowsExact`, `Unassigned` and `Fitting`, inductive with `IInv`.

Its last part proves `ReportsAreTrue` and `ReportsAreOwed`. What has to be carried through the
five statements of recording an outcome is `RecordersOK`, that a handler in the middle of them has found
its run ended that way and what it has passed recorded, and `EventsAreTrue`. `Due` names the
steps at which somebody must be for an outcome not yet announced: a second delivery that finds the row of the first
throws its call out only because the first has passed that step.

`OrchestrationProofs` proves, for any set of cycles, any threshold, any number of
verifier runs and faults, all the safety properties of the `orchestration` run:
`TypeCorrect`, `NothingUnverifiedIsPromoted` (`OnlyPassedIsPromoted`),
`VerificationsFollowEachOther` (`OneVerificationAtATime`), `RepairsStayInBounds`
(`RepairsAreNumbered`), `RejectionIsLast` (`RejectedAfterAllRepairs`),
`OneCandidateIsPromoted` (`OnePromotion`), `CyclesKeepPromise` (`KeepsPromise`). Its
inductive invariant says, besides these properties,

- `Held`: what a cycle has read is still true enough for what it will write. It reads
  counts and lists that go stale, but a completed run stays completed, a repair that
  exists stays, a completed repair stays completed, a passed candidate stays passed
  (`Grows`), and that is all the writes rely on;
- `RowsOK`, `LaunchedOK`: rows refer to rows; a run is launched once, and only its
  workflow, while "running", makes it a PASS;
- `TrustedOK`: a run on which a cycle accepts, or by which a candidate was marked, has
  no running workflow any more, so it can still lose its PASS but never gain one;
- `ChosenOK`: once a candidate has a promotion run, or a cycle is about to create it, the
  task is closed, so that no further run becomes trusted, and no trusted run of
  another candidate can be the latest with a PASS. This is why two marked
  candidates never both get a promotion run.

`NextVerification` is the counting argument: the attempt is the number of completed
runs, and with no run pending these are exactly the runs below it.
The proof first shows what no step undoes (`NothingIsUndone`) and what each change of
the store goes back to (`CausesStep`, `TrustCausesStep`, `ChoiceCausesStep`), one step
per action; the invariants follow from these without looking at actions again.

`CyclesKeepPromise` is the refinement: under the invariant every step of `Orchestration` maps to a step
of `TaskLineage` or to none (`PromiseStep`, one step per action, with the abstract action that each
write is). What it needs beyond the inductive invariant is `Grounded` (`GroundsInvariant`): a cycle that
is about to accept holds a run whose candidate has passed, one about to mark finds the task judged,
one about to create a blocker finds every repair made, one about to create a promotion run holds a
marked candidate; only the task or a completed repair has verifier runs; a workflow that has a
success to report has its tree on the branch. That a mark is never taken back (`MarksStay`) rests on the
second of these: the worker of a candidate that has passed is done. That a
repair, once made, stays, and that its end is final, follows: no action of `TaskLineage` undoes either.

`DispatchProofs` proves `TypeOK`, `DependenciesFirst`, `OneWorkerPerTask` and `AssignedIsLaunched` for
any tasks, dependencies and dispatches. The inductive invariant adds that a task and its
run agree (`RowsOK`), that a run is claimed once and only as its task's (`ClaimsOK`), that
the dependencies of whatever a dispatch still has to assign are completed (`TodoOK`: the list may
be stale in every other respect), and that a dispatch inserts its run of a task once, and deletes
only a run that no task has (`FreshOK`). Steps that only move a dispatch on go through
`NarrowerStep`, those of workers and verdicts through `OthersStep`.

`LimitIsKept` (`CommittedWithinLimit`) is about the money of dispatches that do not overlap. Its
invariant `MoneyInv` says of the only dispatch under way that no other can take the tasks it has in
hand (`AloneRow`), and of what it counts on that there is room for it (`RoomRow`): between its two
reads, beside the costs that the ledger's sum already has and those that active runs have reserved
or overrun (`Uncounted`); after them, beside everything committed. A greedy selection takes no more than
what it was given (`SelectedFit`), whatever it is.

`MasterRunProofs` proves every safety property of the `master` run, for any number of masters, any
decisions and limits:

- `TypeCorrect`, with `TypeInv`: a proposal list with a cycle or an unknown dependency is never acted on;
- `CompletedRunsTell` (`CompletedRunsTellTheirTasks`) from `RunInv`: a run half way through its list has
  created just the tasks before the next one, with their dependencies (`RunOK`, `CreatingOK`, `MadeOK`).
  The topological order is defined by rounds, and that a task comes after all it waits for is proved
  with a least counterexample, for which a well-founded order of the naturals is enough;
- `FinishedIsGrounded` (`FinishedHadGrounds`) from `GroundsInv`: each part of what the gate looks at was so at
  some time of the run's own load (`ReadOK`), whatever the project has become since, and a run acts on
  FINISHED only if the gate has let it through;
- `ActiveTasksAreKept` (`NewTasksAreActive`) from `AloneInv`: of runs that do not overlap;
- `TokensAreBounded` (`OvershootIsBounded`) from `OvershootInv`: every run that may still charge its
  tokens had seen room for its estimate, and these runs are among those in flight (`Pending`, `ChargeOK`).

`AuditProofs` proves for `Budget` the type invariant, `AcknowledgedIsRecorded`, from the invariant that the step a
request waits for belongs to its kind, and `NeverOvergranted` (`NothingIsOvergranted`): the limit a request has
read and is about to write back was granted when it was read, and what has been granted only
grows (`GrantInv`), although a write over another one may lose a grant. A grant counts from its INSERT or UPDATE
on: what operators have been told is less, when an answer is lost. For `Audit`:

- `AuditsKeepTypes` (`AuditTypeOK`), which says of the findings that no two share an id;
- `CalmAuditsAreExact` (`CalmAuditIsExact`): while an audit is calm, each part of the input that it has
  read is what the tables hold (`ReadingOK`), and the findings it has been through are open, and those of the
  others that should not be are still to be resolved (`SyncingOK`). Two audits that overlap are
  calm or not together (`CalmTogether`), so that both detect the same and neither undoes the
  other. That a limit which was read before the entries still tells whether the sum counts needs that
  no entry precedes the ledger (`FundedInv`), and the reports of a run that its end precedes
  them (`ReportsInv`);
- `LedgerBesideAudits`: the ledger keeps its own invariants in the composition.

`ActuatorProofs` proves `TypeOK`, `OutcomeIsTrue`, `SilentWhenLost` and `LaunchesAreCharged` for any
workers, costs and faults. The invariant ties to the step reached by the script what was launched and charged (`LaunchesOK`),
the timer and the heartbeat (`HeartbeatOK`), and what was stored and told (`EndingOK`). A step belongs to one
worker (`OneWorker`), so for these the workers need no relation to each other.

`SpendStaysBounded` (`SpendIsBounded`) is where they have one, through the ledger. `Potential` is what a worker at a
given step may still spend; the invariant `SpendInv` bounds the sum of what is spent and of all potentials.
No step but the look at the budget raises that sum (`SpendStep`), for a charge moves to the ledger what it takes from
the potential, and a repair is begun only within what was seen. The look starts the sum anew: what is
spent and what was seen to be left are the limit, and each other worker on its way
adds at most `WorkerCost` (`LookSpends`).

`TotalsProofs` is behind the theorems about money. `Totals` defines a sum as the
cardinality of a set of units, so that a sum is never computed in some order: that an update changes a sum by
the difference of one row (`TotalUpdate`), or that a sum is bounded by its rows (`TotalBounded`,
`TotalMonotone`, `TotalAtMostBoth`), follows from the theorems about finite sets, with no induction.

**Only model-checked.** `ExpiredRunsEnd`, `LineageIsSettled` and `ClaimedRunsEnd` are temporal under fairness, out of the
prover's reach, and stay with TLC. So do the four runs that show a violation. That a selection of tasks or an order
of proposals *is* the one the code's loop computes is by definition here; the proofs use only what
follows from its defining condition.

## 5. Not modelled, and why

- Routes that write raw rows (`POST /api/worker-runs`, `/worker-events`,
  `/worker-reports` with ids of the caller's choice, `PATCH` of a task's status): they
  bypass the lifecycle and no invariant of it survives an arbitrary write. They are
  authenticated operator routes.
- Evidence, artifacts and test cases: rows and blobs that no decision reads, apart from the existence
  of evidence, which is a flag of `MasterRun`.
- No route resolves a blocker or updates an acceptance criterion; `ProjectStep` has both, as direct
  writes of the store, since otherwise FINISHED could not be reached.
- The reconstruction of lifecycles for an audit's answer, which only reads; summaries and severities.
- The control scripts: sequential pollers that keep no state. Every request they make is one
  that the modules let any caller make at any time.
- The composition of a whole cycle (audit, dispatch, verification, re-evaluation) in one module: its
  phases share no variable beyond the tables, and each is checked against an environment that
  moves those tables at any time.
- Wording, sanitising and metrics of reports, prompts, HTTP, authentication, validation of bodies.
- git, Codex, the browser and the model provider: their outcomes are free.

## 6. What is left

1. `Evidence`: blob and row of evidence and candidates under repeated requests.
