------------------------------ MODULE MasterRun ------------------------------
(***************************************************************************)
(* POST /master/run: MasterOrchestrator.run of src/master/orchestrator.ts  *)
(* with budget.ts, release-gate.ts, active-tasks.ts, validate-output.ts    *)
(* and openai-client.ts, on the rows of src/state/d1-store.ts.             *)
(*                                                                         *)
(* A run reads its inputs, asks the model, and acts on the answer much     *)
(* later: each read and each write is an action, several runs may overlap  *)
(* and the project goes on changing under them.  A run whose invocation    *)
(* dies takes no more steps.  The answers that the model may give are the  *)
(* constant Decisions; tokens and dollars are counted in small units.      *)
(***************************************************************************)
EXTENDS Integers, FiniteSets, FiniteSetsExt, SequencesExt

CONSTANTS
    Masters,         \* the master runs, in flight together
    ExistingTasks,   \* tasks of the project at the start
    Keys,            \* clientKeys of task proposals
    UnknownIds,      \* ids that the model may make up
    Decisions,       \* what the model may answer, [action, proposals]
    TokenLimit,      \* hard limit of llm_tokens, 0 when there is none
    CostLimit,       \* hard limit of llm_cost_usd, 0 when there is none
    Estimate,        \* estimateMasterCallTokens
    CostReserve,     \* DEFAULT_MASTER_CALL_COST_RESERVE_USD
    Usages,          \* [tokens, usd] that a call may report
    MaxAttempts,     \* OpenAIMasterModelClientOptions.maxAttempts
    MaxVersions,     \* bound: release contracts
    MaxChanges,      \* bound: changes of the project by others
    Scenes           \* [overlap, project]: how many master runs may overlap, and what
                     \* the FINISHED gate looks at when the first of them starts

ASSUME MasterAssumption ==
    /\ TokenLimit \in Nat /\ CostLimit \in Nat
    /\ Estimate \in Nat /\ CostReserve \in Nat
    /\ MaxAttempts \in Nat \ {0}
    /\ MaxVersions \in Nat /\ MaxChanges \in Nat
    /\ IsFiniteSet(Masters)
    /\ IsFiniteSet(Usages) /\ Usages \subseteq [tokens : Nat, usd : Nat]

Actions == {"CREATE_TASKS", "REPLAN", "WAIT_FOR_WORKERS", "REQUEST_VERIFICATION",
            "REQUEST_HUMAN_APPROVAL", "FINAL_ACCEPTANCE", "FINISHED", "BLOCKED"}

\* Mutation: the phase is the name of the action.
PhaseIsAction(action) == action

\* phaseForAction
Phase(action) ==
    CASE action \in {"CREATE_TASKS", "REPLAN"}              -> "planning"
      [] action = "WAIT_FOR_WORKERS"                        -> "executing"
      [] action = "REQUEST_VERIFICATION"                    -> "verifying"
      [] action \in {"REQUEST_HUMAN_APPROVAL", "BLOCKED"}   -> "paused"
      [] action = "FINAL_ACCEPTANCE"                        -> "accepting"
      [] action = "FINISHED"                                -> "completed"

\* A task is named by the run and the proposal it comes from.
NewTasks == Masters \X Keys
TaskIds == ExistingTasks \cup NewTasks
NoTask == <<>>

\* the shape that parseTaskProposal asserts; the ids of tasks are not checked
ProposalRow == [key : Keys, deps : Seq(Keys), existing : Seq(TaskIds \cup UnknownIds)]

ASSUME TasksAssumption ==
    /\ ExistingTasks \cap NewTasks = {}
    /\ UnknownIds \cap TaskIds = {}
ASSUME DecisionsAssumption ==
    \A d \in Decisions : d.action \in Actions /\ d.proposals \in Seq(ProposalRow)

NoDecision == [action |-> "BLOCKED", proposals |-> <<>>]

VARIABLES
    state,     \* master_state: exists, phase, inbox ids, active task ids
    inbox,     \* master_inbox: the runs whose decision was enqueued
    tasks,     \* the tasks of the project: "absent", "open" or "terminal"
    depRows,   \* task_dependencies
    usage,     \* budget_entries: tokens and dollars recorded
    project,   \* what the FINISHED gate looks at
    overlap,   \* how many runs may overlap in this execution, never changed
    changes,   \* changes of the project so far
    rows,      \* master_runs
    m,         \* the master runs in flight
    seen       \* history: what each run could read of the project while it was loading,
               \* forgotten when it decides anything but FINISHED

vars == <<state, inbox, tasks, depRows, usage, project, overlap, changes, rows, m, seen>>

GateInput == [contract : 0 .. MaxVersions,
              criterion : [1 .. MaxVersions -> {"absent", "pending", "PASS"}],
              blocked : BOOLEAN, verified : BOOLEAN,
              regression : {"none", "PASS", "FAIL"}, evidence : BOOLEAN]
ASSUME ScenesAssumption ==
    \A s \in Scenes : s.overlap \in Nat \ {0} /\ s.project \in GateInput

StateRow == [exists : BOOLEAN,
             phase : {"initializing", "planning", "executing", "verifying", "paused",
                      "accepting", "completed", "failed"},
             inbox : SUBSET Masters, active : SUBSET TaskIds]
RunRow == [status : {"absent", "completed", "blocked", "rejected", "failed"},
           action : Actions, created : SUBSET NewTasks]
Parts == {"state", "insert", "budget", "contract", "criteria", "rest"}
PC == {"new", "load", "authorize", "call", "tokens", "dollars", "decide", "list",
       "create", "depend", "sync", "setactive", "row", "phase", "enqueue", "inbox",
       "done", "error"}
MasterRow == [pc : PC, load : SUBSET Parts, gate : GateInput,
              usage : [tokens : Nat, usd : Nat], attempt : Nat, used : [tokens : Nat, usd : Nat],
              decision : Decisions \cup {NoDecision}, action : Actions,
              result : {"completed", "blocked", "rejected", "failed"},
              todo : SUBSET Keys, task : NewTasks \cup {NoTask}, deps : Seq(TaskIds),
              known : SUBSET TaskIds,
              active : SUBSET TaskIds, ids : SUBSET Masters]

TypeOK ==
    /\ state \in StateRow
    /\ inbox \subseteq Masters
    /\ tasks \in [TaskIds -> {"absent", "open", "terminal"}]
    /\ depRows \subseteq (TaskIds \X TaskIds)
    /\ usage \in [tokens : Nat, usd : Nat]
    /\ project \in GateInput
    /\ overlap \in {s.overlap : s \in Scenes}
    /\ changes \in 0 .. MaxChanges
    /\ rows \in [Masters -> RunRow]
    /\ m \in [Masters -> MasterRow]
    /\ seen \in [Masters -> SUBSET GateInput]

EmptyProject == [contract |-> 0, criterion |-> [v \in 1 .. MaxVersions |-> "absent"],
                 blocked |-> FALSE, verified |-> FALSE, regression |-> "none",
                 evidence |-> FALSE]
NoUsage == [tokens |-> 0, usd |-> 0]

Init ==
    /\ state = [exists |-> FALSE, phase |-> "initializing", inbox |-> {}, active |-> {}]
    /\ inbox = {}
    /\ tasks = [t \in TaskIds |-> IF t \in ExistingTasks THEN "open" ELSE "absent"]
    /\ depRows = {}
    /\ usage = NoUsage
    /\ \E s \in Scenes : project = s.project /\ overlap = s.overlap
    /\ changes = 0
    /\ rows = [i \in Masters |-> [status |-> "absent", action |-> "BLOCKED", created |-> {}]]
    /\ m = [i \in Masters |->
              [pc |-> "new", load |-> {}, gate |-> EmptyProject, usage |-> NoUsage,
               attempt |-> 0, used |-> NoUsage, decision |-> NoDecision,
               action |-> "BLOCKED", result |-> "blocked", todo |-> {}, task |-> NoTask,
               deps |-> <<>>,
               known |-> {}, active |-> {}, ids |-> {}]]
    /\ seen = [i \in Masters |-> {}]

-----------------------------------------------------------------------------
(* What a decision looks at.                                               *)

\* Mutation: the call is refused only once the limit is passed.
TokensAllowedUpToLimit(used) == TokenLimit # 0 /\ used.tokens <= TokenLimit

\* authorizeLlmBudget: a missing ledger or limit blocks the call
TokensAllowed(used) == TokenLimit # 0 /\ used.tokens + Estimate <= TokenLimit

\* authorizeOptionalLlmCostBudget: without a limit there is nothing to exceed
CostAllowed(used) == CostLimit = 0 \/ used.usd + CostReserve <= CostLimit

\* Mutation: an absent criterion counts as one that does not apply.
GateWithoutCriteria(g) ==
    /\ g.contract # 0
    /\ g.criterion[g.contract] # "pending"
    /\ ~g.blocked /\ g.verified /\ g.regression = "PASS" /\ g.evidence

\* evaluateFinishedGate
FinishedGate(g) ==
    /\ g.contract # 0
    /\ g.criterion[g.contract] = "PASS"
    /\ ~g.blocked
    /\ g.verified
    /\ g.regression = "PASS"
    /\ g.evidence

\* the keys of a decision's proposals, and the dependencies among them
KeysOf(d) == {d.proposals[i].key : i \in DOMAIN d.proposals}
Proposal(d, k) == CHOOSE p \in ToSet(d.proposals) : p.key = k

\* topologicalTaskProposals: the round in which each proposal is placed, that after the
\* last of those it depends on; there are no rounds for a cycle
Rounds(d) ==
    {round \in [KeysOf(d) -> 1 .. Len(d.proposals)] :
        \A k \in KeysOf(d) :
            round[k] = 1 + Max({0} \cup {round[j] : j \in ToSet(Proposal(d, k).deps)})}

\* ... and within a round as the model has listed them
Position(d, k) == CHOOSE i \in DOMAIN d.proposals : d.proposals[i].key = k
PlacedBefore(d, j, k) ==
    LET round == CHOOSE r \in Rounds(d) : TRUE
    IN  \/ round[j] < round[k]
        \/ round[j] = round[k] /\ Position(d, j) < Position(d, k)

\* validateMasterDecision: known, distinct, acyclic keys, and tasks for CREATE_TASKS
ValidDecision(d) ==
    /\ Cardinality(KeysOf(d)) = Len(d.proposals)
    /\ \A p \in ToSet(d.proposals) : ToSet(p.deps) \subseteq KeysOf(d) \ {p.key}
    /\ Rounds(d) # {}
    /\ d.action = "CREATE_TASKS" => d.proposals # <<>>

\* Mutation: the new tasks are not added.
NextActiveForgets(active, created) == {t \in active : tasks[t] = "open"}

\* nextActiveTaskIds: what was active and what is new, less the terminal tasks
NextActive(active, created) ==
    {t \in active \cup created : tasks[t] = "open"}

-----------------------------------------------------------------------------

At(i, pc) == m[i].pc = pc
Goto(i, pc) == m' = [m EXCEPT ![i].pc = pc]
InFlight == {i \in Masters : m[i].pc \notin {"new", "done", "error"}}
Created(i) == {t \in NewTasks : t[1] = i /\ tasks[t] # "absent"}

\* persistBlockedRun, persistRejectedRun, persistFailedRun: no created task is named
Conclude(i, result) ==
    m' = [m EXCEPT ![i].pc = "row", ![i].action = "BLOCKED", ![i].result = result]

Start(i) ==
    /\ At(i, "new")
    /\ Cardinality(InFlight) < overlap
    /\ m' = [m EXCEPT ![i].pc = "load", ![i].load = Parts \ {"insert"}]
    /\ seen' = [seen EXCEPT ![i] = {project}]
    /\ UNCHANGED <<state, inbox, tasks, depRows, usage, project, changes, rows, overlap>>

\* getOrCreateMasterState: SELECT
LoadState(i) ==
    /\ At(i, "load") /\ "state" \in m[i].load
    /\ m' = [m EXCEPT ![i].load = (@ \ {"state"}) \cup (IF state.exists THEN {} ELSE {"insert"})]
    /\ UNCHANGED <<state, inbox, tasks, depRows, usage, project, changes, rows, overlap, seen>>

\* ... and INSERT, whose key is the project
InsertState(i) ==
    /\ At(i, "load") /\ "insert" \in m[i].load
    /\ IF state.exists
         THEN Goto(i, "error") /\ UNCHANGED state
         ELSE /\ state' = [state EXCEPT !.exists = TRUE]
              /\ m' = [m EXCEPT ![i].load = @ \ {"insert"}]
    /\ UNCHANGED <<inbox, tasks, depRows, usage, project, changes, rows, overlap, seen>>

\* loadInput: the other queries run side by side, in any order
LoadPart(i, part) ==
    /\ At(i, "load") /\ part \in m[i].load
    /\ m' = [m EXCEPT ![i].load = @ \ {part},
         ![i].usage = IF part = "budget" THEN usage ELSE @,
         ![i].gate =
             CASE part = "contract" -> [@ EXCEPT !.contract = project.contract]
               [] part = "criteria" -> [@ EXCEPT !.criterion = project.criterion]
               [] part = "rest"     -> [project EXCEPT !.contract = m[i].gate.contract,
                                                       !.criterion = m[i].gate.criterion]
               [] OTHER -> @]
    /\ UNCHANGED <<state, inbox, tasks, depRows, usage, project, changes, rows, overlap, seen>>

Loaded(i) ==
    /\ At(i, "load") /\ m[i].load = {}
    /\ Goto(i, "authorize")
    /\ UNCHANGED <<state, inbox, tasks, depRows, usage, project, changes, rows, overlap, seen>>

Authorize(i) ==
    /\ At(i, "authorize")
    /\ IF TokensAllowed(m[i].usage) /\ CostAllowed(m[i].usage)
         THEN Goto(i, "call") ELSE Conclude(i, "blocked")
    /\ UNCHANGED <<state, inbox, tasks, depRows, usage, project, changes, rows, overlap, seen>>

\* complete: an answer, with the usage it reports
ModelAnswers(i, d, u) ==
    /\ At(i, "call")
    /\ m' = [m EXCEPT ![i].pc = "tokens", ![i].decision = d, ![i].used = u]
    /\ UNCHANGED <<state, inbox, tasks, depRows, usage, project, changes, rows, overlap, seen>>

\* complete: a timeout, 429 or 5xx is tried again; anything else, or the last attempt, fails
ModelFails(i, transient) ==
    /\ At(i, "call")
    /\ IF transient /\ m[i].attempt + 1 < MaxAttempts
         THEN m' = [m EXCEPT ![i].attempt = @ + 1]
         ELSE Conclude(i, "failed")
    /\ UNCHANGED <<state, inbox, tasks, depRows, usage, project, changes, rows, overlap, seen>>

RecordTokens(i) ==
    /\ At(i, "tokens")
    /\ usage' = [usage EXCEPT !.tokens = @ + m[i].used.tokens]
    /\ Goto(i, "dollars")
    /\ UNCHANGED <<state, inbox, tasks, depRows, project, changes, rows, overlap, seen>>

\* only under a dollar limit
RecordDollars(i) ==
    /\ At(i, "dollars")
    /\ usage' = IF CostLimit # 0 THEN [usage EXCEPT !.usd = @ + m[i].used.usd] ELSE usage
    /\ Goto(i, "decide")
    /\ UNCHANGED <<state, inbox, tasks, depRows, project, changes, rows, overlap, seen>>

\* validateMasterDecision, then the gate on the inputs that were loaded at the start
Decide(i) ==
    LET d == m[i].decision
        enforced == IF d.action = "FINISHED" /\ ~FinishedGate(m[i].gate)
                      THEN "BLOCKED" ELSE d.action
    IN  /\ At(i, "decide")
        /\ IF ~ValidDecision(d)
             THEN Conclude(i, "rejected")
             ELSE m' = [m EXCEPT
                    ![i].pc = IF enforced \in {"CREATE_TASKS", "REPLAN"} THEN "list" ELSE "row",
                    ![i].action = enforced,
                    ![i].result = IF enforced = "BLOCKED" THEN "blocked" ELSE "completed"]
        /\ seen' = [seen EXCEPT ![i] = IF ValidDecision(d) /\ enforced = "FINISHED" THEN @ ELSE {}]
        /\ UNCHANGED <<state, inbox, tasks, depRows, usage, project, changes, rows, overlap>>

\* persistTaskProposals: listTasksByProject
ListTasks(i) ==
    /\ At(i, "list")
    /\ m' = [m EXCEPT ![i].pc = "create", ![i].todo = KeysOf(m[i].decision),
                      ![i].known = {t \in TaskIds : tasks[t] # "absent"}]
    /\ UNCHANGED <<state, inbox, tasks, depRows, usage, project, changes, rows, overlap, seen>>

\* the next proposal in topological order
NextKey(i) ==
    CHOOSE k \in m[i].todo :
        \A j \in m[i].todo \ {k} : PlacedBefore(m[i].decision, k, j)

\* Mutation: the dependencies among the proposals are not resolved to task ids.
CreateTaskAlone(i) ==
    LET p == Proposal(m[i].decision, NextKey(i))
        t == <<i, p.key>>
    IN  /\ At(i, "create")
        /\ m[i].todo # {}
        /\ IF ToSet(p.existing) \subseteq m[i].known
             THEN /\ tasks' = [tasks EXCEPT ![t] = "open"]
                  /\ m' = [m EXCEPT ![i].pc = "depend", ![i].todo = @ \ {p.key}, ![i].task = t,
                              ![i].known = @ \cup {t}, ![i].deps = p.existing]
             ELSE Conclude(i, "rejected") /\ UNCHANGED tasks
        /\ UNCHANGED <<state, inbox, depRows, usage, project, changes, rows, overlap, seen>>

\* createTask of the next proposal, unless it names a task that does not exist
CreateTask(i) ==
    LET p == Proposal(m[i].decision, NextKey(i))
        t == <<i, p.key>>
    IN  /\ At(i, "create")
        /\ m[i].todo # {}
        /\ IF ToSet(p.existing) \subseteq m[i].known
             THEN /\ tasks' = [tasks EXCEPT ![t] = "open"]
                  /\ m' = [m EXCEPT ![i].pc = "depend", ![i].todo = @ \ {p.key}, ![i].task = t,
                              ![i].known = @ \cup {t},
                              ![i].deps = p.existing \o [j \in DOMAIN p.deps |-> <<i, p.deps[j]>>]]
             ELSE Conclude(i, "rejected") /\ UNCHANGED tasks
        /\ UNCHANGED <<state, inbox, depRows, usage, project, changes, rows, overlap, seen>>

\* addTaskDependency of the task just created; the pair is the key of its row
AddDependency(i) ==
    /\ At(i, "depend")
    /\ IF m[i].deps = <<>>
         THEN Goto(i, "create") /\ UNCHANGED depRows
         ELSE LET row == <<m[i].task, Head(m[i].deps)>>
              IN  IF row \in depRows
                    THEN Conclude(i, "rejected") /\ UNCHANGED depRows
                    ELSE depRows' = depRows \cup {row} /\ m' = [m EXCEPT ![i].deps = Tail(@)]
    /\ UNCHANGED <<state, inbox, tasks, usage, project, changes, rows, overlap, seen>>

\* syncActiveTaskIds: the reads ...
SyncRead(i) ==
    /\ At(i, "create") /\ m[i].todo = {}
    /\ m' = [m EXCEPT ![i].pc = "setactive",
                      ![i].active = NextActive(state.active, Created(i))]
    /\ UNCHANGED <<state, inbox, tasks, depRows, usage, project, changes, rows, overlap, seen>>

\* ... and setMasterActiveTaskIds, the whole column
SetActive(i) ==
    /\ At(i, "setactive")
    /\ state' = [state EXCEPT !.active = m[i].active]
    /\ Goto(i, "row")
    /\ UNCHANGED <<inbox, tasks, depRows, usage, project, changes, rows, overlap, seen>>

\* createMasterRun
WriteRow(i) ==
    /\ At(i, "row")
    /\ rows' = [rows EXCEPT ![i] =
           [status |-> m[i].result, action |-> m[i].action,
            created |-> IF m[i].action \in {"CREATE_TASKS", "REPLAN"} THEN Created(i) ELSE {}]]
    /\ Goto(i, "phase")
    /\ UNCHANGED <<state, inbox, tasks, depRows, usage, project, changes, overlap, seen>>

\* updateMasterPhase writes the columns of the phase only
UpdatePhase(i) ==
    /\ At(i, "phase")
    /\ state' = [state EXCEPT !.phase =
           IF m[i].result = "failed" THEN "failed" ELSE Phase(m[i].action)]
    /\ Goto(i, "enqueue")
    /\ UNCHANGED <<inbox, tasks, depRows, usage, project, changes, rows, overlap, seen>>

\* enqueueMasterInboxItem: the read of master_state ...
EnqueueRead(i) ==
    /\ At(i, "enqueue")
    /\ m' = [m EXCEPT ![i].pc = "inbox", ![i].ids = state.inbox]
    /\ UNCHANGED <<state, inbox, tasks, depRows, usage, project, changes, rows, overlap, seen>>

\* ... and the batch: the row of the item and the whole list of ids
EnqueueWrite(i) ==
    /\ At(i, "inbox")
    /\ inbox' = inbox \cup {i}
    /\ state' = [state EXCEPT !.inbox = m[i].ids \cup {i}]
    /\ Goto(i, "done")
    /\ UNCHANGED <<tasks, depRows, usage, project, changes, rows, overlap, seen>>

MasterStep(i) ==
    \/ Start(i) \/ LoadState(i) \/ InsertState(i) \/ Loaded(i) \/ Authorize(i)
    \/ \E part \in {"budget", "contract", "criteria", "rest"} : LoadPart(i, part)
    \/ \E d \in Decisions, u \in Usages : ModelAnswers(i, d, u)
    \/ \E transient \in BOOLEAN : ModelFails(i, transient)
    \/ RecordTokens(i) \/ RecordDollars(i) \/ Decide(i)
    \/ ListTasks(i) \/ CreateTask(i) \/ AddDependency(i) \/ SyncRead(i) \/ SetActive(i)
    \/ WriteRow(i) \/ UpdatePhase(i) \/ EnqueueRead(i) \/ EnqueueWrite(i)

-----------------------------------------------------------------------------
(* The project goes on.                                                    *)

Change(p) ==
    /\ changes < MaxChanges
    /\ changes' = changes + 1
    /\ project' = p
    /\ seen' = [i \in Masters |-> IF At(i, "load") THEN seen[i] \cup {p} ELSE seen[i]]
    /\ UNCHANGED <<state, inbox, tasks, depRows, usage, rows, m, overlap>>

\* handlePostReleaseContract: the contract, and later its criterion
PostContract ==
    /\ project.contract < MaxVersions
    /\ Change([project EXCEPT !.contract = @ + 1])
PostCriterion ==
    /\ project.contract # 0
    /\ project.criterion[project.contract] = "absent"
    /\ Change([project EXCEPT !.criterion[project.contract] = "pending"])
\* updateAcceptanceCriterion
UpdateCriterion(v, status) ==
    /\ project.criterion[v] # "absent"
    /\ Change([project EXCEPT !.criterion[v] = status])
\* createBlocker and resolveBlocker
SetBlocked(b) == project.blocked # b /\ Change([project EXCEPT !.blocked = b])
\* a completed PASS of a verifier run on an acceptance task stays
Verified == ~project.verified /\ Change([project EXCEPT !.verified = TRUE])
\* createTestResult of the active regression case
Regression(o) == project.regression # o /\ Change([project EXCEPT !.regression = o])
AddEvidence == ~project.evidence /\ Change([project EXCEPT !.evidence = TRUE])

EndTask(t) ==
    /\ tasks[t] = "open"
    /\ changes < MaxChanges
    /\ changes' = changes + 1
    /\ tasks' = [tasks EXCEPT ![t] = "terminal"]
    /\ UNCHANGED <<state, inbox, depRows, usage, project, rows, m, overlap, seen>>

ProjectStep ==
    \/ PostContract \/ PostCriterion \/ Verified \/ AddEvidence
    \/ \E v \in 1 .. MaxVersions, s \in {"pending", "PASS"} : UpdateCriterion(v, s)
    \/ \E b \in BOOLEAN : SetBlocked(b)
    \/ \E o \in {"PASS", "FAIL"} : Regression(o)
    \/ \E t \in TaskIds : EndTask(t)

Next == (\E i \in Masters : MasterStep(i)) \/ ProjectStep

Spec == Init /\ [][Next]_vars

-----------------------------------------------------------------------------
(* Properties                                                              *)

\* The token limit is checked on a ledger read before the call and charged after it
\* (orchestrator.ts:81 and :122).  The overshoot is bounded all the same: every run
\* that is let through saw room for its estimate, so only the runs in flight when the
\* last of them read the ledger can still charge what goes beyond the limit.
LargestCall == Max({u.tokens : u \in Usages} \cup {Estimate})
OvershootIsBounded ==
    usage.tokens = 0 \/ usage.tokens <= TokenLimit - Estimate + overlap * LargestCall

\* A master run that is over and reported as completed has named every task that it
\* created, each with all its dependency rows, and only those (persistTaskProposals,
\* createMasterRun).
CompletedRunsTellTheirTasks ==
    \A i \in Masters : rows[i].status = "completed" =>
        /\ rows[i].created = Created(i)
        /\ \A t \in rows[i].created :
              LET p == Proposal(m[i].decision, t[2])
              IN  \A dep \in ToSet(p.existing) \cup {<<i, k>> : k \in ToSet(p.deps)} :
                     <<t, dep>> \in depRows /\ tasks[dep] # "absent"

\* FINISHED is enforced only on grounds that the run's own load of inputs has found: the
\* contract it holds was the project's, the criterion of that very contract was PASS, no
\* blocker was open, an acceptance task was verified, the latest regression result was
\* PASS and the required evidence was there, each at some time while the run was loading.
\* Not all at one time: the queries run side by side, and a blocker opened or a regression
\* failed after its query is not seen (loadInput, evaluateFinishedGate).
FinishedHadGrounds ==
    \A i \in Masters : m[i].action = "FINISHED" =>
        LET v == m[i].gate.contract
        IN  /\ v # 0
            /\ \E p \in seen[i] : p.contract = v
            /\ \E p \in seen[i] : p.criterion[v] = "PASS"
            /\ \E p \in seen[i] : ~p.blocked
            /\ \E p \in seen[i] : p.verified
            /\ \E p \in seen[i] : p.regression = "PASS"
            /\ \E p \in seen[i] : p.evidence

\* Runs that do not overlap: when they are over, the open tasks of completed runs are all
\* in activeTaskIds (syncActiveTaskIds, which overwrites the whole list).
NewTasksAreActive ==
    overlap = 1 /\ InFlight = {} =>
        \A i \in Masters : \A t \in rows[i].created : tasks[t] = "open" => t \in state.active
=============================================================================
