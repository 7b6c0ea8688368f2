-------------------------------- MODULE Audit --------------------------------
(***************************************************************************)
(* The auditor: POST /projects/:id/audit, that is runProjectAudit of       *)
(* src/auditor/engine.ts with loadAuditInputAsync (load-input.ts), the     *)
(* rules (rules.ts) and syncAuditFindings of src/state/d1-store.ts.        *)
(*                                                                         *)
(* Audits overlap each other and whatever they observe.  An audit reads    *)
(* one table per statement, evaluates its rules on what it has read, and   *)
(* then creates, reactivates and resolves findings one row at a time.      *)
(* What it observes is the budget ledger, whose requests are those of      *)
(* Budget, and the project's tasks, worker runs, reports and verifier      *)
(* runs, whose moves are those of RunTransitions.  Severities, summaries   *)
(* and details of findings are left out.                                   *)
(***************************************************************************)
EXTENDS Budget

CONSTANTS
    Audits,       \* the requests for an audit
    Tasks, Runs, Verifiers, Results,
    Messages,     \* normalized error messages
    TimeoutMessage, \* the one that every timeout leaves
    LongMessages, \* those that agree in what an id keeps of them
    SoftLimit,    \* the soft limit that comes with a resource, 0 for none
    RepeatedFailureMin, RetryLoopMin, IdenticalFailureMin,
    ApproachingDivisor,  \* 1 / budgetApproachingRemainingRatio
    Scenes,       \* where to start, what is asked for, what moves meanwhile
    MaxChanges    \* bounds the steps of tasks, runs and verifiers

ASSUME ThresholdsAssumption ==
    {RepeatedFailureMin, RetryLoopMin, IdenticalFailureMin, ApproachingDivisor}
        \subseteq Nat \ {0}
ASSUME BoundAssumption == MaxChanges \in Nat
ASSUME MessagesAssumption == TimeoutMessage \in Messages /\ LongMessages \subseteq Messages

RT == INSTANCE RunTransitions WITH
          Task <- Tasks, Run <- Runs, Token <- {}, NoTask <- "none", NoRun <- "none",
          NoToken <- "none", LeaseDuration <- 1, MaxAttempts <- 1

Outcomes == {"PASS", "FAIL", "INCONCLUSIVE"}
AbsentRun == [status |-> "absent", task |-> "none", message |-> "none"]

World == [
    tasks     : [Tasks -> [status : RT!TaskStatus, assigned : Runs \cup {"none"}]],
    runs      : [Runs -> [status : RT!RunStatus, task : Tasks \cup {"none"},
                          message : Messages \cup {"none"}]],
    reports   : SUBSET Runs,    \* runs with a worker report
    overdue   : SUBSET Runs,    \* lease run out, or queued beyond queuedStuckMs
    verifiers : [Verifiers -> [status : {"absent", "pending", "completed"},
                               task : Tasks \cup {"none"}, outcome : Outcomes \cup {"none"}]],
    results   : [Results -> [verifier : Verifiers \cup {"none"},
                             outcome : Outcomes \cup {"none"}]]]

\* What moves besides the audits: the ledger, or tasks, worker runs and verifier runs.
Moves == {"ledger", "runs"}

\* A scene: what moves, which requests and audits have a client, and which resources
\* audits of other projects may find something about.
Scene == [moves : Moves, requests : SUBSET Requests, audits : SUBSET Audits,
          others : SUBSET Resources]

VARIABLES
    world,     \* the tables an audit reads, but for the ledger
    changes,   \* steps the world has taken
    findings,  \* audit_findings of the project: status by finding key
    foreign,   \* ids that findings of other projects have
    audit,     \* the audits
    scene      \* the requests and audits asked for, and what moves meanwhile

observed == <<world, changes>>
table == <<findings, foreign>>
auditVars == <<vars, observed, table, audit, scene>>

-----------------------------------------------------------------------------
(* The rules, on what an audit has read                                    *)

\* findingKey
Key(rule, subject, detail) == <<rule, subject, detail>>

RunsOf(in, t) ==
    {r \in Runs : in.runs[r].status # "absent" /\ in.runs[r].task = t}
FailedRuns(in, t) == {r \in RunsOf(in, t) : in.runs[r].status \in {"failed", "timed_out"}}

StuckWorker(in) ==
    {Key("STUCK_WORKER", r, "") :
        r \in in.expired \cup {s \in Runs : in.runs[s].status = "queued"
                                            /\ <<s, "queued">> \in in.late}}

RepeatedTaskFailure(in) ==
    {Key("REPEATED_TASK_FAILURE", t, "") :
        t \in {u \in Tasks : Cardinality(FailedRuns(in, u)) >= RepeatedFailureMin}}

RetryLoop(in) ==
    {Key("RETRY_LOOP", t, "") :
        t \in {u \in Tasks :
                  /\ in.tasks[u].status \notin {"completed", "failed", "cancelled"}
                  /\ \A r \in RunsOf(in, u) : in.runs[r].status # "succeeded"
                  /\ Cardinality(RunsOf(in, u)) >= RetryLoopMin}}

DuplicateActiveWork(in) ==
    {Key("DUPLICATE_ACTIVE_WORK", t, "") :
        t \in {u \in Tasks :
                  Cardinality({r \in RunsOf(in, u) : in.runs[r].status \in RT!Active}) > 1}}

MissingReport(in) ==
    {Key("MISSING_REPORT", r, "") :
        r \in {s \in Runs : in.runs[s].status \in RT!Terminal} \ in.reports}
    \cup {Key("MISSING_REPORT", v, "") :
        v \in {w \in Verifiers :
                  /\ in.verifiers[w].status = "completed"
                  /\ \A x \in Results : in.results[x].verifier # w}}

VerifierMismatch(in) ==
    LET judged == {v \in Verifiers : in.verifiers[v].status = "completed"}
        status(v) == in.tasks[in.verifiers[v].task].status
    IN  {Key("VERIFIER_MISMATCH", v, "pass_vs_failed_task") :
            v \in {w \in judged : in.verifiers[w].outcome = "PASS" /\ status(w) = "failed"}}
        \cup {Key("VERIFIER_MISMATCH", v, "fail_vs_completed_task") :
            v \in {w \in judged : in.verifiers[w].outcome = "FAIL" /\ status(w) = "completed"}}
        \cup {Key("VERIFIER_MISMATCH", in.results[x].verifier, x) :
            x \in {y \in Results : /\ in.results[y].verifier \in judged
                                   /\ in.results[y].outcome
                                        # in.verifiers[in.results[y].verifier].outcome}}

\* checkBudgetView: its type names "approaching", but it never returns it
CheckBudgetView(in, r) ==
    CASE in.spent[r] >= in.limits[r] -> "hard_exceeded"
      [] in.spent[r] < in.limits[r] /\ SoftLimit[r] # 0 /\ in.spent[r] >= SoftLimit[r] ->
             "soft_exceeded"
      [] OTHER -> "undefined"

\* the rest of the loop's body runs when the check has found something of another kind
ApproachingHardLimit(in, r) ==
    (in.limits[r] - in.spent[r]) * ApproachingDivisor <= in.limits[r]

BudgetAnomaly(in) ==
    LET checked == {r \in Resources : /\ Configured(in.ledger, in.limits, r)
                                      /\ CheckBudgetView(in, r) # "undefined"}
        exceeded(r) == CheckBudgetView(in, r) \in {"hard_exceeded", "soft_exceeded"}
    IN  {Key("BUDGET_ANOMALY", r, CheckBudgetView(in, r)) : r \in {s \in checked : exceeded(s)}}
        \cup {Key("BUDGET_ANOMALY", r, "approaching") :
                 r \in {s \in checked : ~exceeded(s) /\ ApproachingHardLimit(in, s)}}

RepeatedIdenticalFailure(in) ==
    {Key("REPEATED_IDENTICAL_FAILURE", tm[1], tm[2]) :
        tm \in {um \in Tasks \X Messages :
                   Cardinality({r \in FailedRuns(in, um[1]) : in.runs[r].message = um[2]})
                       >= IdenticalFailureMin}}

EvaluateAuditRules(in) ==
    StuckWorker(in) \cup RepeatedTaskFailure(in) \cup RetryLoop(in)
        \cup DuplicateActiveWork(in) \cup MissingReport(in) \cup VerifierMismatch(in)
        \cup BudgetAnomaly(in) \cup RepeatedIdenticalFailure(in)

\* auditFindingIdFromKey: the project is no part of an id, nor is the end of a long
\* message
FindingId(k) == IF k[3] \in LongMessages THEN Key(k[1], k[2], "long") ELSE k

\* What an audit would read in one piece.
Overdue == {<<r, world.runs[r].status>> : r \in world.overdue}
Expired(late) == {r \in Runs : world.runs[r].status = "running" /\ <<r, "running">> \in late}
WholeInput == [
    runs |-> world.runs, reports |-> world.reports, tasks |-> world.tasks,
    verifiers |-> world.verifiers, results |-> world.results,
    ledger |-> ledger, limits |-> limits, spent |-> [r \in Resources |-> Consumed(r)],
    late |-> Overdue, expired |-> Expired(Overdue)]

-----------------------------------------------------------------------------
(* State                                                                   *)

Reads == {"tasks", "verifiers", "results", "limits", "expired"}
NoInput == [
    runs |-> [r \in Runs |-> AbsentRun], reports |-> {},
    tasks |-> [t \in Tasks |-> [status |-> "pending", assigned |-> "none"]],
    verifiers |-> [v \in Verifiers |-> [status |-> "absent", task |-> "none", outcome |-> "none"]],
    results |-> [x \in Results |-> [verifier |-> "none", outcome |-> "none"]],
    ledger |-> FALSE, limits |-> [r \in Resources |-> NotConfigured],
    spent |-> [r \in Resources |-> 0], late |-> {}, expired |-> {}]
EmptyWorld == [tasks |-> NoInput.tasks, runs |-> NoInput.runs, reports |-> {}, overdue |-> {},
               verifiers |-> NoInput.verifiers, results |-> NoInput.results]

Idle == [pc |-> "idle", calm |-> FALSE, input |-> NoInput, left |-> {},
         detected |-> {}, found |-> FALSE, answer |-> {}]

AuditPC == {"idle", "reports", "read", "entries", "select", "write", "active", "resolve",
            "list", "done", "failed"}
FindingStatus == {"active", "resolved"}

AuditTypeOK ==
    /\ TypeOK
    /\ world \in World
    /\ scene \in Scene
    /\ changes \in 0 .. MaxChanges
    /\ \A k \in DOMAIN findings : findings[k] \in FindingStatus
    /\ \A a \in Audits : /\ audit[a].pc \in AuditPC
                         /\ audit[a].input.reports \subseteq Runs
                         /\ audit[a].pc \in {"done", "failed"} => audit[a].input = NoInput
    \* two findings of one project never share an id
    /\ \A j, k \in DOMAIN findings : FindingId(j) = FindingId(k) => j = k
    /\ foreign \cap {FindingId(k) : k \in DOMAIN findings} = {}

\* what a scene may start with: reports of runs that have ended, findings with ids of their own
ASSUME ScenesAssumption ==
    \A s \in Scenes :
        /\ s.world \in World /\ s.moves \in Moves /\ s.others \subseteq Resources
        /\ s.requests \subseteq Requests /\ s.audits \subseteq Audits
        /\ \A r \in s.world.reports : s.world.runs[r].status \in RT!Terminal
        /\ \A k \in DOMAIN s.findings : s.findings[k] \in FindingStatus
        /\ \A j, k \in DOMAIN s.findings : FindingId(j) = FindingId(k) => j = k

AuditInit ==
    /\ Init
    /\ \E s \in Scenes : /\ world = s.world
                         /\ findings = s.findings
                         /\ scene = [moves |-> s.moves, requests |-> s.requests,
                                    audits |-> s.audits, others |-> s.others]
    /\ changes = 0
    /\ foreign = {}
    /\ audit = [a \in Audits |-> Idle]

-----------------------------------------------------------------------------
(* runProjectAudit                                                         *)

AuditAt(a, pc) == audit[a].pc = pc
Set(a, row) == audit' = [audit EXCEPT ![a] = row]
InFlight == {a \in Audits : audit[a].pc \notin {"idle", "done", "failed"}}
ActiveKeys == {k \in DOMAIN findings : findings[k] = "active"}

\* nowIso() fixes what is overdue, and the first SELECT lists the worker runs
ListRuns(a) ==
    /\ AuditAt(a, "idle")
    /\ a \in scene.audits
    /\ Set(a, [audit[a] EXCEPT
                  !.pc = "reports", !.calm = \A b \in InFlight : audit[b].calm,
                  !.input.runs = world.runs, !.input.late = Overdue,
                  !.left = {r \in Runs : world.runs[r].status # "absent"}])
    /\ UNCHANGED <<vars, observed, table, scene>>

\* one getWorkerReportByWorkerRunId after the other
ReadReport(a) ==
    /\ AuditAt(a, "reports")
    /\ IF audit[a].left = {}
         THEN Set(a, [audit[a] EXCEPT !.pc = "read", !.left = Reads])
         ELSE LET r == CHOOSE s \in audit[a].left : TRUE
              IN  Set(a, [audit[a] EXCEPT !.left = @ \ {r},
                                          !.input.reports = @ \cup (world.reports \cap {r})])
    /\ UNCHANGED <<vars, observed, table, scene>>

\* Promise.all: the five reads arrive in any order, that of the ledger in two statements
ReadTable(a, what) ==
    /\ AuditAt(a, "read")
    /\ what \in audit[a].left
    /\ LET in == audit[a].input
           got == CASE what = "tasks" -> [in EXCEPT !.tasks = world.tasks]
                    [] what = "verifiers" -> [in EXCEPT !.verifiers = world.verifiers]
                    [] what = "results" -> [in EXCEPT !.results = world.results]
                    [] what = "limits" -> [in EXCEPT !.ledger = ledger, !.limits = limits]
                    [] what = "expired" -> [in EXCEPT !.expired = Expired(in.late)]
                    [] what = "entries" -> [in EXCEPT !.spent =
                                                [r \in Resources |-> Consumed(r)]]
           next == (audit[a].left \ {what})
                       \cup (IF what = "limits" /\ ledger THEN {"entries"} ELSE {})
       IN  Set(a, [audit[a] EXCEPT !.input = got, !.left = next])
    /\ UNCHANGED <<vars, observed, table, scene>>

\* evaluateAuditRules, once everything has arrived
Evaluate(a) ==
    /\ AuditAt(a, "read")
    /\ audit[a].left = {}
    /\ LET keys == EvaluateAuditRules(audit[a].input)
       IN  Set(a, [audit[a] EXCEPT !.pc = "select", !.input = NoInput,
                                   !.detected = keys, !.left = keys])
    /\ UNCHANGED <<vars, observed, table, scene>>

\* syncAuditFindings takes the detected findings in their order
NextKey(a) == CHOOSE k \in audit[a].left : TRUE

SelectFinding(a) ==
    /\ AuditAt(a, "select")
    /\ IF audit[a].left = {}
         THEN Set(a, [audit[a] EXCEPT !.pc = "active"])
         ELSE Set(a, [audit[a] EXCEPT !.pc = "write",
                                      !.found = NextKey(a) \in DOMAIN findings])
    /\ UNCHANGED <<vars, observed, table, scene>>

\* the ids in use, over all projects
Taken == foreign \cup {FindingId(k) : k \in DOMAIN findings}

\* Mutation: a finding that is there is touched, whatever its status.
WrittenAsItWas(k) ==
    IF k \in DOMAIN findings THEN findings
    ELSE [j \in DOMAIN findings \cup {k} |-> IF j = k THEN "active" ELSE findings[j]]

\* INSERT, or UPDATE of the row that was found: active in either case
Written(k) ==
    [j \in DOMAIN findings \cup {k} |-> IF j = k THEN "active" ELSE findings[j]]

WriteFinding(a) ==
    LET k == NextKey(a)
    IN  /\ AuditAt(a, "write")
        /\ IF ~audit[a].found /\ FindingId(k) \in Taken
             THEN /\ Set(a, [audit[a] EXCEPT !.pc = "failed", !.left = {}])
                  /\ UNCHANGED findings
             ELSE /\ Set(a, [audit[a] EXCEPT !.pc = "select", !.left = @ \ {k}])
                  /\ findings' = Written(k)
        /\ UNCHANGED <<vars, observed, foreign, scene>>

ToResolve(a) == ActiveKeys \ audit[a].detected

ListActive(a) ==
    /\ AuditAt(a, "active")
    /\ Set(a, [audit[a] EXCEPT !.pc = "resolve", !.left = ToResolve(a)])
    /\ UNCHANGED <<vars, observed, table, scene>>

ResolveFinding(a) ==
    /\ AuditAt(a, "resolve")
    /\ IF audit[a].left = {}
         THEN Set(a, [audit[a] EXCEPT !.pc = "list"]) /\ UNCHANGED findings
         ELSE /\ Set(a, [audit[a] EXCEPT !.left = @ \ {NextKey(a)}])
              /\ findings' = [findings EXCEPT ![NextKey(a)] = "resolved"]
    /\ UNCHANGED <<vars, observed, foreign, scene>>

\* listAuditFindingsByProject for the answer
ListFindings(a) ==
    /\ AuditAt(a, "list")
    /\ Set(a, [audit[a] EXCEPT !.pc = "done", !.answer = ActiveKeys])
    /\ UNCHANGED <<vars, observed, table, scene>>

\* An audit of another project stores a budget finding under the same id.
OtherProjectFinds(r, kind) ==
    LET id == FindingId(Key("BUDGET_ANOMALY", r, kind))
    IN  /\ r \in scene.others
        /\ id \notin Taken
        /\ foreign' = foreign \cup {id}
        /\ UNCHANGED <<vars, observed, findings, audit, scene>>

AuditStep(a) ==
    \/ ListRuns(a) \/ ReadReport(a) \/ Evaluate(a)
    \/ \E what \in Reads \cup {"entries"} : ReadTable(a, what)
    \/ SelectFinding(a) \/ WriteFinding(a) \/ ListActive(a) \/ ResolveFinding(a)
    \/ ListFindings(a)

-----------------------------------------------------------------------------
(* What is observed moves                                                  *)

\* No audit that has begun speaks of the project as it is now.
Disturbed == audit' = [a \in Audits |-> [audit[a] EXCEPT !.calm = FALSE]]

\* One statement of the worker-run lifecycle, of a verdict or of a verifier.
Changes(next) ==
    /\ scene.moves = "runs"
    /\ changes < MaxChanges
    /\ world' = next
    /\ changes' = changes + 1
    /\ Disturbed
    /\ UNCHANGED <<vars, table, scene>>

MoveRun(r, to, message, taskTo) ==
    [world EXCEPT !.runs[r].status = to, !.runs[r].message = message,
                  !.overdue = @ \ {r}, !.tasks[world.runs[r].task].status = taskTo]

\* an assignment or a retry; one that lost its race leaves a row for a while
InsertRun(r, t) ==
    LET row == [status |-> "queued", task |-> t, message |-> "none"]
    IN  /\ world.runs[r] = AbsentRun
        /\ IF world.tasks[t].status \in {"pending", "failed"}
             THEN Changes([world EXCEPT !.runs[r] = row,
                              !.tasks[t] = [status |-> "assigned", assigned |-> r]])
             ELSE Changes([world EXCEPT !.runs[r] = row])

UndoRun(r) ==
    /\ world.runs[r].status = "queued"
    /\ world.tasks[world.runs[r].task].assigned # r
    /\ Changes([world EXCEPT !.runs[r] = AbsentRun, !.overdue = @ \ {r}])

Assigned(r) ==
    /\ world.runs[r].task \in Tasks
    /\ world.tasks[world.runs[r].task].assigned = r

ClaimRun(r) ==
    /\ world.runs[r].status = "queued"
    /\ Assigned(r)
    /\ Changes(MoveRun(r, "running", "none", "in_progress"))

EndRun(r, move, message) ==
    LET m == RT!Move[move]
    IN  /\ world.runs[r].status = m.from
        /\ Assigned(r)
        /\ Changes(MoveRun(r, m.to,
                CASE move = "timeout" -> TimeoutMessage
                  [] move = "fail" -> message
                  [] OTHER -> "none", m.taskTo))

FileReport(r) ==
    /\ world.runs[r].status \in RT!Terminal
    /\ r \notin world.reports
    /\ Changes([world EXCEPT !.reports = @ \cup {r}])

VerifyTask(t, verdict) ==
    /\ world.tasks[t].status = "awaiting_verification"
    /\ Changes([world EXCEPT !.tasks[t].status = RT!Verdict[verdict]])

\* a lease runs out, or a run has been queued for too long
TimePasses(r) ==
    /\ world.runs[r].status \in RT!Active
    /\ r \notin world.overdue
    /\ Changes([world EXCEPT !.overdue = @ \cup {r}])

CreateVerifierRun(v, t) ==
    /\ world.verifiers[v].status = "absent"
    /\ Changes([world EXCEPT !.verifiers[v] =
                   [status |-> "pending", task |-> t, outcome |-> "none"]])

\* a completed run may be completed again
CompleteVerifierRun(v, o) ==
    /\ world.verifiers[v].status # "absent"
    /\ Changes([world EXCEPT !.verifiers[v].status = "completed",
                             !.verifiers[v].outcome = o])

RecordTestResult(x, v, o) ==
    /\ world.results[x].verifier = "none"
    /\ world.verifiers[v].status # "absent"
    /\ Changes([world EXCEPT !.results[x] = [verifier |-> v, outcome |-> o]])

WorldStep ==
    \/ \E r \in Runs :
          \/ \E t \in Tasks : InsertRun(r, t)
          \/ UndoRun(r) \/ ClaimRun(r) \/ FileReport(r) \/ TimePasses(r)
          \/ \E move \in RT!MoveName, m \in Messages : EndRun(r, move, m)
    \/ \E t \in Tasks, verdict \in DOMAIN RT!Verdict : VerifyTask(t, verdict)
    \/ \E v \in Verifiers :
          \/ \E t \in Tasks : CreateVerifierRun(v, t)
          \/ \E o \in Outcomes : CompleteVerifierRun(v, o)
          \/ \E x \in Results, o \in Outcomes : RecordTestResult(x, v, o)

\* One statement of a budget request.
BudgetStep ==
    /\ scene.moves = "ledger"
    /\ Next
    /\ \A q \in Requests \ scene.requests : req'[q] = req[q]
    /\ IF UNCHANGED <<ledger, limits, entries>> THEN UNCHANGED audit ELSE Disturbed
    /\ UNCHANGED <<observed, table, scene>>

AuditNext ==
    \/ \E a \in Audits : AuditStep(a)
    \/ WorldStep
    \/ BudgetStep
    \/ \E r \in Resources, kind \in {"hard_exceeded", "soft_exceeded"} : OtherProjectFinds(r, kind)

AuditSpec == AuditInit /\ [][AuditNext]_auditVars

-----------------------------------------------------------------------------
(* Properties                                                              *)

\* An audit that was answered, and before which nothing it observes had changed since it
\* began, has left exactly the findings that the rules yield for the whole project, and
\* has listed exactly them: overlapping audits, rows that were resolved before and reads
\* that arrive in any order make no difference (runProjectAudit, syncAuditFindings).
CalmAuditIsExact ==
    \A a \in Audits : AuditAt(a, "done") /\ audit[a].calm =>
        ActiveKeys = EvaluateAuditRules(WholeInput)
        /\ audit[a].answer = EvaluateAuditRules(WholeInput)

\* thresholds.ts:11 says that a remaining hard budget below the ratio "triggers
\* approaching BUDGET_ANOMALY".
ApproachingIsReported ==
    \A a \in Audits : AuditAt(a, "done") /\ audit[a].calm =>
        \A r \in Resources :
            /\ Configured(ledger, limits, r)
            /\ RemainingHardLimit(r) > 0
            /\ RemainingHardLimit(r) * ApproachingDivisor < limits[r]
            /\ SoftLimit[r] = 0
            => Key("BUDGET_ANOMALY", r, "approaching") \in ActiveKeys
=============================================================================
