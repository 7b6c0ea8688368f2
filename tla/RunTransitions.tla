--------------------------- MODULE RunTransitions ---------------------------
(***************************************************************************)
(* The vocabulary that the worker-run lifecycle and its stores share: the  *)
(* statuses of a task and of a worker run, the rows that hold them, and    *)
(* the table of status moves that the lifecycle asks of a store.           *)
(***************************************************************************)
EXTENDS Naturals, FiniteSets

CONSTANTS
    Task,          \* task ids
    Run,           \* worker run ids that the id factory may produce
    Token,         \* lease tokens: one is generated for every claim
    NoTask,        \* the task of a run id that has no row
    NoRun,         \* assigned_worker_run_id IS NULL
    NoToken,       \* lease_token_hash IS NULL
    LeaseDuration, \* leaseDurationMs, in ticks of the clock
    MaxAttempts    \* maxAttempts of the lifecycle

ASSUME NullAssumption ==
    NoRun \notin Run /\ NoToken \notin Token /\ NoTask \notin Task
\* Run ids are random UUIDs: a task's runs can always be counted.
ASSUME RunAssumption == IsFiniteSet(Run)
ASSUME DurationAssumption ==
    LeaseDuration \in Nat \ {0} /\ MaxAttempts \in Nat \ {0}

(***************************************************************************)
(* Statuses.  "absent" stands for a run id that has no row.  A task that   *)
(* dispatch may assign is "pending" ("ready" behaves alike and "blocked"   *)
(* tasks are never assigned).                                              *)
(***************************************************************************)
TaskStatus == {"pending", "assigned", "in_progress", "awaiting_verification",
               "completed", "failed", "cancelled"}

Active == {"queued", "running"}
Terminal == {"succeeded", "failed", "cancelled", "timed_out"}
RunStatus == {"absent"} \cup Active \cup Terminal

(***************************************************************************)
(* Rows.  A lease expiry of 0 is NULL: the clock starts at 1, so the       *)
(* expired test "NULL or <= now" is simply expires <= now.                 *)
(***************************************************************************)
TaskRow == [status : TaskStatus, assigned : Run \cup {NoRun}]
RunRow == [status : RunStatus, task : Task \cup {NoTask}, iter : Nat,
           token : Token \cup {NoToken}, expires : Nat]

NoLease == 0
Absent == [status |-> "absent", task |-> NoTask, iter |-> 0,
           token |-> NoToken, expires |-> NoLease]
\* Mutation: a new run keeps the default iteration.
QueuedAsFirst(t, i) == [status |-> "queued", task |-> t, iter |-> 1,
                        token |-> NoToken, expires |-> NoLease]

Queued(t, i) == [status |-> "queued", task |-> t, iter |-> i,
                 token |-> NoToken, expires |-> NoLease]

LeaseLive(row, tok, at) == row.token = tok /\ row.expires > at

(***************************************************************************)
(* The moves that applyWorkerRunTaskTransition is asked for: run and task  *)
(* leave `from` and `taskFrom` together, and `leased` says that the caller *)
(* must present the token of a lease that has not expired.                 *)
(***************************************************************************)
Move == [
    succeed       |-> [from |-> "running", to |-> "succeeded", leased |-> TRUE,
                       taskFrom |-> "in_progress",
                       taskTo |-> "awaiting_verification"],
    fail          |-> [from |-> "running", to |-> "failed", leased |-> TRUE,
                       taskFrom |-> "in_progress", taskTo |-> "failed"],
    cancelRunning |-> [from |-> "running", to |-> "cancelled", leased |-> TRUE,
                       taskFrom |-> "in_progress", taskTo |-> "cancelled"],
    cancelQueued  |-> [from |-> "queued", to |-> "cancelled", leased |-> FALSE,
                       taskFrom |-> "assigned", taskTo |-> "cancelled"],
    timeout       |-> [from |-> "running", to |-> "timed_out", leased |-> FALSE,
                       taskFrom |-> "in_progress", taskTo |-> "failed"]]

MoveName == {"succeed", "fail", "cancelRunning", "cancelQueued", "timeout"}

\* Mutation: the token survives the end of its run.
ClosedWithToken(row, to) == [row EXCEPT !.status = to]

\* A terminal run gives its token up; only a timed out run keeps its expiry.
Closed(row, to) ==
    [row EXCEPT !.status = to, !.token = NoToken,
                !.expires = IF to = "timed_out" THEN @ ELSE NoLease]

\* Mutation: a verdict writes the status of a run to the task.
VerdictOfRun == [accept |-> "succeeded", reject |-> "failed"]

\* verifyTaskResult closes a task in one of two ways.
Verdict == [accept |-> "completed", reject |-> "failed"]
=============================================================================
