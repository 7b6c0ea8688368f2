---------------------------- MODULE D1Lifecycle ----------------------------
(***************************************************************************)
(* The worker-run lifecycle over the D1 store.  Every request is served by *)
(* a handler, a Worker invocation that talks to D1 one statement, or one   *)
(* batch, at a time: between two of its steps any other handler may run,   *)
(* the clock may advance, and the invocation may die.  A batch is one      *)
(* transaction; the checks that a store method makes before its batch are  *)
(* not part of it.  The steps of a call, as values of pc:                  *)
(*                                                                         *)
(*   assign    scan   insert [undo]                                        *)
(*   claim     claim  event                                                *)
(*   heartbeat beat                                                        *)
(*   a move    check  batch [reread]  event [report inbox]                 *)
(*   recover   next   then a timeout move for every run that it listed     *)
(*   retry     scan   insert [undo]  event                                 *)
(*   a verdict verdict  notify                                             *)
(***************************************************************************)
EXTENDS RunTransitions

CONSTANTS
    Handler,    \* the invocations of the control plane that run concurrently
    MaxClock,   \* bound: the last tick of the clock
    MaxCrashes  \* bound: how many invocations die between two steps

ASSUME BoundAssumption == MaxClock \in Nat /\ MaxCrashes \in Nat

VARIABLES
    task,     \* the tasks table
    run,      \* the worker_runs table
    clock,    \* what nowFn returns
    req,      \* what every handler is doing
    events,   \* worker_events: the lifecycle events recorded for each run
    report,   \* worker_reports: the outcome reported for each run, or "none"
    inbox,    \* master_inbox: how many items announce each run's report
    verdicts, \* master_inbox: how many items announce each task's verdict
    crashes   \* how many invocations have died

tables == <<task, run>>
records == <<events, report, inbox, verdicts>>
vars == <<tables, clock, req, records, crashes>>

(***************************************************************************)
(* The handlers.  `op` is the call, `run` the run it is about, `new` the   *)
(* id of the run it inserts, `at` the time it read before it awaited       *)
(* anything, `todo` the expired runs a recovery has yet to time out.       *)
(***************************************************************************)
Call == MoveName \cup DOMAIN Verdict \cup
        {"none", "assign", "claim", "heartbeat", "retry"}
Step == {"idle", "scan", "insert", "undo", "claim", "beat", "check", "batch", "reread",
         "next", "event", "addEvent", "report", "addReport", "inbox",
         "addInbox", "verdict", "notify"}
Request == [pc : Step, op : Call, run : Run \cup {NoRun},
            new : Run \cup {NoRun}, task : Task \cup {NoTask}, iter : Nat,
            tok : Token \cup {NoToken}, at : Nat, todo : SUBSET Run]

Idle == [pc |-> "idle", op |-> "none", run |-> NoRun, new |-> NoRun,
         task |-> NoTask, iter |-> 0, tok |-> NoToken, at |-> 0, todo |-> {}]

EventOf == [claim |-> "STARTED", succeed |-> "SUCCEEDED", fail |-> "FAILED",
            cancelRunning |-> "CANCELLED", cancelQueued |-> "CANCELLED",
            timeout |-> "TIMED_OUT", retry |-> "RETRY_CREATED"]
EventName == {"STARTED", "SUCCEEDED", "FAILED", "CANCELLED", "TIMED_OUT",
              "RETRY_CREATED"}
\* Mutation: a recovery reports nothing.
OutcomeOfFinish == [succeed |-> "success", fail |-> "failure"]

OutcomeOf == [succeed |-> "success", fail |-> "failure", timeout |-> "failure"]
Outcome == {"none", "success", "failure"}

TypeOK ==
    /\ task \in [Task -> TaskRow]
    /\ run \in [Run -> RunRow]
    /\ clock \in Nat
    /\ req \in [Handler -> Request]
    /\ events \in [Run -> SUBSET EventName]
    /\ report \in [Run -> Outcome]
    /\ inbox \in [Run -> Nat]
    /\ verdicts \in [Task -> Nat]
    /\ crashes \in Nat

Init ==
    /\ task = [t \in Task |-> [status |-> "pending", assigned |-> NoRun]]
    /\ run = [r \in Run |-> Absent]
    /\ clock = 1
    /\ req = [h \in Handler |-> Idle]
    /\ events = [r \in Run |-> {}]
    /\ report = [r \in Run |-> "none"]
    /\ inbox = [r \in Run |-> 0]
    /\ verdicts = [t \in Task |-> 0]
    /\ crashes = 0

Owns(r) == run[r].status # "absent" /\ task[run[r].task].assigned = r
RunsOf(t) == {r \in Run : run[r].task = t}
Goto(h, step) == req' = [req EXCEPT ![h].pc = step]

\* The call returns or throws.  A recovery goes on with the next expired run.
Return(h) ==
    req' = [req EXCEPT ![h] = IF @.todo = {} THEN Idle
                              ELSE [@ EXCEPT !.pc = "next"]]

\* crypto.randomUUID: an id that no row has and no other handler drew.
Fresh(r) ==
    /\ run[r].status = "absent"
    /\ \A h \in Handler : req[h].new # r

\* generateLeaseToken: 32 random bytes, nobody else's.
FreshToken(tok) ==
    /\ \A r \in Run : run[r].token # tok
    /\ \A h \in Handler : req[h].op = "claim" => req[h].tok # tok
-----------------------------------------------------------------------------
(***************************************************************************)
(* Assignment and retry.  Both look at the task, then at the runs of the   *)
(* task, and then insert a run and point the task at it in one batch.  If  *)
(* the task has moved on since, the batch has still inserted the run, and  *)
(* a separate statement deletes it.                                        *)
(***************************************************************************)
StartAssign(h, t, r) ==
    /\ req[h].pc = "idle"
    /\ task[t].assigned = NoRun
    /\ task[t].status = "pending"
    /\ Fresh(r)
    /\ req' = [req EXCEPT ![h] = [Idle EXCEPT
                  !.pc = "scan", !.op = "assign", !.task = t, !.new = r]]
    /\ UNCHANGED <<tables, clock, records, crashes>>

AttemptLeft(row) == row.iter < MaxAttempts

StartRetry(h, prev, new) ==
    LET t == run[prev].task IN
    /\ req[h].pc = "idle"
    /\ run[prev].status = "timed_out"
    /\ AttemptLeft(run[prev])
    /\ task[t] = [status |-> "failed", assigned |-> prev]
    /\ Fresh(new)
    /\ req' = [req EXCEPT ![h] = [Idle EXCEPT
                  !.pc = "scan", !.op = "retry", !.run = prev, !.task = t,
                  !.new = new, !.iter = run[prev].iter + 1]]
    /\ UNCHANGED <<tables, clock, records, crashes>>

\* An assignment counts the task's runs, a retry wants none of them active.
Scan(h) ==
    LET q == req[h] IN
    /\ q.pc = "scan"
    /\ CASE q.op = "assign" ->
               req' = [req EXCEPT ![h].pc = "insert",
                                  ![h].iter = Cardinality(RunsOf(q.task)) + 1]
         [] q.op = "retry" ->
               IF \E r \in RunsOf(q.task) : run[r].status \in Active
               THEN Return(h)
               ELSE Goto(h, "insert")
    /\ UNCHANGED <<tables, clock, records, crashes>>

\* Mutation: the task's half of the two batches names the task only.
TakesAlways(q) == q.task \in Task

\* The WHERE clause of the task's half of the two batches.
Takes(q) ==
    IF q.op = "assign"
    THEN task[q.task].assigned = NoRun /\ task[q.task].status = "pending"
    ELSE task[q.task].assigned = q.run /\ task[q.task].status = "failed"

Insert(h) ==
    LET q == req[h] IN
    /\ q.pc = "insert"
    /\ run' = [run EXCEPT ![q.new] = Queued(q.task, q.iter)]
    /\ IF Takes(q)
       THEN /\ task' = [task EXCEPT ![q.task] =
                           [status |-> "assigned", assigned |-> q.new]]
            /\ IF q.op = "retry" THEN Goto(h, "event") ELSE Return(h)
       ELSE Goto(h, "undo") /\ UNCHANGED task
    /\ UNCHANGED <<clock, records, crashes>>

\* Mutation: the row that lost its race stays.
UndoForgotten(h) ==
    /\ req[h].pc = "undo"
    /\ Return(h)
    /\ UNCHANGED <<tables, clock, records, crashes>>

Undo(h) ==
    /\ req[h].pc = "undo"
    /\ run' = [run EXCEPT ![req[h].new] = Absent]
    /\ Return(h)
    /\ UNCHANGED <<task, clock, records, crashes>>
-----------------------------------------------------------------------------
(***************************************************************************)
(* claim and heartbeat.                                                    *)
(***************************************************************************)
Waiting(r) == Owns(r) /\ task[run[r].task].status = "assigned"
Claimable(r) == Waiting(r) /\ run[r].status = "queued"

StartClaim(h, r, tok) ==
    /\ req[h].pc = "idle"
    /\ Claimable(r)
    /\ FreshToken(tok)
    /\ req' = [req EXCEPT ![h] = [Idle EXCEPT
                  !.pc = "claim", !.op = "claim", !.run = r, !.tok = tok,
                  !.at = clock]]
    /\ UNCHANGED <<tables, clock, records, crashes>>

Claim(h) ==
    LET q == req[h] IN
    /\ q.pc = "claim"
    /\ run' = IF Claimable(q.run)
              THEN [run EXCEPT ![q.run].status = "running",
                               ![q.run].token = q.tok,
                               ![q.run].expires = q.at + LeaseDuration]
              ELSE run
    /\ task' = IF Waiting(q.run)
               THEN [task EXCEPT ![run[q.run].task].status = "in_progress"]
               ELSE task
    /\ IF Claimable(q.run) THEN Goto(h, "event") ELSE Return(h)
    /\ UNCHANGED <<clock, records, crashes>>

StartHeartbeat(h, r, tok) ==
    /\ req[h].pc = "idle"
    /\ run[r].status = "running"
    /\ LeaseLive(run[r], tok, clock)
    /\ req' = [req EXCEPT ![h] = [Idle EXCEPT
                  !.pc = "beat", !.op = "heartbeat", !.run = r, !.tok = tok,
                  !.at = clock]]
    /\ UNCHANGED <<tables, clock, records, crashes>>

Beat(h) ==
    LET q == req[h] IN
    /\ q.pc = "beat"
    /\ run' = IF run[q.run].status = "running"
                 /\ LeaseLive(run[q.run], q.tok, q.at)
              THEN [run EXCEPT ![q.run].expires = q.at + LeaseDuration]
              ELSE run
    /\ Return(h)
    /\ UNCHANGED <<task, clock, records, crashes>>

-----------------------------------------------------------------------------
(***************************************************************************)
(* succeed, fail, cancel and recoverExpiredRuns: applyWorkerRunTask-       *)
(* Transition with one of the moves.                                       *)
(***************************************************************************)
StartMove(h, m, r, tok) ==
    /\ req[h].pc = "idle"
    /\ run[r].status # "absent"
    /\ m = "cancelQueued" => run[r].status = "queued"
    /\ m = "cancelRunning" => run[r].status = "running"
    /\ req' = [req EXCEPT ![h] = [Idle EXCEPT
                  !.pc = "check", !.op = m, !.run = r, !.at = clock,
                  !.tok = IF Move[m].leased THEN tok ELSE NoToken]]
    /\ UNCHANGED <<tables, clock, records, crashes>>

Expired(r) == run[r].status = "running" /\ run[r].expires <= clock

StartRecover(h) ==
    /\ req[h].pc = "idle"
    /\ \E r \in Run : Expired(r)
    /\ req' = [req EXCEPT ![h] = [Idle EXCEPT
                  !.pc = "next", !.op = "timeout",
                  !.at = clock, !.todo = {r \in Run : Expired(r)}]]
    /\ UNCHANGED <<tables, clock, records, crashes>>

NextExpired(h) ==
    /\ req[h].pc = "next"
    /\ \E r \in req[h].todo :
          req' = [req EXCEPT ![h].pc = "check", ![h].run = r,
                             ![h].todo = @ \ {r}]
    /\ UNCHANGED <<tables, clock, records, crashes>>

\* Mutation: any ended run answers for the move.
MovedAnyhow(q) == Owns(q.run) /\ run[q.run].status \in Terminal

\* The reads before the batch; a move already made is answered again.
Moved(q) ==
    /\ Owns(q.run)
    /\ run[q.run].status = Move[q.op].to
    /\ task[run[q.run].task].status = Move[q.op].taskTo

\* The tasks half of the batch: the assignment and the task's status, only.
TaskMatches(q) ==
    /\ Owns(q.run)
    /\ task[run[q.run].task].status = Move[q.op].taskFrom

\* Mutation: the worker_runs half of the batch does not look at the task.
RunMatchesAnyTask(q) ==
    /\ run[q.run].status = Move[q.op].from
    /\ Move[q.op].leased => LeaseLive(run[q.run], q.tok, q.at)

\* The worker_runs half of the batch.
RunMatches(q) ==
    /\ TaskMatches(q)
    /\ run[q.run].status = Move[q.op].from
    /\ Move[q.op].leased => LeaseLive(run[q.run], q.tok, q.at)

Check(h) ==
    LET q == req[h] IN
    /\ q.pc = "check"
    /\ IF Moved(q) THEN Goto(h, "event")
       ELSE IF TaskMatches(q) /\ run[q.run].status = Move[q.op].from
            THEN Goto(h, "batch")
            ELSE Return(h)
    /\ UNCHANGED <<tables, clock, records, crashes>>

Batch(h) ==
    LET q == req[h]
        t == run[q.run].task
    IN
    /\ q.pc = "batch"
    /\ run' = IF RunMatches(q)
              THEN [run EXCEPT ![q.run] = Closed(@, Move[q.op].to)]
              ELSE run
    /\ task' = IF TaskMatches(q)
               THEN [task EXCEPT ![t].status = Move[q.op].taskTo]
               ELSE task
    /\ Goto(h, IF RunMatches(q) THEN "event" ELSE "reread")
    /\ UNCHANGED <<clock, records, crashes>>

Reread(h) ==
    /\ req[h].pc = "reread"
    /\ IF Moved(req[h]) THEN Goto(h, "event") ELSE Return(h)
    /\ UNCHANGED <<tables, clock, records, crashes>>
-----------------------------------------------------------------------------
(***************************************************************************)
(* What the lifecycle records after a move: the lifecycle event, then the  *)
(* terminal report, then the Master's inbox item.  Each is looked up and   *)
(* then written.  Event and report have an id made from the run's id: a    *)
(* second insert breaks the primary key and the whole call is thrown out.  *)
(* Inbox ids are random, so nothing stops a second item.                   *)
(***************************************************************************)
Subject(q) == IF q.op = "retry" THEN q.new ELSE q.run
Recorded(q) == EventOf[q.op] \in events[Subject(q)]

AfterEvent(h) ==
    IF req[h].op \in DOMAIN OutcomeOf THEN Goto(h, "report") ELSE Return(h)

Throw(h) == req' = [req EXCEPT ![h] = Idle]

FindEvent(h) ==
    /\ req[h].pc = "event"
    /\ IF Recorded(req[h]) THEN AfterEvent(h) ELSE Goto(h, "addEvent")
    /\ UNCHANGED <<tables, clock, records, crashes>>

AddEvent(h) ==
    /\ req[h].pc = "addEvent"
    /\ IF Recorded(req[h])
       THEN Throw(h) /\ UNCHANGED events
       ELSE /\ events' = [events EXCEPT ![Subject(req[h])] =
                             @ \cup {EventOf[req[h].op]}]
            /\ AfterEvent(h)
    /\ UNCHANGED <<tables, clock, report, inbox, verdicts, crashes>>

FindReport(h) ==
    /\ req[h].pc = "report"
    /\ Goto(h, IF report[req[h].run] = "none" THEN "addReport" ELSE "inbox")
    /\ UNCHANGED <<tables, clock, records, crashes>>

AddReport(h) ==
    LET q == req[h] IN
    /\ q.pc = "addReport"
    /\ IF report[q.run] = "none"
       THEN /\ report' = [report EXCEPT ![q.run] = OutcomeOf[q.op]]
            /\ Goto(h, "inbox")
       ELSE Throw(h) /\ UNCHANGED report
    /\ UNCHANGED <<tables, clock, events, inbox, verdicts, crashes>>

FindInbox(h) ==
    /\ req[h].pc = "inbox"
    /\ IF inbox[req[h].run] = 0 THEN Goto(h, "addInbox") ELSE Return(h)
    /\ UNCHANGED <<tables, clock, records, crashes>>

AddInbox(h) ==
    /\ req[h].pc = "addInbox"
    /\ inbox' = [inbox EXCEPT ![req[h].run] = @ + 1]
    /\ Return(h)
    /\ UNCHANGED <<tables, clock, events, report, verdicts, crashes>>
-----------------------------------------------------------------------------
(***************************************************************************)
(* verifyTaskResult: the check of the task and of its run, the write of    *)
(* the task's status, which no longer looks at either, and the inbox item. *)
(***************************************************************************)
StartVerdict(h, t, v) ==
    /\ req[h].pc = "idle"
    /\ task[t].status = "awaiting_verification"
    /\ task[t].assigned # NoRun => run[task[t].assigned].status = "succeeded"
    /\ req' = [req EXCEPT ![h] = [Idle EXCEPT
                  !.pc = "verdict", !.op = v, !.task = t]]
    /\ UNCHANGED <<tables, clock, records, crashes>>

WriteVerdict(h) ==
    LET q == req[h] IN
    /\ q.pc = "verdict"
    /\ task' = [task EXCEPT ![q.task].status = Verdict[q.op]]
    /\ Goto(h, "notify")
    /\ UNCHANGED <<run, clock, records, crashes>>

Notify(h) ==
    /\ req[h].pc = "notify"
    /\ verdicts' = [verdicts EXCEPT ![req[h].task] = @ + 1]
    /\ Return(h)
    /\ UNCHANGED <<tables, clock, events, report, inbox, crashes>>
-----------------------------------------------------------------------------
\* The invocation is killed, or a statement of it fails, between two steps.
Crash(h) ==
    /\ req[h].pc # "idle"
    /\ crashes < MaxCrashes
    /\ crashes' = crashes + 1
    /\ Throw(h)
    /\ UNCHANGED <<tables, clock, records>>

Tick ==
    /\ clock < MaxClock
    /\ clock' = clock + 1
    /\ UNCHANGED <<tables, req, records, crashes>>

Start(h) ==
    \/ \E t \in Task, r \in Run : StartAssign(h, t, r)
    \/ \E prev, new \in Run : StartRetry(h, prev, new)
    \/ \E r \in Run, tok \in Token :
          \/ StartClaim(h, r, tok)
          \/ StartHeartbeat(h, r, tok)
          \/ \E m \in MoveName \ {"timeout"} : StartMove(h, m, r, tok)
    \/ \E t \in Task, v \in DOMAIN Verdict : StartVerdict(h, t, v)
    \/ StartRecover(h)

Continue(h) ==
    \/ Scan(h) \/ Insert(h) \/ Undo(h) \/ Claim(h) \/ Beat(h)
    \/ NextExpired(h) \/ Check(h) \/ Batch(h) \/ Reread(h)
    \/ FindEvent(h) \/ AddEvent(h) \/ FindReport(h) \/ AddReport(h)
    \/ FindInbox(h) \/ AddInbox(h) \/ WriteVerdict(h) \/ Notify(h)

Next == (\E h \in Handler : Start(h) \/ Continue(h) \/ Crash(h)) \/ Tick

Spec == Init /\ [][Next]_vars
-----------------------------------------------------------------------------
(***************************************************************************)
(* Only the run that its task is assigned to ever executes, so a task never *)
(* has two workers at once: not after a timeout and a retry, and not for a *)
(* run that lost the assignment race and waits to be deleted.              *)
(***************************************************************************)
RunningOwns == \A r \in Run : run[r].status = "running" => Owns(r)

(***************************************************************************)
(* What is left, over D1, of "task and run move together" (StoreContract's *)
(* TaskFollowsRun): a refused finish may have moved the task away from a   *)
(* running run, but no task is ever ahead of a run that has ended, and     *)
(* only a delivered result is completed.                                   *)
(***************************************************************************)
TasksOf == [
    queued    |-> {"assigned"},
    running   |-> {"in_progress", "awaiting_verification", "failed",
                   "cancelled"},
    succeeded |-> {"awaiting_verification", "completed", "failed"},
    failed    |-> {"failed"},
    timed_out |-> {"failed"},
    cancelled |-> {"cancelled"}]

TaskBacked ==
    \A t \in Task :
        IF task[t].assigned = NoRun
        THEN task[t].status = "pending"
        ELSE /\ run[task[t].assigned].status # "absent"
             /\ run[task[t].assigned].task = t
             /\ task[t].status \in TasksOf[run[task[t].assigned].status]

(***************************************************************************)
(* A run that is queued but not assigned is the row of an assignment or a  *)
(* retry that lost its race.  Some handler is about to delete it, and an   *)
(* invocation that dies leaves at most one such row for good.              *)
(***************************************************************************)
Orphan(r) == run[r].status = "queued" /\ ~Owns(r)

OrphansAreUndone ==
    LET undone == {req[h].new : h \in {g \in Handler : req[g].pc = "undo"}}
    IN  Cardinality({r \in Run : Orphan(r)} \ undone) <= crashes

(***************************************************************************)
(* Attempts at a task are numbered 1, 2, ... without a gap or a repeat,    *)
(* and there are at most MaxAttempts of them, however many retries race;   *)
(* rows of lost races do not count, and are undone.                        *)
(***************************************************************************)
Attempts(t) == {r \in RunsOf(t) : ~Orphan(r)}

AttemptsNumbered ==
    /\ OrphansAreUndone
    /\ \A t \in Task :
          /\ {run[r].iter : r \in Attempts(t)} = 1..Cardinality(Attempts(t))
          /\ Cardinality(Attempts(t)) <= MaxAttempts

(***************************************************************************)
(* What the Master reads is true: a report exists only for a run that has  *)
(* ended the way the report says, after its lifecycle event, and the inbox *)
(* announces only reports that exist.                                      *)
(***************************************************************************)
ReportsAreTrue ==
    \A r \in Run :
        /\ report[r] = "success" => /\ run[r].status = "succeeded"
                                    /\ "SUCCEEDED" \in events[r]
        /\ report[r] = "failure" =>
              \/ run[r].status = "failed" /\ "FAILED" \in events[r]
              \/ run[r].status = "timed_out" /\ "TIMED_OUT" \in events[r]
        /\ inbox[r] > 0 => report[r] # "none"

(***************************************************************************)
(* A lease never changes hands: a token once on a run stays until the run  *)
(* ends, and a run that has ended has neither a token nor another status.  *)
(***************************************************************************)
LeaseStays ==
    [][\A r \in Run :
          /\ run[r].token # NoToken => run'[r].token \in {run[r].token, NoToken}
          /\ run[r].status \in Terminal =>
                run'[r].status = run[r].status /\ run'[r].token = NoToken]_vars

(***************************************************************************)
(* Calls race, and some of them break a primary key and are thrown out in  *)
(* the middle of what they record.  Still, while no invocation dies, the   *)
(* outcome of a run that has ended is in the Master's inbox or is owed to  *)
(* it by an invocation that has the rest of the recording before it: the   *)
(* event if that is missing, else the report, else the inbox item.  An     *)
(* invocation that goes on pays, so no finished run stays unannounced.     *)
(***************************************************************************)
Ended(r) == run[r].status \in {"succeeded", "failed", "timed_out"}

Recording(r, steps) ==
    \E h \in Handler :
        /\ req[h].run = r /\ req[h].op \in DOMAIN OutcomeOf
        /\ req[h].pc \in steps

ReportsAreOwed ==
    crashes = 0 =>
        \A r \in Run : Ended(r) /\ inbox[r] = 0 =>
            IF report[r] # "none" THEN Recording(r, {"inbox", "addInbox"})
            ELSE IF events[r] \cap {"SUCCEEDED", "FAILED", "TIMED_OUT"} # {}
            THEN Recording(r, {"report", "addReport"})
            ELSE Recording(r, {"event", "addEvent"})

(***************************************************************************)
(* "Worker lease expired without a heartbeat" is what a timeout reports to *)
(* the Master: a run is timed out only when its lease has expired.         *)
(***************************************************************************)
TimedOutHasExpired ==
    [][\A r \in Run :
          run[r].status # "timed_out" /\ run'[r].status = "timed_out"
              => run[r].expires <= clock]_vars
=============================================================================
