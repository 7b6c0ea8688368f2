---------------------------- MODULE StoreContract ----------------------------
(***************************************************************************)
(* What a StateStore promises the worker-run lifecycle: the in-memory      *)
(* store, where every call reads, decides and writes in one step that no   *)
(* other call can interrupt.  The callers are arbitrary: they present any  *)
(* token, and the `now` they pass may be older than the clock, because the *)
(* lifecycle reads its clock before it awaits the token's hash.            *)
(***************************************************************************)
EXTENDS RunTransitions

CONSTANT MaxClock  \* bound: the last tick of the clock

ASSUME ClockAssumption == MaxClock \in Nat

VARIABLES
    task,   \* the tasks table: task id -> row
    run,    \* the worker_runs table: run id -> row
    clock   \* the wall clock every caller reads

vars == <<task, run, clock>>

RunsOf(t) == {r \in Run : run[r].task = t}
ActiveRunsOf(t) == {r \in RunsOf(t) : run[r].status \in Active}
Owns(r) == run[r].status # "absent" /\ task[run[r].task].assigned = r

TypeOK ==
    /\ task \in [Task -> TaskRow]
    /\ run \in [Run -> RunRow]
    /\ clock \in Nat

Init ==
    /\ task = [t \in Task |-> [status |-> "pending", assigned |-> NoRun]]
    /\ run = [r \in Run |-> Absent]
    /\ clock = 1
-----------------------------------------------------------------------------
\* assignTaskToWorkerRun: a fresh queued run becomes the run of the task.
Assign(t, r) ==
    /\ task[t].assigned = NoRun
    /\ task[t].status = "pending"
    /\ run[r].status = "absent"
    /\ run' = [run EXCEPT ![r] = Queued(t, Cardinality(RunsOf(t)) + 1)]
    /\ task' = [task EXCEPT ![t] = [status |-> "assigned", assigned |-> r]]
    /\ UNCHANGED clock

\* Mutation: a claim starts the run and leaves its task assigned.
ClaimRunOnly(r, tok, now) ==
    /\ Owns(r)
    /\ run[r].status = "queued"
    /\ run' = [run EXCEPT ![r].status = "running", ![r].token = tok,
                          ![r].expires = now + LeaseDuration]
    /\ UNCHANGED <<task, clock>>

\* claimQueuedWorkerRun: the only step that puts a token on a run.
Claim(r, tok, now) ==
    /\ Owns(r)
    /\ run[r].status = "queued"
    /\ task[run[r].task].status = "assigned"
    /\ run' = [run EXCEPT ![r].status = "running", ![r].token = tok,
                          ![r].expires = now + LeaseDuration]
    /\ task' = [task EXCEPT ![run[r].task].status = "in_progress"]
    /\ UNCHANGED clock

\* heartbeatWorkerRun: the holder of a live lease extends it.
Heartbeat(r, tok, now) ==
    /\ run[r].status = "running"
    /\ LeaseLive(run[r], tok, now)
    /\ run' = [run EXCEPT ![r].expires = now + LeaseDuration]
    /\ UNCHANGED <<task, clock>>

(***************************************************************************)
(* applyWorkerRunTaskTransition, one move of the table.  The store itself  *)
(* puts no lease condition on a timeout: recoverExpiredRuns lists the      *)
(* expired runs first.                                                     *)
(***************************************************************************)
Ready(m, r) ==
    /\ Owns(r)
    /\ run[r].status = Move[m].from
    /\ task[run[r].task].status = Move[m].taskFrom

Transition(m, r, tok, now) ==
    /\ Ready(m, r)
    /\ Move[m].leased => LeaseLive(run[r], tok, now)
    /\ run' = [run EXCEPT ![r] = Closed(@, Move[m].to)]
    /\ task' = [task EXCEPT ![run[r].task].status = Move[m].taskTo]
    /\ UNCHANGED clock

\* Mutation: any timed out run may be tried again.
RequeueableAnyTime(prev) == run[prev].status = "timed_out"

\* requeueTimedOutWorkerRun: a new attempt takes the task over.
Requeueable(prev) ==
    LET t == run[prev].task IN
    /\ run[prev].status = "timed_out"
    /\ task[t] = [status |-> "failed", assigned |-> prev]
    /\ ActiveRunsOf(t) = {}

Requeue(prev, new) ==
    LET t == run[prev].task IN
    /\ Requeueable(prev)
    /\ run[new].status = "absent"
    /\ run' = [run EXCEPT ![new] = Queued(t, run[prev].iter + 1)]
    /\ task' = [task EXCEPT ![t] = [status |-> "assigned", assigned |-> new]]
    /\ UNCHANGED clock

\* Mutation: a verdict that does not wait for the worker to succeed.
VerifyAnyRun(t, v) ==
    /\ task[t].assigned # NoRun
    /\ task' = [task EXCEPT ![t].status = Verdict[v]]
    /\ UNCHANGED <<run, clock>>

(***************************************************************************)
(* updateTaskStatus as verifyTaskResult calls it.  The write itself is     *)
(* unconditional and lands after the check of the task and its run: two    *)
(* verifications may both pass the check, and the second overwrites the    *)
(* verdict of the first.                                                   *)
(***************************************************************************)
Verify(t, v) ==
    /\ \E r \in Run : task[t].assigned = r /\ run[r].status = "succeeded"
    /\ task' = [task EXCEPT ![t].status = Verdict[v]]
    /\ UNCHANGED <<run, clock>>

Tick ==
    /\ clock < MaxClock
    /\ clock' = clock + 1
    /\ UNCHANGED <<task, run>>

Recover(r) ==
    \E tok \in Token, now \in 1..clock : Transition("timeout", r, tok, now)

Next ==
    \/ \E t \in Task, r \in Run : Assign(t, r)
    \/ \E r \in Run, tok \in Token, now \in 1..clock :
          \/ Claim(r, tok, now)
          \/ Heartbeat(r, tok, now)
          \/ \E m \in MoveName : Transition(m, r, tok, now)
    \/ \E prev, new \in Run : Requeue(prev, new)
    \/ \E t \in Task, v \in DOMAIN Verdict : Verify(t, v)
    \/ Tick

Spec == Init /\ [][Next]_vars

(***************************************************************************)
(* Fairness: recover-expired-runs is called again and again, and times out *)
(* every run that stays expired.  Nothing is assumed of the workers.       *)
(***************************************************************************)
FairSpec ==
    Spec /\ \A r \in Run : WF_vars(run[r].expires <= clock /\ Recover(r))
-----------------------------------------------------------------------------
(***************************************************************************)
(* A task and the run it is assigned to move together: whatever the order  *)
(* of claims, finishes, timeouts, retries and verifications, the status of *)
(* the task is one that the status of its run allows.                      *)
(***************************************************************************)
Together == [
    queued    |-> {"assigned"},
    running   |-> {"in_progress"},
    succeeded |-> {"awaiting_verification", "completed", "failed"},
    failed    |-> {"failed"},
    timed_out |-> {"failed"},
    cancelled |-> {"cancelled"}]

TaskFollowsRun ==
    \A t \in Task :
        IF task[t].assigned = NoRun
        THEN task[t].status = "pending"
        ELSE /\ run[task[t].assigned].status # "absent"
             /\ run[task[t].assigned].task = t
             /\ task[t].status \in Together[run[task[t].assigned].status]

(***************************************************************************)
(* A task has at most one run that is queued or running, and it is the run *)
(* the task is assigned to (leases.test.ts: "keeps a single nonterminal    *)
(* run per task").                                                         *)
(***************************************************************************)
SingleNonterminalRun ==
    \A r \in Run : run[r].status \in Active => task[run[r].task].assigned = r

(***************************************************************************)
(* No run is left behind: a run whose worker has gone silent ends, or its  *)
(* worker is heard of again ("leaving run for lease recovery").  A promise *)
(* of the in-memory store only: over D1 a refused finish may leave a run   *)
(* that can never time out (KeepsContract of D1Refinement fails).          *)
(***************************************************************************)
ExpiredRunsEnd ==
    \A r \in Run :
        run[r].status = "running" /\ run[r].expires <= clock
            ~> run[r].status # "running" \/ run[r].expires > clock
=============================================================================
