------------------------------- MODULE Actuator -------------------------------
(***************************************************************************)
(* The workers that a dispatch launches: runActuator of                    *)
(* src/actuator/executor.ts with its heartbeat loop (heartbeat-loop.ts),   *)
(* its client of the control plane (control-plane-client.ts) and           *)
(* runCodingTask of coding-task.ts, several of them on one coding budget.  *)
(*                                                                         *)
(* A worker is one process: its script, and the timer that beats beside    *)
(* it.  A call of the control plane is one action; it may be dropped, or   *)
(* done with its answer lost.  git, Codex and the tests are outcomes.      *)
(* Of the server's side of a call there is what the worker can tell, and   *)
(* what it does to the run: D1Lifecycle has its statements.                *)
(***************************************************************************)
EXTENDS Totals, FiniteSetsExt

CONSTANTS
    Workers,       \* the workers, each launched for a run of its own
    HardLimit,     \* the hard limit of llm_cost_usd, 0 when there is none
    Reservation,   \* codingAttemptReservationUsd, the same model for all
    Costs,         \* what Codex may report to have used
    FailureLimit,  \* ActuatorConfig.heartbeatFailureLimit
    Scenarios      \* which workers are in mode coding-task, the others run the synthetic-noop,
                   \* and a bound: lost calls, signals, deaths and leases that run out early

ASSUME ActuatorAssumption ==
    /\ HardLimit \in Nat
    /\ Reservation \in Nat \ {0}
    /\ Costs \subseteq Nat
    /\ FailureLimit \in Nat \ {0}
    /\ Scenarios \subseteq [coding : SUBSET Workers, faults : Nat]
ASSUME WorkersAssumption == IsFiniteSet(Workers)
\* one pass costs so much and no more
ASSUME CostsAssumption ==
    \E most \in Costs \cup {Reservation} : \A cost \in Costs \cup {Reservation} : most >= cost

VARIABLES
    run,        \* worker_runs: status of each worker's run, and of a running one its lease
    entries,    \* budget_entries: the amounts, -1 when there is none
    candidate,  \* code_candidates: the workers that have stored one
    w,          \* the workers
    coding,     \* the workers in mode coding-task, never changed
    faults,     \* faults left
    launches,   \* history: how often each worker has started Codex
    told,       \* history: the terminal reports that each worker has sent
    crowd       \* history: the most workers that ever were spending at once

vars == <<run, entries, candidate, w, coding, faults, launches, told, crowd>>

Passes == {"first", "repair"}
Missing == -1     \* parseCodexUsage is undefined
EntryIds == Workers \X Passes

\* A run that is still running when its lease is over is "expired"; it is "stranded" when a
\* report that was refused for it has moved its task, so that no statement can end it.
Ended == {"succeeded", "failed", "timed_out"}
RunStatus == {"queued", "running", "expired", "stranded"} \cup Ended

PC == {"claim", "packet", "budget", "checkout", "codex", "charge", "test", "candidate",
       "sleep", "stop", "succeed", "fail", "exit"}
WorkerRow == [pc : PC,
              beating : BOOLEAN,              \* the interval timer runs
              flying : BOOLEAN,               \* inFlight of the heartbeat loop
              misses : 0 .. FailureLimit - 1, \* consecutiveFailures
              lost : BOOLEAN,                 \* ownershipLost
              aborted : BOOLEAN,              \* workAbort.signal
              left : Nat,                     \* budget.remainingHardLimit
              pass : Passes,                  \* Codex' first pass or its repair
              cost : Nat,                     \* estimatedCostUsd of this pass
              first : Nat,                    \* ... of the first pass
              changed : BOOLEAN,              \* changedFileCount > 0
              ended : {"no", "ok", "failed", "threw", "refused"},
              reason : {"none", "succeeded", "failed", "ownership_lost", "claim_failed", "died"}]

RowsOfTheirTypes ==
    /\ run \in [Workers -> RunStatus]
    /\ entries \in [EntryIds -> Nat \cup {-1}]
    /\ candidate \subseteq Workers
    /\ w \in [Workers -> WorkerRow]
    /\ coding \subseteq Workers
    /\ faults \in Nat
    /\ launches \in [Workers -> 0 .. 2]
    /\ told \in [Workers -> SUBSET {"succeed", "fail"}]

TypeOK == RowsOfTheirTypes /\ crowd \in Nat

Init ==
    /\ run = [i \in Workers |-> "queued"]
    /\ entries = [e \in EntryIds |-> -1]
    /\ candidate = {}
    /\ w = [i \in Workers |->
               [pc |-> "claim", beating |-> FALSE, flying |-> FALSE, misses |-> 0,
                lost |-> FALSE, aborted |-> FALSE, left |-> 0, pass |-> "first",
                cost |-> 0, first |-> 0, changed |-> FALSE, ended |-> "no",
                reason |-> "none"]]
    /\ \E s \in Scenarios : coding = s.coding /\ faults = s.faults
    /\ launches = [i \in Workers |-> 0]
    /\ told = [i \in Workers |-> {}]
    /\ crowd = 0

-----------------------------------------------------------------------------

At(i, pc) == w[i].pc = pc
Goto(i, pc) == w' = [w EXCEPT ![i].pc = pc]
Exit(i, reason) == w' = [w EXCEPT ![i].pc = "exit", ![i].reason = reason]

\* The work has ended, or has thrown; heartbeat.stop() stops the timer at once.
End(i, ended) == w' = [w EXCEPT ![i].pc = "stop", ![i].ended = ended, ![i].beating = FALSE]

\* A call is answered, or done without an answer, or never arrives (NETWORK_ERROR).
Net == {"answered", "unanswered", "dropped"}
Delivered(net) == net # "dropped"
Fault(net) ==
    IF net = "answered" THEN UNCHANGED faults ELSE faults > 0 /\ faults' = faults - 1

Owned(i) == run[i] = "running"

\* the entries there are; -1 does not count
Spent == Total(entries)
RemainingHardLimit == IF HardLimit > Spent THEN HardLimit - Spent ELSE 0

-----------------------------------------------------------------------------
(* runActuator up to the work                                              *)

\* Mutation: the heartbeat is started before the claim, and goes on when that fails.
ClaimBeating(i, net) ==
    /\ At(i, "claim")
    /\ Fault(net)
    /\ run' = IF run[i] = "queued" /\ Delivered(net) THEN [run EXCEPT ![i] = "running"] ELSE run
    /\ w' = [w EXCEPT ![i].beating = TRUE,
           ![i].pc = IF run[i] = "queued" /\ net = "answered"
                       THEN IF i \in coding THEN "packet" ELSE "sleep" ELSE "exit",
           ![i].reason = IF run[i] = "queued" /\ net = "answered" THEN @ ELSE "claim_failed"]
    /\ UNCHANGED <<entries, candidate, launches, told, coding, crowd>>

\* claim; whatever goes wrong, the worker gives up
Claim(i, net) ==
    /\ At(i, "claim")
    /\ Fault(net)
    /\ run' = IF run[i] = "queued" /\ Delivered(net) THEN [run EXCEPT ![i] = "running"] ELSE run
    /\ IF run[i] = "queued" /\ net = "answered"
         THEN w' = [w EXCEPT ![i].pc = IF i \in coding THEN "packet" ELSE "sleep",
                             ![i].beating = TRUE]
         ELSE Exit(i, "claim_failed")
    /\ UNCHANGED <<entries, candidate, launches, told, coding, crowd>>

\* runSyntheticNoop, which an abort ends with an error
Sleep(i) ==
    /\ At(i, "sleep")
    /\ End(i, IF w[i].aborted THEN "threw" ELSE "ok")
    /\ UNCHANGED <<run, entries, candidate, faults, launches, told, coding, crowd>>

-----------------------------------------------------------------------------
(* runCodingTask                                                           *)

\* getTaskPacket wants the lease; then the worker's own configuration is looked at
GetTaskPacket(i, net, config) ==
    /\ At(i, "packet")
    /\ Fault(net)
    /\ CASE net # "answered"              -> End(i, "threw")
         [] net = "answered" /\ ~Owned(i) -> End(i, "refused")
         [] net = "answered" /\ Owned(i) /\ config = "no_api_key" -> End(i, "failed")
         [] net = "answered" /\ Owned(i) /\ config = "invalid" -> End(i, "threw")
         [] OTHER -> Goto(i, "budget")
    /\ UNCHANGED <<run, entries, candidate, launches, told, coding, crowd>>

\* The workers between their look at the budget and the end of what they spend on it.
Spending == {j \in Workers : w[j].pc \in {"checkout", "codex", "charge", "test"}}
Crowded(n) == crowd' = IF n > crowd THEN n ELSE crowd

\* getBudget, and the headroom for one pass
GetBudget(i, net) ==
    /\ At(i, "budget")
    /\ Fault(net)
    /\ CASE net # "answered" -> End(i, "threw") /\ UNCHANGED crowd
         [] net = "answered" /\ (HardLimit = 0 \/ RemainingHardLimit < Reservation) ->
                End(i, "failed") /\ UNCHANGED crowd
         [] OTHER -> \E left \in 0 .. HardLimit :
                /\ left = RemainingHardLimit
                /\ w' = [w EXCEPT ![i].pc = "checkout", ![i].left = left]
                /\ Crowded(Cardinality(Spending) + 1)
    /\ UNCHANGED <<run, entries, candidate, launches, told, coding>>

\* the parent candidate of a repair, prepareIsolatedCheckout and the setup command
Checkout(i, outcome) ==
    /\ At(i, "checkout")
    /\ IF outcome = "ready" THEN Goto(i, "codex") ELSE End(i, outcome)
    /\ UNCHANGED <<run, entries, candidate, faults, launches, told, coding, crowd>>

\* Codex runs to some end, unless the work was aborted before: then it is not started.
\* Without a usage event in its output the reservation is charged.  The changes are read
\* anew after each pass, so a repair may take back all that the first pass had changed.
Codex(i, usage, changed) ==
    /\ At(i, "codex")
    /\ w[i].aborted => usage = Missing /\ ~changed
    /\ launches' = IF w[i].aborted THEN launches ELSE [launches EXCEPT ![i] = @ + 1]
    /\ LET cost == IF usage = Missing THEN Reservation ELSE usage
       IN  w' = [w EXCEPT ![i].pc = "charge", ![i].cost = cost,
                          ![i].first = IF w[i].pass = "first" THEN cost ELSE @,
                          ![i].changed = IF w[i].aborted THEN @ ELSE changed]
    /\ UNCHANGED <<run, entries, candidate, faults, told, coding, crowd>>

\* Mutation: the entry of the repair has the id of the first.
OneEntryPerRun(i, pass) == <<i, "first">>

\* budg-coding-<run> and budg-coding-repair-<run>
EntryId(i, pass) == <<i, pass>>

\* recordBudgetEntry: a different entry under the same id is a conflict
Charge(i, net) ==
    LET id == EntryId(i, w[i].pass)
        fresh == entries[id] = -1
    IN  /\ At(i, "charge")
        /\ Fault(net)
        /\ entries' = IF Delivered(net) /\ fresh THEN [entries EXCEPT ![id] = w[i].cost]
                                                 ELSE entries
        /\ CASE net # "answered" -> End(i, "threw")
             [] net = "answered" /\ ~fresh /\ entries[id] # w[i].cost -> End(i, "refused")
             [] OTHER -> Goto(i, "test")
        /\ UNCHANGED <<run, candidate, launches, told, coding, crowd>>

\* Mutation: the repair pass does not look at the budget.
RepairAnyhow(i) == w[i].pass = "first"

\* one repair pass, if the budget that was read before the first still has room for it
RepairAllowed(i) == w[i].pass = "first" /\ w[i].left - w[i].first >= Reservation

\* Mutation: passing tests are enough, with or without a change.
TestedWithoutChanges(i) == End(i, "ok")

\* changes that pass become a candidate; tests that pass without any are a failure
Tested(i) == IF w[i].changed THEN Goto(i, "candidate") ELSE End(i, "failed")

\* the trusted test; an aborted one counts as failed
Test(i, result) ==
    /\ At(i, "test")
    /\ w[i].aborted => result = "failed"
    /\ CASE result = "passed" -> Tested(i)
         [] result = "failed" /\ RepairAllowed(i) ->
                w' = [w EXCEPT ![i].pc = "codex", ![i].pass = "repair"]
         [] OTHER -> End(i, "failed")
    /\ UNCHANGED <<run, entries, candidate, faults, launches, told, coding, crowd>>

\* createCodeCandidate
StoreCandidate(i, net) ==
    /\ At(i, "candidate")
    /\ Fault(net)
    /\ candidate' = IF Delivered(net) THEN candidate \cup {i} ELSE candidate
    /\ End(i, IF net = "answered" THEN "ok" ELSE "threw")
    /\ UNCHANGED <<run, entries, launches, told, coding, crowd>>

-----------------------------------------------------------------------------
(* runActuator after the work                                              *)

\* Mutation: stop() does not wait for a heartbeat that is under way.
StopAtOnce(i) ==
    /\ At(i, "stop")
    /\ IF w[i].lost \/ w[i].ended = "refused"
         THEN Exit(i, "ownership_lost")
         ELSE Goto(i, IF w[i].ended = "ok" THEN "succeed" ELSE "fail")
    /\ UNCHANGED <<run, entries, candidate, faults, launches, told, coding, crowd>>

\* heartbeat.stop() has waited for the heartbeat under way; then the flag is looked at
StopHeartbeat(i) ==
    /\ At(i, "stop")
    /\ ~w[i].flying
    /\ IF w[i].lost \/ w[i].ended = "refused"
         THEN Exit(i, "ownership_lost")
         ELSE Goto(i, IF w[i].ended = "ok" THEN "succeed" ELSE "fail")
    /\ UNCHANGED <<run, entries, candidate, faults, launches, told, coding, crowd>>

\* What the server makes of a terminal report: the lease guards only the run's statement of
\* the batch, so that a late one is refused and yet moves the task (d1-store.ts:1495).
Reported(i, status) ==
    CASE Owned(i)           -> [run EXCEPT ![i] = status]
      [] run[i] = "expired" -> [run EXCEPT ![i] = "stranded"]
      [] OTHER              -> run

\* ... and what the worker makes of its answer
Report(i, net, status, reason) ==
    /\ Fault(net)
    /\ run' = IF Delivered(net) THEN Reported(i, status) ELSE run
    /\ Exit(i, CASE net # "answered" -> "failed"
                 [] net = "answered" /\ ~Owned(i) -> "ownership_lost"
                 [] OTHER -> reason)
    /\ UNCHANGED <<entries, candidate, launches, coding, crowd>>

\* terminalSent is set before the call, so nothing follows it
Succeed(i, net) ==
    /\ At(i, "succeed")
    /\ told' = [told EXCEPT ![i] = @ \cup {"succeed"}]
    /\ Report(i, net, "succeeded", "succeeded")

\* failIfOwned
Fail(i, net) ==
    /\ At(i, "fail")
    /\ told' = [told EXCEPT ![i] = @ \cup {"fail"}]
    /\ Report(i, net, "failed", "failed")

-----------------------------------------------------------------------------
(* startHeartbeatLoop                                                      *)

\* the timer fires, unless a heartbeat is under way
Tick(i) ==
    /\ w[i].beating /\ ~w[i].flying
    /\ w' = [w EXCEPT ![i].flying = TRUE]
    /\ UNCHANGED <<run, entries, candidate, faults, launches, told, coding, crowd>>

OwnershipLost(i) ==
    w' = [w EXCEPT ![i].flying = FALSE, ![i].beating = FALSE, ![i].lost = TRUE,
                   ![i].aborted = TRUE]

\* Mutation: failed heartbeats are counted and nothing else.
BeatNeverGivesUp(i, net) ==
    /\ w[i].flying
    /\ Fault(net)
    /\ CASE net = "answered" /\ Owned(i) ->
                w' = [w EXCEPT ![i].flying = FALSE, ![i].misses = 0]
         [] net # "answered" -> w' = [w EXCEPT ![i].flying = FALSE, ![i].misses = @ + 1]
         [] OTHER -> OwnershipLost(i)
    /\ UNCHANGED <<run, entries, candidate, launches, told, coding, crowd>>

\* runBeat: a refusal, or too many failures in a row, ends the loop and aborts the work
Beat(i, net) ==
    /\ w[i].flying
    /\ Fault(net)
    /\ CASE net = "answered" /\ Owned(i) ->
                w' = [w EXCEPT ![i].flying = FALSE, ![i].misses = 0]
         [] net # "answered" /\ w[i].misses + 1 < FailureLimit ->
                w' = [w EXCEPT ![i].flying = FALSE, ![i].misses = @ + 1]
         [] OTHER -> OwnershipLost(i)
    /\ UNCHANGED <<run, entries, candidate, launches, told, coding, crowd>>

-----------------------------------------------------------------------------
(* Signals, deaths and the lease                                           *)

\* SIGTERM or SIGINT (run-worker.ts)
Signal(i) ==
    /\ w[i].pc # "exit" /\ ~w[i].aborted
    /\ faults > 0
    /\ faults' = faults - 1
    /\ w' = [w EXCEPT ![i].aborted = TRUE]
    /\ UNCHANGED <<run, entries, candidate, launches, told, coding, crowd>>

Die(i) ==
    /\ w[i].pc # "exit"
    /\ faults > 0
    /\ faults' = faults - 1
    /\ w' = [w EXCEPT ![i].pc = "exit", ![i].reason = "died", ![i].beating = FALSE,
                      ![i].flying = FALSE]
    /\ UNCHANGED <<run, entries, candidate, launches, told, coding, crowd>>

Silent(i) == ~w[i].beating /\ ~w[i].flying

\* the lease of a worker that no longer beats is over
Expire(i) ==
    /\ Owned(i) /\ Silent(i)
    /\ run' = [run EXCEPT ![i] = "expired"]
    /\ UNCHANGED <<entries, candidate, w, faults, launches, told, coding, crowd>>

\* ... or that of one whose heartbeats come too late
LeaseRunsOut(i) ==
    /\ Owned(i) /\ ~Silent(i)
    /\ faults > 0
    /\ faults' = faults - 1
    /\ run' = [run EXCEPT ![i] = "expired"]
    /\ UNCHANGED <<entries, candidate, w, launches, told, coding, crowd>>

\* recoverExpiredRuns; it passes over a run whose task is not in progress
Recover(i) ==
    /\ run[i] = "expired"
    /\ run' = [run EXCEPT ![i] = "timed_out"]
    /\ UNCHANGED <<entries, candidate, w, faults, launches, told, coding, crowd>>

Work(i) ==
    \/ Sleep(i) \/ StopHeartbeat(i)
    \/ \E net \in Net :
          \/ Claim(i, net) \/ GetBudget(i, net) \/ Charge(i, net)
          \/ \E config \in {"complete", "no_api_key", "invalid"} : GetTaskPacket(i, net, config)
          \/ StoreCandidate(i, net) \/ Succeed(i, net) \/ Fail(i, net)
    \/ \E o \in {"ready", "failed", "threw"} : Checkout(i, o)
    \/ \E u \in Costs \cup {Missing}, c \in BOOLEAN : Codex(i, u, c)
    \/ \E r \in {"passed", "failed", "timed_out"} : Test(i, r)

Heartbeat(i) == \E net \in Net : Beat(i, net)

Next == \E i \in Workers :
    \/ Work(i) \/ Tick(i) \/ Heartbeat(i)
    \/ Signal(i) \/ Die(i)
    \/ Expire(i) \/ LeaseRunsOut(i) \/ Recover(i)

Spec == Init /\ [][Next]_vars

\* A worker goes on, a heartbeat is answered or fails, a lease that nobody renews expires,
\* and somebody recovers expired runs.
FairSpec ==
    /\ Spec
    /\ \A i \in Workers : /\ WF_vars(Work(i)) /\ WF_vars(Heartbeat(i))
                          /\ WF_vars(Expire(i)) /\ WF_vars(Recover(i))

-----------------------------------------------------------------------------
(* Properties                                                              *)

\* A coding run that has succeeded has stored its candidate and the cost of its first
\* pass, in spite of lost calls, heartbeats, signals and leases that run out between
\* them; and one whose worker has tried to report success is never failed by it, also
\* when the report was lost or came too late (coding-task.ts:335, terminalSent of
\* executor.ts:143).
OutcomeIsTrue ==
    /\ \A i \in coding : run[i] = "succeeded" => i \in candidate /\ entries[<<i, "first">>] # -1
    /\ \A i \in Workers : "succeed" \in told[i] => run[i] # "failed"

\* A worker that has learned that its lease is gone says nothing more, and none that
\* is about to report can still learn it: the heartbeat that was under way has been
\* waited for (executor.ts:137, heartbeat-loop.ts:70).
SilentWhenLost ==
    \A i \in Workers : w[i].pc \in {"succeed", "fail"} =>
        ~w[i].lost /\ ~w[i].flying /\ ~w[i].beating

\* Every start of Codex is charged before anything is made of its work: a script that
\* comes to its end has recorded an entry for each pass (coding-task.ts:335, :437).
Charged(i) == Cardinality({p \in Passes : entries[<<i, p>>] # -1})
LaunchesAreCharged ==
    \A i \in Workers : w[i].ended \in {"ok", "failed"} => Charged(i) >= launches[i]

\* Workers that look at the budget one after the other keep to the hard limit, but for
\* one last pass that costs more than was reserved for it; and each further worker that
\* spends beside others adds no more than one worker can spend, however their looks,
\* charges, repairs and deaths interleave (coding-task.ts:228 and :374).
PassCost == Max(Costs \cup {Reservation})
WorkerCost == Min({2 * PassCost, HardLimit - Reservation + PassCost})
SpendIsBounded ==
    IF crowd = 0 THEN Spent = 0
    ELSE Spent <= HardLimit - Reservation + PassCost + (crowd - 1) * WorkerCost

\* A claimed run ends, whatever happens to its worker: it is reported, or its lease runs
\* out since nobody renews it and it is recovered.  The one exception is a run whose worker
\* has reported after its lease was over: the refused report has moved the task, and from
\* then on every timeout is an illegal transition (d1-store.ts:1495, lifecycle.ts:430).
ClaimedRunsEnd ==
    \A i \in Workers :
        Owned(i) ~> \/ run[i] \in Ended
                    \/ run[i] = "stranded" /\ told[i] # {} /\ At(i, "exit")
=============================================================================
