---------------------------- MODULE ActuatorProofs ----------------------------
(***************************************************************************)
(* Proofs about Actuator, for any workers, budget, costs and faults.  What *)
(* a worker has launched, charged, stored and reported depends on where    *)
(* its script is, however its heartbeats, signals and lost calls fall.     *)
(* What they spend together is bounded by what each could still spend when *)
(* it looked at the budget.                                                *)
(***************************************************************************)
EXTENDS Actuator, TotalsProofs

Before == {"claim", "packet", "budget", "checkout"}
Working == {"packet", "budget", "checkout", "codex", "charge", "test", "candidate", "sleep"}
Ending == {"stop", "succeed", "fail", "exit"}

Paid(i, pass) == entries[<<i, pass>>] # -1

\* Every launch of i has been charged.
AllPaid(i) ==
    \/ launches[i] = 0
    \/ launches[i] <= 1 /\ Paid(i, "first")
    \/ Paid(i, "first") /\ Paid(i, "repair")

\* How often Codex was launched, and what was charged, by the step reached.
LaunchesOK(i) ==
    LET q == w[i] IN
    /\ q.pc \in Before \cup {"sleep"} => launches[i] = 0 /\ q.pass = "first"
    /\ q.pc \in {"codex", "charge"} /\ q.pass = "repair" => Paid(i, "first")
    /\ q.pc = "codex" => launches[i] <= IF q.pass = "first" THEN 0 ELSE 1
    /\ q.pc \in {"charge", "test", "candidate"} /\ q.pass = "first" => launches[i] <= 1
    /\ q.pc \in {"test", "candidate"} => Paid(i, "first") /\ Paid(i, q.pass)
    /\ q.ended \in {"ok", "failed"} => AllPaid(i)

\* The timer, the heartbeat under way and the lost lease, by the step reached.
HeartbeatOK(i) ==
    LET q == w[i] IN
    /\ q.pc = "claim" => ~q.flying /\ ~q.lost
    /\ q.pc \in Ending \cup {"claim"} => ~q.beating
    /\ q.pc \in {"succeed", "fail"} => ~q.flying /\ ~q.lost

\* The end of the work and what is told of it, by the step reached.
EndingOK(i) ==
    LET q == w[i] IN
    /\ q.pc \in Working \cup {"claim"} => q.ended = "no"
    /\ q.pc = "sleep" => i \notin coding
    /\ q.pc = "succeed" => q.ended = "ok"
    /\ q.ended = "ok" /\ i \in coding => i \in candidate /\ Paid(i, "first")
    /\ q.pc # "exit" => told[i] = {} /\ run[i] # "failed"
    /\ run[i] = "succeeded" => q.ended = "ok"
    /\ "succeed" \in told[i] => run[i] # "failed"

WorkerOK(i) == LaunchesOK(i) /\ HeartbeatOK(i) /\ EndingOK(i)

IInv == RowsOfTheirTypes /\ \A i \in Workers : WorkerOK(i)
-----------------------------------------------------------------------------
(***************************************************************************)
(* A step changes one worker, its run and its rows.                        *)
(***************************************************************************)
Rest ==
    /\ run' \in [Workers -> RunStatus]
    /\ entries' \in [EntryIds -> Nat \cup {-1}]
    /\ candidate' \subseteq Workers
    /\ faults' \in Nat
    /\ launches' \in [Workers -> 0 .. 2]
    /\ told' \in [Workers -> SUBSET {"succeed", "fail"}]
    /\ coding' = coding

OthersStay(i) ==
    \A j \in Workers \ {i} :
        /\ run'[j] = run[j] /\ launches'[j] = launches[j] /\ told'[j] = told[j]
        /\ j \in candidate => j \in candidate'
        /\ \A p \in Passes : entries'[<<j, p>>] = entries[<<j, p>>]

LEMMA OneWorker ==
    ASSUME IInv, NEW i \in Workers, NEW q \in WorkerRow, w' = [w EXCEPT ![i] = q],
           Rest, OthersStay(i), WorkerOK(i)'
    PROVE  IInv'
  <1>1. w \in [Workers -> WorkerRow] /\ coding \subseteq Workers BY DEF IInv, RowsOfTheirTypes
  <1>2. RowsOfTheirTypes' BY <1>1 DEF Rest, RowsOfTheirTypes
  <1>3. ASSUME NEW j \in Workers \ {i} PROVE WorkerOK(j)'
    <2>1. w'[j] = w[j] /\ WorkerOK(j) BY <1>1 DEF IInv
    <2>2. /\ run'[j] = run[j] /\ launches'[j] = launches[j] /\ told'[j] = told[j]
          /\ j \in candidate => j \in candidate'
          /\ \A p \in Passes : Paid(j, p)' <=> Paid(j, p)
          /\ coding' = coding
      BY DEF OthersStay, Rest, Paid
    <2>3. "first" \in Passes /\ "repair" \in Passes /\ w[j].pass \in Passes
      BY <1>1 DEF Passes, WorkerRow
    <2>4. LaunchesOK(j)'
      <3>1. AllPaid(j)' <=> AllPaid(j) BY <2>2, <2>3 DEF AllPaid
      <3> QED BY <2>1, <2>2, <2>3, <3>1 DEF WorkerOK, LaunchesOK
    <2>5. HeartbeatOK(j)' BY <2>1 DEF WorkerOK, HeartbeatOK
    <2>6. EndingOK(j)' BY <2>1, <2>2, <2>3 DEF WorkerOK, EndingOK
    <2> QED BY <2>4, <2>5, <2>6 DEF WorkerOK
  <1> QED BY <1>2, <1>3 DEF IInv

\* A step that changes nothing but the worker and the number of faults.
LEMMA WorkerOnly ==
    ASSUME IInv, NEW i \in Workers, NEW q \in WorkerRow, w' = [w EXCEPT ![i] = q],
           UNCHANGED <<run, entries, candidate, launches, told, coding>>,
           faults' \in Nat, WorkerOK(i)'
    PROVE  IInv'
  <1>1. Rest BY DEF IInv, RowsOfTheirTypes, Rest
  <1>2. OthersStay(i) BY DEF OthersStay
  <1> QED BY <1>1, <1>2, OneWorker

\* Calls that are lost are faults, and there are never less than none.
LEMMA FaultLeft ==
    ASSUME IInv, NEW net, Fault(net)
    PROVE  faults' \in Nat
  BY DEF IInv, RowsOfTheirTypes, Fault

LEMMA SignalLeft ==
    ASSUME IInv, faults > 0, faults' = faults - 1
    PROVE  faults' \in Nat
  BY DEF IInv, RowsOfTheirTypes

\* The work ends, and only the candidates may change with it.
LEMMA EndStep ==
    ASSUME IInv, NEW i \in Workers, NEW ended \in {"ok", "failed", "threw", "refused"},
           End(i, ended), w[i].pc \in Working,
           UNCHANGED <<run, entries, launches, told, coding>>,
           candidate \subseteq candidate', candidate' \subseteq Workers, faults' \in Nat,
           ended \in {"ok", "failed"} => AllPaid(i),
           ended = "ok" /\ i \in coding => i \in candidate' /\ Paid(i, "first")
    PROVE  IInv'
  <1> DEFINE q == [w[i] EXCEPT !.pc = "stop", !.ended = ended, !.beating = FALSE]
  <1>0. w \in [Workers -> WorkerRow] /\ w[i] \in WorkerRow /\ WorkerOK(i)
    BY DEF IInv, RowsOfTheirTypes
  <1>1. w' = [w EXCEPT ![i] = q] BY <1>0 DEF End
  <1>2. q \in WorkerRow /\ q.pc = "stop" /\ q.ended = ended /\ ~q.beating
    BY <1>0 DEF WorkerRow, PC
  <1> HIDE DEF q
  <1>3. w'[i] = q BY <1>0, <1>1
  <1>4. Rest /\ OthersStay(i) BY DEF IInv, RowsOfTheirTypes, Rest, OthersStay
  <1>5. LaunchesOK(i)'
    BY <1>2, <1>3 DEF LaunchesOK, AllPaid, Paid, Before
  <1>6. HeartbeatOK(i)'
    BY <1>2, <1>3 DEF HeartbeatOK
  <1>7. EndingOK(i)'
    <2>1. told[i] = {} /\ run[i] # "failed" /\ run[i] # "succeeded"
      BY <1>0 DEF WorkerOK, EndingOK, Working
    <2> QED BY <1>2, <1>3, <2>1 DEF EndingOK, Working, Paid
  <1> QED BY <1>1, <1>2, <1>4, <1>5, <1>6, <1>7, OneWorker DEF WorkerOK

\* The script goes on to another step of the work.
LEMMA WorkStep ==
    ASSUME IInv, NEW i \in Workers, NEW q \in WorkerRow, w' = [w EXCEPT ![i] = q],
           UNCHANGED <<run, candidate, told, coding>>, Rest, OthersStay(i),
           w[i].pc \in Working, q.pc \in Working \ {"sleep"}, q.ended = w[i].ended,
           LaunchesOK(i)', Paid(i, "first") => Paid(i, "first")'
    PROVE  IInv'
  <1>0. w \in [Workers -> WorkerRow] /\ WorkerOK(i) BY DEF IInv, RowsOfTheirTypes
  <1>1. w'[i] = q BY <1>0
  <1>2. HeartbeatOK(i)' BY <1>1 DEF HeartbeatOK, Working, Ending
  <1>3. EndingOK(i)'
    <2>1. told[i] = {} /\ run[i] # "failed" /\ run[i] # "succeeded" /\ w[i].ended = "no"
      BY <1>0 DEF WorkerOK, EndingOK, Working
    <2> QED BY <1>1, <2>1 DEF EndingOK, Working
  <1> QED BY <1>2, <1>3, OneWorker DEF WorkerOK
-----------------------------------------------------------------------------
(***************************************************************************)
(* runActuator and runCodingTask.                                          *)
(***************************************************************************)
LEMMA ClaimKeeps ==
    ASSUME IInv, NEW i \in Workers, NEW net \in Net, Claim(i, net)
    PROVE  IInv'
  <1>0. /\ RowsOfTheirTypes /\ WorkerOK(i) /\ w \in [Workers -> WorkerRow] /\ w[i] \in WorkerRow
        /\ w[i].pc = "claim"
    BY DEF IInv, RowsOfTheirTypes, Claim, At
  <1>1. faults' \in Nat BY FaultLeft DEF Claim
  <1>2. /\ run' \in [Workers -> RunStatus] /\ \A j \in Workers \ {i} : run'[j] = run[j]
        /\ run'[i] \in {run[i], "running"}
    BY <1>0 DEF Claim, RowsOfTheirTypes, RunStatus, Ended
  <1>3. Rest /\ OthersStay(i) BY <1>0, <1>1, <1>2 DEF Claim, RowsOfTheirTypes, Rest, OthersStay
  <1>4. PICK q \in WorkerRow :
           /\ w' = [w EXCEPT ![i] = q]
           /\ q.flying = w[i].flying /\ q.lost = w[i].lost
           /\ q.ended = w[i].ended /\ q.pass = w[i].pass
           /\ \/ q.pc = "exit" /\ q.beating = w[i].beating
              \/ q.pc = "packet" /\ i \in coding
              \/ q.pc = "sleep" /\ i \notin coding
    <2>1. CASE run[i] = "queued" /\ net = "answered"
      <3> DEFINE pc == IF i \in coding THEN "packet" ELSE "sleep"
                 q == [w[i] EXCEPT !.pc = pc, !.beating = TRUE]
      <3>1. w' = [w EXCEPT ![i] = q] BY <1>0, <2>1 DEF Claim
      <3>2. pc \in PC BY DEF PC
      <3>3. /\ q \in WorkerRow /\ q.flying = w[i].flying /\ q.lost = w[i].lost
            /\ q.ended = w[i].ended /\ q.pass = w[i].pass /\ q.pc = pc
        BY <1>0, <3>2 DEF WorkerRow
      <3> QED BY <3>1, <3>3
    <2>2. CASE ~(run[i] = "queued" /\ net = "answered")
      <3> DEFINE q == [w[i] EXCEPT !.pc = "exit", !.reason = "claim_failed"]
      <3>1. w' = [w EXCEPT ![i] = q] BY <1>0, <2>2 DEF Claim, Exit
      <3>2. /\ q \in WorkerRow /\ q.flying = w[i].flying /\ q.lost = w[i].lost
            /\ q.ended = w[i].ended /\ q.pass = w[i].pass /\ q.pc = "exit"
            /\ q.beating = w[i].beating
        BY <1>0 DEF WorkerRow, PC
      <3> QED BY <3>1, <3>2
    <2> QED BY <2>1, <2>2
  <1>5. w'[i] = q BY <1>0, <1>4
  <1>6. UNCHANGED <<entries, candidate, launches, told, coding>> BY DEF Claim
  <1>7. LaunchesOK(i)'
    BY <1>0, <1>4, <1>5, <1>6 DEF WorkerOK, LaunchesOK, AllPaid, Paid, Before
  <1>8. HeartbeatOK(i)'
    BY <1>0, <1>4, <1>5 DEF WorkerOK, HeartbeatOK, Ending
  <1>9. EndingOK(i)'
    BY <1>0, <1>2, <1>4, <1>5, <1>6 DEF WorkerOK, EndingOK, Working, Paid
  <1> QED BY <1>3, <1>4, <1>7, <1>8, <1>9, OneWorker DEF WorkerOK

LEMMA SleepKeeps ==
    ASSUME IInv, NEW i \in Workers, Sleep(i)
    PROVE  IInv'
  <1>0. RowsOfTheirTypes /\ WorkerOK(i) /\ w[i].pc = "sleep" BY DEF IInv, Sleep, At
  <1>1. AllPaid(i) /\ i \notin coding
    BY <1>0 DEF WorkerOK, LaunchesOK, EndingOK, AllPaid
  <1>2. PICK ended \in {"ok", "threw"} : End(i, ended) BY DEF Sleep
  <1>3. UNCHANGED <<run, entries, candidate, faults, launches, told, coding>> BY DEF Sleep
  <1>4. "sleep" \in Working BY DEF Working
  <1> QED BY <1>0, <1>1, <1>2, <1>3, <1>4, EndStep DEF RowsOfTheirTypes

\* The steps before Codex either end the work or leave it unlaunched.
LEMMA BeforeStep ==
    ASSUME IInv, NEW i \in Workers, w[i].pc \in Before \ {"claim"},
           UNCHANGED <<run, entries, candidate, launches, told, coding>>, faults' \in Nat,
           \/ \E ended \in {"failed", "threw", "refused"} : End(i, ended)
           \/ \E pc \in {"budget", "codex"} : Goto(i, pc)
           \/ \E left \in Nat : w' = [w EXCEPT ![i].pc = "checkout", ![i].left = left]
    PROVE  IInv'
  <1>0. RowsOfTheirTypes /\ WorkerOK(i) /\ w \in [Workers -> WorkerRow] /\ w[i] \in WorkerRow
    BY DEF IInv, RowsOfTheirTypes
  <1>1. w[i].pc \in Working /\ launches[i] = 0 /\ w[i].pass = "first"
    BY <1>0 DEF Before, Working, WorkerOK, LaunchesOK
  <1>2. ASSUME NEW ended \in {"failed", "threw", "refused"}, End(i, ended) PROVE IInv'
    BY <1>0, <1>1, <1>2, EndStep DEF AllPaid, RowsOfTheirTypes
  <1>3. ASSUME NEW q \in WorkerRow, w' = [w EXCEPT ![i] = q],
               q.pc \in {"budget", "codex", "checkout"}, q.ended = w[i].ended,
               q.pass = w[i].pass
        PROVE  IInv'
    <2>1. Rest /\ OthersStay(i) BY <1>0 DEF RowsOfTheirTypes, Rest, OthersStay
    <2>2. w'[i] = q BY <1>0, <1>3
    <2>3. LaunchesOK(i)'
      <3>1. launches'[i] = 0 /\ w'[i].pass = "first" BY <1>1, <1>3, <2>2
      <3>2. AllPaid(i)' BY <3>1 DEF AllPaid
      <3> QED BY <1>3, <2>2, <3>1, <3>2 DEF LaunchesOK
    <2>4. q.pc \in Working \ {"sleep"} BY <1>3 DEF Working
    <2> QED BY <1>1, <1>3, <2>1, <2>3, <2>4, WorkStep DEF Paid
  <1>4. ASSUME NEW pc \in {"budget", "codex"}, Goto(i, pc) PROVE IInv'
    <2> DEFINE q == [w[i] EXCEPT !.pc = pc]
    <2>1. w' = [w EXCEPT ![i] = q] BY <1>4 DEF Goto
    <2>2. q \in WorkerRow /\ q.pc = pc /\ q.ended = w[i].ended /\ q.pass = w[i].pass
      BY <1>0 DEF WorkerRow, PC
    <2> HIDE DEF q
    <2> QED BY <1>3, <2>1, <2>2
  <1>5. ASSUME NEW left \in Nat, w' = [w EXCEPT ![i].pc = "checkout", ![i].left = left]
        PROVE  IInv'
    <2> DEFINE q == [w[i] EXCEPT !.pc = "checkout", !.left = left]
    <2>1. w' = [w EXCEPT ![i] = q] BY <1>0, <1>5
    <2>2. /\ q \in WorkerRow /\ q.pc = "checkout" /\ q.ended = w[i].ended
          /\ q.pass = w[i].pass
      BY <1>0 DEF WorkerRow, PC
    <2> HIDE DEF q
    <2> QED BY <1>3, <2>1, <2>2
  <1> QED BY <1>2, <1>4, <1>5

LEMMA BeforeKeeps ==
    ASSUME IInv, NEW i \in Workers,
           \/ \E net \in Net, config \in {"complete", "no_api_key", "invalid"} :
                 GetTaskPacket(i, net, config)
           \/ \E net \in Net : GetBudget(i, net)
           \/ \E o \in {"ready", "failed", "threw"} : Checkout(i, o)
    PROVE  IInv'
  <1>0. faults \in Nat /\ HardLimit \in Nat BY ActuatorAssumption DEF IInv, RowsOfTheirTypes
  <1>1. ASSUME NEW net \in Net, NEW config \in {"complete", "no_api_key", "invalid"},
               GetTaskPacket(i, net, config)
        PROVE  IInv'
    <2>1. faults' \in Nat BY <1>1, FaultLeft DEF GetTaskPacket
    <2>2. \/ \E ended \in {"failed", "threw", "refused"} : End(i, ended)
          \/ Goto(i, "budget")
      BY <1>1 DEF GetTaskPacket
    <2> QED BY <1>1, <2>1, <2>2, BeforeStep DEF GetTaskPacket, At, Before
  <1>2. ASSUME NEW net \in Net, GetBudget(i, net) PROVE IInv'
    <2>1. faults' \in Nat BY <1>2, FaultLeft DEF GetBudget
    <2>2. \/ \E ended \in {"failed", "threw", "refused"} : End(i, ended)
          \/ \E left \in Nat : w' = [w EXCEPT ![i].pc = "checkout", ![i].left = left]
      BY <1>0, <1>2 DEF GetBudget
    <2> QED BY <1>2, <2>1, <2>2, BeforeStep DEF GetBudget, At, Before
  <1>3. ASSUME NEW o \in {"ready", "failed", "threw"}, Checkout(i, o) PROVE IInv'
    <2>1. \/ \E ended \in {"failed", "threw", "refused"} : End(i, ended)
          \/ Goto(i, "codex")
      BY <1>3 DEF Checkout
    <2> QED BY <1>0, <1>3, <2>1, BeforeStep DEF Checkout, At, Before
  <1> QED BY <1>1, <1>2, <1>3

LEMMA CodexKeeps ==
    ASSUME IInv, NEW i \in Workers, NEW usage \in Costs \cup {Missing}, NEW changed \in BOOLEAN,
           Codex(i, usage, changed)
    PROVE  IInv'
  <1> DEFINE cost == IF usage = Missing THEN Reservation ELSE usage
             q == [w[i] EXCEPT !.pc = "charge", !.cost = cost,
                               !.first = IF w[i].pass = "first" THEN cost ELSE w[i].first,
                               !.changed = IF w[i].aborted THEN w[i].changed ELSE changed]
  <1>0. /\ RowsOfTheirTypes /\ WorkerOK(i) /\ w \in [Workers -> WorkerRow] /\ w[i] \in WorkerRow
        /\ w[i].pc = "codex"
    BY DEF IInv, RowsOfTheirTypes, Codex, At
  <1>1. cost \in Nat BY ActuatorAssumption
  <1>2. w' = [w EXCEPT ![i] = q] BY <1>0 DEF Codex
  <1> HIDE DEF cost
  <1>3. q \in WorkerRow /\ q.pc = "charge" /\ q.ended = w[i].ended /\ q.pass = w[i].pass
    BY <1>0, <1>1 DEF WorkerRow, PC
  <1> HIDE DEF q
  <1>4. w'[i] = q /\ q.pass \in Passes BY <1>0, <1>2, <1>3 DEF WorkerRow
  <1>5. UNCHANGED <<run, entries, candidate, faults, told, coding>> BY DEF Codex
  <1>6. /\ launches[i] \in 0 .. 2
        /\ launches[i] <= IF q.pass = "first" THEN 0 ELSE 1
        /\ q.pass = "repair" => Paid(i, "first")
        /\ w[i].ended = "no"
    BY <1>0, <1>3, <1>4 DEF WorkerOK, LaunchesOK, EndingOK, RowsOfTheirTypes, Working, Passes
  <1>7. /\ launches' \in [Workers -> 0 .. 2]
        /\ launches'[i] <= launches[i] + 1
        /\ \A j \in Workers \ {i} : launches'[j] = launches[j]
    BY <1>0, <1>6 DEF Codex, RowsOfTheirTypes
  <1>8. Rest /\ OthersStay(i) BY <1>0, <1>5, <1>7 DEF RowsOfTheirTypes, Rest, OthersStay
  <1>9. LaunchesOK(i)'
    <2>1. q.pass = "first" => launches'[i] <= 1
      <3>1. launches'[i] \in 0 .. 2 BY <1>7
      <3> QED BY <1>6, <1>7, <3>1
    <2>2. q.ended = "no" BY <1>3, <1>6
    <2> QED BY <1>3, <1>4, <1>5, <1>6, <2>1, <2>2 DEF LaunchesOK, Paid, Before
  <1>10. q.pc \in Working \ {"sleep"} /\ w[i].pc \in Working BY <1>0, <1>3 DEF Working
  <1> QED BY <1>2, <1>3, <1>5, <1>8, <1>9, <1>10, WorkStep DEF Paid

LEMMA ChargeKeeps ==
    ASSUME IInv, NEW i \in Workers, NEW net \in Net, Charge(i, net)
    PROVE  IInv'
  <1> DEFINE q == w[i]
             id == <<i, q.pass>>
  <1>0. /\ RowsOfTheirTypes /\ WorkerOK(i) /\ w \in [Workers -> WorkerRow] /\ q \in WorkerRow
        /\ q.pc = "charge" /\ q.pass \in Passes /\ q.cost \in Nat
    BY DEF IInv, RowsOfTheirTypes, Charge, At, WorkerRow
  <1>1. faults' \in Nat BY FaultLeft DEF Charge
  <1>2. UNCHANGED <<run, candidate, launches, told, coding>> BY DEF Charge
  <1>3. /\ entries' \in [EntryIds -> Nat \cup {-1}]
        /\ \A e \in EntryIds : e # id => entries'[e] = entries[e]
        /\ \A e \in EntryIds : entries[e] # -1 => entries'[e] = entries[e]
        /\ net = "answered" => entries'[id] # -1
    <2>1. id \in EntryIds BY <1>0 DEF EntryIds
    <2>2. entries' = IF Delivered(net) /\ entries[id] = -1
                     THEN [entries EXCEPT ![id] = q.cost] ELSE entries
      BY DEF Charge, EntryId
    <2>3. q.cost # -1 BY <1>0
    <2>4. net = "answered" => Delivered(net) BY DEF Delivered
    <2> HIDE DEF id, q
    <2> QED BY <1>0, <2>1, <2>2, <2>3, <2>4 DEF RowsOfTheirTypes
  <1>4. Rest /\ OthersStay(i)
    <2>1. \A j \in Workers \ {i} : \A p \in Passes : <<j, p>> \in EntryIds /\ <<j, p>> # id
      BY DEF EntryIds
    <2> QED BY <1>0, <1>1, <1>2, <1>3, <2>1 DEF RowsOfTheirTypes, Rest, OthersStay
  <1>5. \A p \in Passes : Paid(i, p) => Paid(i, p)'
    <2>1. \A p \in Passes : <<i, p>> \in EntryIds BY DEF EntryIds
    <2> QED BY <1>3, <2>1 DEF Paid
  <1>6. /\ q.ended = "no" /\ launches[i] \in 0 .. 2
        /\ q.pass = "first" => launches[i] <= 1
        /\ q.pass = "repair" => Paid(i, "first")
    BY <1>0 DEF WorkerOK, LaunchesOK, EndingOK, RowsOfTheirTypes, Working
  <1>7. "first" \in Passes /\ q.pc \in Working BY <1>0 DEF Passes, Working
  <1>8. ASSUME NEW p \in WorkerRow, w' = [w EXCEPT ![i] = p], p.ended = "no",
               p.pass = q.pass, p.pc = "test", net = "answered"
        PROVE  IInv'
    <2>1. w'[i] = p BY <1>0, <1>8
    <2>2. Paid(i, p.pass)' BY <1>3, <1>8 DEF Paid
    <2>3. Paid(i, "first")'
      <3>1. CASE q.pass = "first" BY <1>8, <2>2, <3>1 DEF Paid
      <3>2. CASE q.pass = "repair" BY <1>5, <1>6, <1>7, <3>2 DEF Paid
      <3> QED BY <1>0, <3>1, <3>2 DEF Passes
    <2>4. LaunchesOK(i)'
      <3>1. w'[i].pass = p.pass /\ w'[i].pc = "test" /\ w'[i].ended = "no"
        BY <1>8, <2>1
      <3>2. w'[i].pass = "first" => launches'[i] <= 1 BY <1>2, <1>6, <1>8, <3>1
      <3>3. entries'[<<i, w'[i].pass>>] # -1 BY <2>2, <3>1 DEF Paid
      <3> QED BY <2>3, <3>1, <3>2, <3>3 DEF LaunchesOK, Paid, Before
    <2>5. p.pc \in Working \ {"sleep"} BY <1>8 DEF Working
    <2> QED BY <1>2, <1>4, <1>6, <1>7, <1>8, <2>3, <2>4, <2>5, WorkStep
  <1>9. ASSUME NEW p \in WorkerRow, w' = [w EXCEPT ![i] = p], p.pc = "stop", ~p.beating,
               p.ended \in {"threw", "refused"}
        PROVE  IInv'
    <2>1. w'[i] = p BY <1>0, <1>9
    <2>2. LaunchesOK(i)' BY <1>9, <2>1 DEF LaunchesOK, Before
    <2>3. HeartbeatOK(i)' BY <1>9, <2>1 DEF HeartbeatOK
    <2>4. told[i] = {} /\ run[i] # "failed" /\ run[i] # "succeeded"
      BY <1>0 DEF WorkerOK, EndingOK, Working
    <2>5. /\ w'[i].pc = "stop" /\ w'[i].ended # "ok" /\ told'[i] = {}
          /\ run'[i] # "failed" /\ run'[i] # "succeeded"
      BY <1>2, <1>9, <2>1, <2>4
    <2>6. EndingOK(i)' BY <2>5 DEF EndingOK, Working
    <2> QED BY <1>4, <1>9, <2>2, <2>3, <2>6, OneWorker DEF WorkerOK
  <1>10. CASE \E ended \in {"threw", "refused"} : End(i, ended)
    <2>1. PICK ended \in {"threw", "refused"} : End(i, ended) BY <1>10
    <2> DEFINE p == [q EXCEPT !.pc = "stop", !.ended = ended, !.beating = FALSE]
    <2>2. w' = [w EXCEPT ![i] = p] BY <1>0, <2>1 DEF End
    <2>3. p \in WorkerRow /\ p.pc = "stop" /\ ~p.beating /\ p.ended \in {"threw", "refused"}
      BY <1>0 DEF WorkerRow, PC
    <2> HIDE DEF p
    <2> QED BY <1>9, <2>2, <2>3
  <1>11. CASE Goto(i, "test") /\ net = "answered"
    <2> DEFINE p == [q EXCEPT !.pc = "test"]
    <2>2. w' = [w EXCEPT ![i] = p] BY <1>11 DEF Goto
    <2>3. p \in WorkerRow /\ p.pc = "test" /\ p.ended = q.ended /\ p.pass = q.pass
      BY <1>0 DEF WorkerRow, PC
    <2> HIDE DEF p, q
    <2> QED BY <1>6, <1>8, <1>11, <2>2, <2>3
  <1> QED BY <1>10, <1>11 DEF Charge

LEMMA TestKeeps ==
    ASSUME IInv, NEW i \in Workers, NEW result \in {"passed", "failed", "timed_out"},
           Test(i, result)
    PROVE  IInv'
  <1>0. /\ RowsOfTheirTypes /\ WorkerOK(i) /\ w \in [Workers -> WorkerRow] /\ w[i] \in WorkerRow
        /\ w[i].pc = "test" /\ w[i].pass \in Passes
    BY DEF IInv, RowsOfTheirTypes, Test, At, WorkerRow
  <1>1. UNCHANGED <<run, entries, candidate, faults, launches, told, coding>> BY DEF Test
  <1>2. /\ launches[i] \in 0 .. 2 /\ w[i].ended = "no"
        /\ Paid(i, "first") /\ Paid(i, w[i].pass)
        /\ w[i].pass = "first" => launches[i] <= 1
    BY <1>0 DEF WorkerOK, LaunchesOK, EndingOK, RowsOfTheirTypes, Working
  <1>3. AllPaid(i) BY <1>0, <1>2 DEF AllPaid, Passes
  <1>4. Rest /\ OthersStay(i) BY <1>0, <1>1 DEF RowsOfTheirTypes, Rest, OthersStay
  <1>5. CASE End(i, "failed")
    <2>1. w[i].pc \in Working BY <1>0 DEF Working
    <2> QED BY <1>0, <1>1, <1>3, <1>5, <2>1, EndStep DEF RowsOfTheirTypes
  <1>6. ASSUME NEW q \in WorkerRow, w' = [w EXCEPT ![i] = q], q.ended = "no",
               \/ q.pc = "candidate" /\ q.pass = w[i].pass
               \/ q.pc = "codex" /\ q.pass = "repair" /\ w[i].pass = "first"
        PROVE  IInv'
    <2>1. w'[i] = q BY <1>0, <1>6
    <2>2. LaunchesOK(i)'
      BY <1>1, <1>2, <1>6, <2>1 DEF LaunchesOK, Paid, Before
    <2>3. q.pc \in Working \ {"sleep"} /\ w[i].pc \in Working BY <1>0, <1>6 DEF Working
    <2> QED BY <1>1, <1>2, <1>4, <1>6, <2>2, <2>3, WorkStep DEF Paid
  <1>7. CASE Goto(i, "candidate")
    <2> DEFINE q == [w[i] EXCEPT !.pc = "candidate"]
    <2>1. w' = [w EXCEPT ![i] = q] BY <1>7 DEF Goto
    <2>2. q \in WorkerRow /\ q.pc = "candidate" /\ q.ended = w[i].ended /\ q.pass = w[i].pass
      BY <1>0 DEF WorkerRow, PC
    <2> HIDE DEF q
    <2> QED BY <1>2, <1>6, <2>1, <2>2
  <1>8. CASE RepairAllowed(i) /\ w' = [w EXCEPT ![i].pc = "codex", ![i].pass = "repair"]
    <2> DEFINE q == [w[i] EXCEPT !.pc = "codex", !.pass = "repair"]
    <2>1. w' = [w EXCEPT ![i] = q] BY <1>0, <1>8
    <2>2. q \in WorkerRow /\ q.pc = "codex" /\ q.ended = w[i].ended /\ q.pass = "repair"
      BY <1>0 DEF WorkerRow, PC, Passes
    <2> HIDE DEF q
    <2> QED BY <1>2, <1>6, <1>8, <2>1, <2>2 DEF RepairAllowed
  <1> QED BY <1>5, <1>7, <1>8 DEF Test, Tested

LEMMA StoreCandidateKeeps ==
    ASSUME IInv, NEW i \in Workers, NEW net \in Net, StoreCandidate(i, net)
    PROVE  IInv'
  <1>0. /\ RowsOfTheirTypes /\ WorkerOK(i) /\ w[i] \in WorkerRow /\ w[i].pc = "candidate"
        /\ w[i].pass \in Passes
    BY DEF IInv, RowsOfTheirTypes, StoreCandidate, At, WorkerRow
  <1>1. faults' \in Nat BY FaultLeft DEF StoreCandidate
  <1>2. /\ candidate \subseteq candidate' /\ candidate' \subseteq Workers
        /\ net = "answered" => i \in candidate'
    BY <1>0 DEF StoreCandidate, Delivered, RowsOfTheirTypes
  <1>3. Paid(i, "first") /\ AllPaid(i)
    <2>1. /\ launches[i] \in 0 .. 2 /\ Paid(i, "first") /\ Paid(i, w[i].pass)
          /\ w[i].pass = "first" => launches[i] <= 1
      BY <1>0 DEF WorkerOK, LaunchesOK, RowsOfTheirTypes
    <2> QED BY <1>0, <2>1 DEF AllPaid, Passes
  <1>4. PICK ended \in {"ok", "threw"} : End(i, ended) /\ (ended = "ok" => net = "answered")
    BY DEF StoreCandidate
  <1>5. w[i].pc \in Working BY <1>0 DEF Working
  <1>6. UNCHANGED <<run, entries, launches, told, coding>> BY DEF StoreCandidate
  <1> QED BY <1>1, <1>2, <1>3, <1>4, <1>5, <1>6, EndStep

-----------------------------------------------------------------------------
(***************************************************************************)
(* After the work.                                                         *)
(***************************************************************************)
LEMMA StopKeeps ==
    ASSUME IInv, NEW i \in Workers, StopHeartbeat(i)
    PROVE  IInv'
  <1>0. /\ RowsOfTheirTypes /\ WorkerOK(i) /\ w \in [Workers -> WorkerRow] /\ w[i] \in WorkerRow
        /\ w[i].pc = "stop" /\ ~w[i].flying
    BY DEF IInv, RowsOfTheirTypes, StopHeartbeat, At
  <1>1. UNCHANGED <<run, entries, candidate, faults, launches, told, coding>>
    BY DEF StopHeartbeat
  <1>2. PICK q \in WorkerRow :
           /\ w' = [w EXCEPT ![i] = q]
           /\ q.ended = w[i].ended /\ q.beating = w[i].beating
           /\ q.flying = w[i].flying /\ q.lost = w[i].lost
           /\ \/ q.pc = "exit"
              \/ q.pc = "succeed" /\ ~q.lost /\ q.ended = "ok"
              \/ q.pc = "fail" /\ ~q.lost
    <2>1. CASE w[i].lost \/ w[i].ended = "refused"
      <3> DEFINE q == [w[i] EXCEPT !.pc = "exit", !.reason = "ownership_lost"]
      <3>1. w' = [w EXCEPT ![i] = q] BY <1>0, <2>1 DEF StopHeartbeat, Exit
      <3>2. /\ q \in WorkerRow /\ q.ended = w[i].ended /\ q.beating = w[i].beating
            /\ q.flying = w[i].flying /\ q.lost = w[i].lost /\ q.pc = "exit"
        BY <1>0 DEF WorkerRow, PC
      <3> QED BY <3>1, <3>2
    <2>2. CASE ~(w[i].lost \/ w[i].ended = "refused")
      <3> DEFINE pc == IF w[i].ended = "ok" THEN "succeed" ELSE "fail"
                 q == [w[i] EXCEPT !.pc = pc]
      <3>1. w' = [w EXCEPT ![i] = q] BY <2>2 DEF StopHeartbeat, Goto
      <3>2. pc \in PC BY DEF PC
      <3>3. /\ q \in WorkerRow /\ q.ended = w[i].ended /\ q.beating = w[i].beating
            /\ q.flying = w[i].flying /\ q.lost = w[i].lost /\ q.pc = pc
        BY <1>0, <3>2 DEF WorkerRow
      <3> QED BY <2>2, <3>1, <3>3
    <2> QED BY <2>1, <2>2
  <1>3. w'[i] = q BY <1>0, <1>2
  <1>4. LaunchesOK(i)'
    BY <1>0, <1>1, <1>2, <1>3 DEF WorkerOK, LaunchesOK, AllPaid, Paid, Before
  <1>5. HeartbeatOK(i)' BY <1>0, <1>2, <1>3 DEF WorkerOK, HeartbeatOK, Ending
  <1>6. EndingOK(i)'
    BY <1>0, <1>1, <1>2, <1>3 DEF WorkerOK, EndingOK, Working, Paid
  <1> QED BY <1>0, <1>1, <1>2, <1>4, <1>5, <1>6, WorkerOnly DEF WorkerOK, RowsOfTheirTypes


\* A terminal report is told, the run may take its status, and the worker exits.
LEMMA ReportKeeps ==
    ASSUME IInv, NEW i \in Workers, NEW net \in Net, Succeed(i, net) \/ Fail(i, net)
    PROVE  IInv'
  <1>0. /\ RowsOfTheirTypes /\ WorkerOK(i) /\ w \in [Workers -> WorkerRow] /\ w[i] \in WorkerRow
        /\ w[i].pc \in {"succeed", "fail"}
    BY DEF IInv, RowsOfTheirTypes, Succeed, Fail, At
  <1>1. faults' \in Nat BY FaultLeft DEF Succeed, Fail, Report
  <1>2. UNCHANGED <<entries, candidate, launches, coding>> BY DEF Succeed, Fail, Report
  <1>3. PICK reason \in {"succeeded", "failed", "ownership_lost"} : Exit(i, reason)
    BY DEF Succeed, Fail, Report
  <1> DEFINE q == [w[i] EXCEPT !.pc = "exit", !.reason = reason]
  <1>4. w' = [w EXCEPT ![i] = q] BY <1>0, <1>3 DEF Exit
  <1>5. /\ q \in WorkerRow /\ q.pc = "exit" /\ q.ended = w[i].ended
        /\ q.beating = w[i].beating
    BY <1>0 DEF WorkerRow, PC
  <1> HIDE DEF q
  <1>6. w'[i] = q BY <1>0, <1>4
  <1>7. PICK status \in {"succeeded", "failed"} :
           /\ status = IF w[i].pc = "succeed" THEN "succeeded" ELSE "failed"
           /\ told' = [told EXCEPT ![i] = @ \cup {IF status = "succeeded" THEN "succeed" ELSE "fail"}]
           /\ run' \in {run, [run EXCEPT ![i] = status], [run EXCEPT ![i] = "stranded"]}
    BY DEF Succeed, Fail, Report, Reported, At
  <1>8. Rest /\ OthersStay(i)
    BY <1>0, <1>1, <1>2, <1>7 DEF RowsOfTheirTypes, RunStatus, Ended, Rest, OthersStay
  <1>9. LaunchesOK(i)'
    BY <1>0, <1>2, <1>5, <1>6 DEF WorkerOK, LaunchesOK, AllPaid, Paid, Before
  <1>10. HeartbeatOK(i)' BY <1>0, <1>5, <1>6 DEF WorkerOK, HeartbeatOK, Ending
  <1>11. EndingOK(i)'
    <2>1. /\ told[i] = {} /\ run[i] # "failed"
          /\ w[i].pc = "succeed" => w[i].ended = "ok"
          /\ run[i] = "succeeded" => w[i].ended = "ok"
          /\ w[i].ended = "ok" /\ i \in coding => i \in candidate /\ Paid(i, "first")
      BY <1>0 DEF WorkerOK, EndingOK
    <2>2. run'[i] = "failed" => status = "failed"
      BY <1>0, <1>7, <2>1 DEF RowsOfTheirTypes
    <2>3. "succeed" \in told'[i] => status = "succeeded" BY <1>0, <1>7, <2>1 DEF RowsOfTheirTypes
    <2>4. run'[i] = "succeeded" => q.ended = "ok"
      BY <1>0, <1>5, <1>7, <2>1 DEF RowsOfTheirTypes
    <2>5. "succeed" \in told'[i] => run'[i] # "failed" BY <2>2, <2>3
    <2>6. q.ended = "ok" /\ i \in coding' => i \in candidate' /\ Paid(i, "first")'
      BY <1>2, <1>5, <2>1 DEF Paid
    <2> QED BY <1>5, <1>6, <2>4, <2>5, <2>6 DEF EndingOK, Working
  <1> QED BY <1>4, <1>5, <1>8, <1>9, <1>10, <1>11, OneWorker DEF WorkerOK
-----------------------------------------------------------------------------
(***************************************************************************)
(* Heartbeats, signals, deaths and leases: the script stays where it is,   *)
(* or is gone.                                                             *)
(***************************************************************************)
LEMMA AsideStep ==
    ASSUME IInv, NEW i \in Workers, NEW q \in WorkerRow, w' = [w EXCEPT ![i] = q],
           UNCHANGED <<run, entries, candidate, launches, told, coding>>, faults' \in Nat,
           q.pc = w[i].pc \/ (q.pc = "exit" /\ ~q.beating), q.ended = w[i].ended, q.pass = w[i].pass,
           q.beating => w[i].beating, q.flying => w[i].flying \/ w[i].beating,
           q.lost => w[i].lost \/ w[i].flying
    PROVE  IInv'
  <1>0. RowsOfTheirTypes /\ WorkerOK(i) /\ w'[i] = q BY DEF IInv, RowsOfTheirTypes
  <1>1. LaunchesOK(i)'
    BY <1>0 DEF WorkerOK, LaunchesOK, AllPaid, Paid, Before
  <1>2. HeartbeatOK(i)'
    <2>1. /\ w[i].pc = "claim" => ~w[i].flying /\ ~w[i].lost
          /\ w[i].pc \in Ending \cup {"claim"} => ~w[i].beating
          /\ w[i].pc \in {"succeed", "fail"} => ~w[i].flying /\ ~w[i].lost
          /\ w[i].pc = "claim" => ~w[i].beating
          /\ w[i].pc \in {"succeed", "fail"} => ~w[i].beating
      BY <1>0 DEF WorkerOK, HeartbeatOK, Ending
    <2>2. q.pc \in Ending \cup {"claim"} => ~q.beating
      BY <2>1
    <2> QED BY <1>0, <2>1, <2>2 DEF HeartbeatOK, Ending
  <1>3. EndingOK(i)' BY <1>0 DEF WorkerOK, EndingOK, Working, Paid
  <1> QED BY <1>1, <1>2, <1>3, WorkerOnly DEF WorkerOK

LEMMA TickKeeps ==
    ASSUME IInv, NEW i \in Workers, Tick(i)
    PROVE  IInv'
  <1> DEFINE q == [w[i] EXCEPT !.flying = TRUE]
  <1>0. w[i] \in WorkerRow /\ faults \in Nat BY DEF IInv, RowsOfTheirTypes
  <1>1. w' = [w EXCEPT ![i] = q] BY DEF Tick
  <1>2. /\ q \in WorkerRow /\ q.pc = w[i].pc /\ q.ended = w[i].ended /\ q.pass = w[i].pass
        /\ q.beating = w[i].beating /\ q.lost = w[i].lost /\ w[i].beating
    BY <1>0 DEF WorkerRow, Tick
  <1> HIDE DEF q
  <1> QED BY <1>0, <1>1, <1>2, AsideStep DEF Tick

LEMMA BeatKeeps ==
    ASSUME IInv, NEW i \in Workers, NEW net \in Net, Beat(i, net)
    PROVE  IInv'
  <1>0. /\ w \in [Workers -> WorkerRow] /\ w[i] \in WorkerRow /\ w[i].flying
        /\ w[i].misses \in 0 .. FailureLimit - 1 /\ FailureLimit \in Nat \ {0}
    BY ActuatorAssumption DEF IInv, RowsOfTheirTypes, Beat, WorkerRow
  <1>1. faults' \in Nat BY FaultLeft DEF Beat
  <1>2. ASSUME NEW n \in 0 .. FailureLimit - 1,
               w' = [w EXCEPT ![i].flying = FALSE, ![i].misses = n]
        PROVE  IInv'
    <2> DEFINE q == [w[i] EXCEPT !.flying = FALSE, !.misses = n]
    <2>1. w' = [w EXCEPT ![i] = q] BY <1>0, <1>2
    <2>2. /\ q \in WorkerRow /\ q.pc = w[i].pc /\ q.ended = w[i].ended
          /\ q.pass = w[i].pass /\ q.beating = w[i].beating /\ q.lost = w[i].lost
          /\ ~q.flying
      BY <1>0 DEF WorkerRow
    <2> HIDE DEF q
    <2> QED BY <1>1, <2>1, <2>2, AsideStep DEF Beat
  <1>3. CASE OwnershipLost(i)
    <2> DEFINE q == [w[i] EXCEPT !.flying = FALSE, !.beating = FALSE, !.lost = TRUE,
                                 !.aborted = TRUE]
    <2>1. w' = [w EXCEPT ![i] = q] BY <1>0, <1>3 DEF OwnershipLost
    <2>2. /\ q \in WorkerRow /\ q.pc = w[i].pc /\ q.ended = w[i].ended
          /\ q.pass = w[i].pass /\ ~q.beating /\ ~q.flying
      BY <1>0 DEF WorkerRow
    <2> HIDE DEF q
    <2> QED BY <1>0, <1>1, <2>1, <2>2, AsideStep DEF Beat
  <1>4. \/ \E n \in 0 .. FailureLimit - 1 :
              w' = [w EXCEPT ![i].flying = FALSE, ![i].misses = n]
        \/ OwnershipLost(i)
    <2>1. CASE net = "answered" /\ Owned(i)
      <3>1. 0 \in 0 .. FailureLimit - 1 BY <1>0
      <3>2. w' = [w EXCEPT ![i].flying = FALSE, ![i].misses = 0] BY <2>1 DEF Beat
      <3> QED BY <3>1, <3>2
    <2>2. CASE net # "answered" /\ w[i].misses + 1 < FailureLimit
      <3>1. w[i].misses + 1 \in 0 .. FailureLimit - 1 BY <1>0, <2>2
      <3>2. w' = [w EXCEPT ![i].flying = FALSE, ![i].misses = w[i].misses + 1]
        BY <1>0, <2>2 DEF Beat
      <3> QED BY <3>1, <3>2
    <2>3. CASE ~(net = "answered" /\ Owned(i))
               /\ ~(net # "answered" /\ w[i].misses + 1 < FailureLimit)
      BY <2>3 DEF Beat
    <2> QED BY <2>1, <2>2, <2>3
  <1> QED BY <1>2, <1>3, <1>4

LEMMA SignalKeeps ==
    ASSUME IInv, NEW i \in Workers, Signal(i) \/ Die(i)
    PROVE  IInv'
  <1>0. w \in [Workers -> WorkerRow] /\ w[i] \in WorkerRow BY DEF IInv, RowsOfTheirTypes
  <1>1. faults' \in Nat BY SignalLeft DEF Signal, Die
  <1>2. CASE Signal(i)
    <2> DEFINE q == [w[i] EXCEPT !.aborted = TRUE]
    <2>1. w' = [w EXCEPT ![i] = q] BY <1>2 DEF Signal
    <2>2. /\ q \in WorkerRow /\ q.pc = w[i].pc /\ q.ended = w[i].ended
          /\ q.pass = w[i].pass /\ q.beating = w[i].beating /\ q.flying = w[i].flying
          /\ q.lost = w[i].lost
      BY <1>0 DEF WorkerRow
    <2> HIDE DEF q
    <2> QED BY <1>1, <1>2, <2>1, <2>2, AsideStep DEF Signal
  <1>3. CASE Die(i)
    <2> DEFINE q == [w[i] EXCEPT !.pc = "exit", !.reason = "died", !.beating = FALSE,
                                 !.flying = FALSE]
    <2>1. w' = [w EXCEPT ![i] = q] BY <1>0, <1>3 DEF Die
    <2>2. /\ q \in WorkerRow /\ q.pc = "exit" /\ q.ended = w[i].ended
          /\ q.pass = w[i].pass /\ ~q.beating /\ ~q.flying /\ q.lost = w[i].lost
      BY <1>0 DEF WorkerRow, PC
    <2> HIDE DEF q
    <2> QED BY <1>1, <1>3, <2>1, <2>2, AsideStep DEF Die
  <1> QED BY <1>2, <1>3

LEMMA TimeoutKeeps ==
    ASSUME IInv, NEW i \in Workers, Expire(i) \/ LeaseRunsOut(i) \/ Recover(i)
    PROVE  IInv'
  <1>0. /\ RowsOfTheirTypes /\ w \in [Workers -> WorkerRow] /\ w[i] \in WorkerRow /\ WorkerOK(i)
        /\ UNCHANGED <<entries, candidate, w, launches, told, coding>>
    BY DEF IInv, RowsOfTheirTypes, Expire, LeaseRunsOut, Recover
  <1>1. faults' \in Nat BY <1>0, SignalLeft DEF Expire, LeaseRunsOut, Recover, RowsOfTheirTypes
  <1>2. PICK status \in {"expired", "timed_out"} : run' = [run EXCEPT ![i] = status]
    BY DEF Expire, LeaseRunsOut, Recover
  <1>3. Rest /\ OthersStay(i)
    BY <1>0, <1>1, <1>2 DEF RowsOfTheirTypes, RunStatus, Ended, Rest, OthersStay
  <1>4. w' = [w EXCEPT ![i] = w[i]] BY <1>0
  <1>5. LaunchesOK(i)' BY <1>0 DEF WorkerOK, LaunchesOK, AllPaid, Paid
  <1>6. HeartbeatOK(i)' BY <1>0 DEF WorkerOK, HeartbeatOK
  <1>7. EndingOK(i)'
    <2>1. run'[i] \in {"expired", "timed_out"} BY <1>0, <1>2 DEF RowsOfTheirTypes
    <2> QED BY <1>0, <2>1 DEF WorkerOK, EndingOK, Paid
  <1> QED BY <1>0, <1>3, <1>4, <1>5, <1>6, <1>7, OneWorker DEF WorkerOK
-----------------------------------------------------------------------------
(***************************************************************************)
(* The invariant.                                                          *)
(***************************************************************************)
LEMMA InvInit == Init => IInv
  <1> SUFFICES ASSUME Init PROVE IInv OBVIOUS
  <1>1. PICK s \in Scenarios : coding = s.coding /\ faults = s.faults BY DEF Init
  <1>2. coding \subseteq Workers /\ faults \in Nat BY <1>1, ActuatorAssumption
  <1> DEFINE q == [pc |-> "claim", beating |-> FALSE, flying |-> FALSE, misses |-> 0,
                   lost |-> FALSE, aborted |-> FALSE, left |-> 0, pass |-> "first",
                   cost |-> 0, first |-> 0, changed |-> FALSE, ended |-> "no",
                   reason |-> "none"]
  <1>3. w = [i \in Workers |-> q] BY DEF Init
  <1>4. 0 \in 0 .. FailureLimit - 1 BY ActuatorAssumption
  <1>5. /\ q \in WorkerRow /\ q.pc = "claim" /\ ~q.beating /\ ~q.flying /\ ~q.lost
        /\ q.pass = "first" /\ q.ended = "no"
    BY <1>4 DEF WorkerRow, PC, Passes
  <1> HIDE DEF q
  <1>6. RowsOfTheirTypes
    <2>1. run \in [Workers -> RunStatus] BY DEF Init, RunStatus, Ended
    <2>2. entries \in [EntryIds -> Nat \cup {-1}] BY DEF Init
    <2>3. w \in [Workers -> WorkerRow] BY <1>3, <1>5
    <2>4. candidate = {} /\ launches = [i \in Workers |-> 0] /\ told = [i \in Workers |-> {}]
      BY DEF Init
    <2> QED BY <1>2, <2>1, <2>2, <2>3, <2>4 DEF RowsOfTheirTypes
  <1>7. ASSUME NEW i \in Workers PROVE WorkerOK(i)
    <2>1. w[i] = q /\ launches[i] = 0 /\ told[i] = {} /\ run[i] = "queued"
      BY <1>3 DEF Init
    <2>2. LaunchesOK(i) BY <1>5, <2>1 DEF LaunchesOK
    <2>3. HeartbeatOK(i) BY <1>5, <2>1 DEF HeartbeatOK
    <2>4. EndingOK(i) BY <1>5, <2>1 DEF EndingOK
    <2> QED BY <2>2, <2>3, <2>4 DEF WorkerOK
  <1> QED BY <1>6, <1>7 DEF IInv

LEMMA InvStep == IInv /\ [Next]_vars => IInv'
  <1> SUFFICES ASSUME IInv, [Next]_vars PROVE IInv' OBVIOUS
  <1>1. CASE UNCHANGED vars
    BY <1>1 DEF vars, IInv, RowsOfTheirTypes, WorkerOK, LaunchesOK, HeartbeatOK, EndingOK, AllPaid, Paid
  <1>2. ASSUME NEW i \in Workers, Work(i) PROVE IInv'
    BY <1>2, SleepKeeps, StopKeeps, ClaimKeeps, BeforeKeeps, ChargeKeeps,
       StoreCandidateKeeps, ReportKeeps, CodexKeeps, TestKeeps DEF Work
  <1>3. ASSUME NEW i \in Workers, Heartbeat(i) PROVE IInv'
    BY <1>3, BeatKeeps DEF Heartbeat
  <1> QED BY <1>1, <1>2, <1>3, TickKeeps, SignalKeeps, TimeoutKeeps DEF Next

THEOREM Invariant == Spec => []IInv
  BY InvInit, InvStep, PTL DEF Spec
-----------------------------------------------------------------------------
(***************************************************************************)
(* What is spent.  A worker on its way through its passes may still spend  *)
(* so much; what is spent already and what may still be grow together only *)
(* when a worker looks at the budget, and then it sees what is spent.      *)
(***************************************************************************)
SpendingAt == {"checkout", "codex", "charge", "test"}

RepairCost(q) == IF q.left - q.first >= Reservation THEN PassCost ELSE 0

Potential(q) ==
    CASE q.pc \in {"checkout", "codex"} /\ q.pass = "first" ->
              IF 2 * PassCost < q.left - Reservation + PassCost
                THEN 2 * PassCost ELSE q.left - Reservation + PassCost
      [] q.pc = "codex" /\ q.pass = "repair" -> PassCost
      [] q.pc = "charge" /\ q.pass = "first" -> q.cost + RepairCost(q)
      [] q.pc = "charge" /\ q.pass = "repair" -> q.cost
      [] q.pc = "test" /\ q.pass = "first" -> RepairCost(q)
      [] OTHER -> 0

Potentials == Total([i \in Workers |-> Potential(w[i])])

\* What a worker has seen and what its pass has cost.
MoneyOK(q) ==
    /\ q.pc \in SpendingAt => q.left >= Reservation /\ q.left <= HardLimit
    /\ q.pc \in Before => q.pass = "first"
    /\ q.pc = "charge" => q.cost <= PassCost
    /\ q.pc = "charge" /\ q.pass = "first" => q.cost = q.first

CrowdOK ==
    /\ crowd \in Nat
    /\ Cardinality(Spending) <= crowd
    /\ crowd = 0 => Spent = 0
    /\ crowd # 0 =>
          /\ Reservation <= HardLimit
          /\ Spent + Potentials
                <= HardLimit - Reservation + PassCost + (crowd - 1) * WorkerCost

SpendInv == CrowdOK /\ \A i \in Workers : MoneyOK(w[i])
-----------------------------------------------------------------------------
\* What a pass and what a worker may cost.
LEMMA PassCosts ==
    /\ PassCost \in Nat /\ Reservation \in Nat \ {0} /\ HardLimit \in Nat
    /\ Reservation <= PassCost
    /\ \A cost \in Costs : cost \in Nat /\ cost <= PassCost
  <1>1. PICK most \in Costs \cup {Reservation} :
            \A cost \in Costs \cup {Reservation} : most >= cost
    BY CostsAssumption
  <1>2. /\ PassCost \in Costs \cup {Reservation}
        /\ \A cost \in Costs \cup {Reservation} : PassCost >= cost
    BY <1>1 DEF PassCost, Max
  <1>3. Costs \subseteq Nat /\ Reservation \in Nat \ {0} /\ HardLimit \in Nat
    BY ActuatorAssumption
  <1>. QED  BY <1>2, <1>3

LEMMA WorkerCosts ==
    ASSUME Reservation <= HardLimit
    PROVE  /\ WorkerCost \in Nat /\ PassCost <= WorkerCost
           /\ WorkerCost = IF 2 * PassCost < HardLimit - Reservation + PassCost
                             THEN 2 * PassCost ELSE HardLimit - Reservation + PassCost
  <1>. DEFINE a == 2 * PassCost
              b == HardLimit - Reservation + PassCost
  <1>1. a \in Nat /\ b \in Nat /\ PassCost \in Nat /\ PassCost <= a /\ PassCost <= b
    BY PassCosts
  <1>. HIDE DEF a, b
  <1>2. Min({a, b}) = IF a < b THEN a ELSE b
    <2>1. PICK x \in {a, b} : \A y \in {a, b} : x <= y
      BY <1>1
    <2>2. Min({a, b}) \in {a, b} /\ \A y \in {a, b} : Min({a, b}) <= y
      BY <2>1 DEF Min
    <2>. QED  BY <1>1, <2>2
  <1>3. WorkerCost = Min({a, b})
    BY DEF WorkerCost, a, b
  <1>. QED  BY <1>1, <1>2, <1>3 DEF a, b

\* No worker may spend more than one worker costs, and who is not spending spends nothing.
LEMMA PotentialBound ==
    ASSUME NEW q \in WorkerRow, MoneyOK(q)
    PROVE  /\ Potential(q) \in Nat
           /\ Reservation <= HardLimit => Potential(q) <= WorkerCost
           /\ q.pc \notin SpendingAt => Potential(q) = 0
  <1>1. q.left \in Nat /\ q.first \in Nat /\ q.cost \in Nat /\ q.pass \in Passes
    BY DEF WorkerRow
  <1>2. /\ PassCost \in Nat /\ Reservation \in Nat /\ HardLimit \in Nat
        /\ Reservation <= PassCost
    BY PassCosts
  <1>3. CASE q.pc \notin SpendingAt
    <2>1. Potential(q) = 0
      BY <1>3 DEF Potential, SpendingAt
    <2>. QED  BY <1>3, <2>1, WorkerCosts
  <1>4. CASE q.pc \in SpendingAt
    <2>1. q.left >= Reservation /\ q.left <= HardLimit /\ Reservation <= HardLimit
      BY <1>1, <1>2, <1>4 DEF MoneyOK
    <2>2. /\ WorkerCost \in Nat /\ PassCost <= WorkerCost
          /\ WorkerCost = IF 2 * PassCost < HardLimit - Reservation + PassCost
                            THEN 2 * PassCost ELSE HardLimit - Reservation + PassCost
      BY <2>1, WorkerCosts
    <2>3. CASE q.pc \in {"checkout", "codex"} /\ q.pass = "first"
      <3>1. Potential(q) = IF 2 * PassCost < q.left - Reservation + PassCost
                             THEN 2 * PassCost ELSE q.left - Reservation + PassCost
        BY <2>3 DEF Potential
      <3>. QED  BY <1>1, <1>2, <1>4, <2>1, <2>2, <3>1
    <2>4. CASE q.pc = "codex" /\ q.pass = "repair"
      BY <1>2, <1>4, <2>2, <2>4 DEF Potential
    <2>5. CASE q.pc = "charge" /\ q.pass = "first"
      <3>1. Potential(q) = q.cost + RepairCost(q)
        BY <2>5 DEF Potential
      <3>2. q.cost <= PassCost /\ q.cost = q.first
        BY <2>5 DEF MoneyOK
      <3>. QED  BY <1>1, <1>2, <1>4, <2>1, <2>2, <3>1, <3>2 DEF RepairCost
    <2>6. CASE q.pc = "charge" /\ q.pass = "repair"
      BY <1>1, <1>2, <1>4, <2>2, <2>6 DEF Potential, MoneyOK
    <2>7. CASE q.pc = "test" /\ q.pass = "first"
      BY <1>2, <1>4, <2>2, <2>7 DEF Potential, RepairCost
    <2>8. CASE q.pc = "test" /\ q.pass = "repair"
      BY <1>2, <1>4, <2>2, <2>8 DEF Potential
    <2>9. q.pc = "checkout" => q.pass = "first"
      BY DEF MoneyOK, Before
    <2>10. q.pass = "first" \/ q.pass = "repair"
      BY <1>1 DEF Passes
    <2>11. q.pc \in {"checkout", "codex"} \/ q.pc = "charge" \/ q.pc = "test"
      BY <1>4 DEF SpendingAt
    <2>. QED  BY <1>4, <2>3, <2>4, <2>5, <2>6, <2>7, <2>8, <2>9, <2>10, <2>11
  <1>. QED  BY <1>3, <1>4

\* The sums are sums.
LEMMA SpendTypes ==
    ASSUME IInv, SpendInv
    PROVE  /\ IsFiniteSet(EntryIds) /\ entries \in [EntryIds -> Int] /\ Spent \in Nat
           /\ [j \in Workers |-> Potential(w[j])] \in [Workers -> Int] /\ Potentials \in Nat
           /\ IsFiniteSet(Spending) /\ Cardinality(Spending) \in Nat
           /\ \A j \in Workers : w[j] \in WorkerRow /\ MoneyOK(w[j])
  <1>1. IsFiniteSet(EntryIds)
    <2>1. IsFiniteSet({"first"}) /\ IsFiniteSet({"repair"})
      BY FS_Singleton
    <2>2. IsFiniteSet({"first"} \cup {"repair"})
      BY <2>1, FS_Union
    <2>3. Passes = {"first"} \cup {"repair"}
      BY DEF Passes
    <2>. QED  BY <2>2, <2>3, WorkersAssumption, FS_Product DEF EntryIds
  <1>2. entries \in [EntryIds -> Int]
    BY DEF IInv, RowsOfTheirTypes
  <1>3. \A j \in Workers : w[j] \in WorkerRow /\ MoneyOK(w[j])
    BY DEF IInv, RowsOfTheirTypes, SpendInv
  <1>4. [j \in Workers |-> Potential(w[j])] \in [Workers -> Int]
    BY <1>3, PotentialBound
  <1>5. Spending \subseteq Workers
    BY DEF Spending
  <1>6. IsFiniteSet(Spending) /\ Cardinality(Spending) \in Nat
    BY <1>5, WorkersAssumption, FS_Subset, FS_CardinalityType
  <1>. QED  BY <1>1, <1>2, <1>3, <1>4, <1>6, WorkersAssumption, TotalType DEF Spent, Potentials

\* What one worker may still spend is all that its steps change of the sum.
LEMMA PotentialMoves ==
    ASSUME IInv, SpendInv, NEW i \in Workers, NEW q \in WorkerRow, MoneyOK(q),
           w' = [w EXCEPT ![i] = q]
    PROVE  Potentials' = Potentials - Potential(w[i]) + Potential(q) /\ Potentials' \in Nat
  <1>. DEFINE f == [j \in Workers |-> Potential(w[j])]
              g == [j \in Workers |-> Potential(w'[j])]
  <1>1. /\ w \in [Workers -> WorkerRow] /\ f \in [Workers -> Int]
        /\ \A j \in Workers : Potential(w[j]) \in Nat
    BY SpendTypes, PotentialBound DEF IInv, RowsOfTheirTypes
  <1>2. w'[i] = q /\ \A j \in Workers \ {i} : w'[j] = w[j]
    BY <1>1
  <1>3. Potential(q) \in Nat
    BY PotentialBound
  <1>4. g \in [Workers -> Int] /\ f[i] = Potential(w[i]) /\ g[i] = Potential(q)
        /\ \A j \in Workers \ {i} : g[j] = f[j]
    BY <1>1, <1>2, <1>3
  <1>5. Potentials = Total(f) /\ Potentials' = Total(g)
    BY DEF Potentials
  <1>. HIDE DEF f, g
  <1>6. Total(g) = Total(f) - Positive(f[i]) + Positive(g[i])
    BY <1>1, <1>4, WorkersAssumption, TotalUpdate
  <1>7. Total(f) \in Nat /\ Total(g) \in Nat
    BY <1>1, <1>4, WorkersAssumption, TotalType
  <1>. QED  BY <1>1, <1>3, <1>4, <1>5, <1>6, <1>7 DEF Positive

\* A step that does not look at the budget: what is spent by it is no more than what its
\* worker could still spend.
LEMMA SpendStep ==
    ASSUME IInv, SpendInv, NEW i \in Workers, NEW q \in WorkerRow, MoneyOK(q),
           w' = [w EXCEPT ![i] = q], UNCHANGED crowd,
           q.pc \in SpendingAt => w[i].pc \in SpendingAt,
           Spent' \in Nat, Spent' + Potential(q) <= Spent + Potential(w[i])
    PROVE  SpendInv'
  <1>1. w \in [Workers -> WorkerRow] /\ MoneyOK(w[i])
    BY SpendTypes DEF IInv, RowsOfTheirTypes
  <1>2. w'[i] = q /\ \A j \in Workers \ {i} : w'[j] = w[j]
    BY <1>1
  <1>3. \A j \in Workers : MoneyOK(w'[j])
    BY <1>2, SpendTypes
  <1>4. /\ IsFiniteSet(Spending) /\ Cardinality(Spending) \in Nat /\ Spent \in Nat
        /\ Potentials \in Nat /\ crowd \in Nat /\ Cardinality(Spending) <= crowd
    BY SpendTypes DEF SpendInv, CrowdOK
  <1>5. Spending' \subseteq Spending
    BY <1>2 DEF Spending, SpendingAt
  <1>6. Cardinality(Spending') \in Nat /\ Cardinality(Spending') <= Cardinality(Spending)
    BY <1>4, <1>5, FS_Subset, FS_CardinalityType
  <1>7. Potential(q) \in Nat /\ Potential(w[i]) \in Nat
    BY <1>1, PotentialBound
  <1>8. Potentials' = Potentials - Potential(w[i]) + Potential(q) /\ Potentials' \in Nat
    BY PotentialMoves
  <1>9. crowd = 0 => Spent' = 0
    <2>. SUFFICES ASSUME crowd = 0  PROVE Spent' = 0
      OBVIOUS
    <2>1. Spending = {}
      BY <1>4, FS_EmptySet
    <2>2. w[i].pc \notin SpendingAt
      BY <2>1 DEF Spending, SpendingAt
    <2>3. Potential(w[i]) = 0
      BY <1>1, <2>2, PotentialBound
    <2>4. Spent = 0
      BY DEF SpendInv, CrowdOK
    <2>. QED  BY <1>7, <2>3, <2>4
  <1>10. crowd # 0 => Spent' + Potentials' <= Spent + Potentials
    BY <1>4, <1>7, <1>8
  <1>11. CrowdOK'
    <2>1. crowd # 0 =>
            /\ Reservation <= HardLimit
            /\ Spent + Potentials
                  <= HardLimit - Reservation + PassCost + (crowd - 1) * WorkerCost
      BY DEF SpendInv, CrowdOK
    <2>2. crowd # 0 => HardLimit - Reservation + PassCost + (crowd - 1) * WorkerCost \in Int
      BY <1>4, <2>1, PassCosts, WorkerCosts
    <2>3. crowd # 0 => Spent' + Potentials'
                          <= HardLimit - Reservation + PassCost + (crowd - 1) * WorkerCost
      BY <1>4, <1>8, <1>10, <2>1, <2>2
    <2>. QED  BY <1>4, <1>6, <1>9, <2>1, <2>3 DEF CrowdOK
  <1>. QED  BY <1>3, <1>11 DEF SpendInv

\* A step to a place where nothing is spent.
LEMMA QuietStep ==
    ASSUME IInv, SpendInv, NEW i \in Workers, NEW q \in WorkerRow,
           w' = [w EXCEPT ![i] = q], UNCHANGED <<entries, crowd>>,
           q.pc \notin SpendingAt, q.pc \in Before => q.pass = "first"
    PROVE  SpendInv'
  <1>1. MoneyOK(q)
    BY DEF MoneyOK, SpendingAt
  <1>2. Potential(q) = 0
    BY <1>1, PotentialBound
  <1>3. Spent' = Spent /\ Spent \in Nat
    BY SpendTypes DEF Spent
  <1>4. Potential(w[i]) \in Nat
    BY SpendTypes, PotentialBound
  <1>5. Spent' \in Nat /\ Spent' + Potential(q) <= Spent + Potential(w[i])
    BY <1>2, <1>3, <1>4
  <1>. QED  BY <1>1, <1>5, SpendStep

\* A step beside the script.
LEMMA MoneyStays ==
    ASSUME IInv, SpendInv, NEW i \in Workers, NEW q \in WorkerRow,
           w' = [w EXCEPT ![i] = q], UNCHANGED <<entries, crowd>>,
           q.pc = w[i].pc, q.pass = w[i].pass, q.left = w[i].left, q.first = w[i].first,
           q.cost = w[i].cost
    PROVE  SpendInv'
  <1>1. MoneyOK(w[i])
    BY SpendTypes
  <1>2. MoneyOK(q)
    BY <1>1 DEF MoneyOK
  <1>3. Potential(q) = Potential(w[i])
    BY DEF Potential, RepairCost
  <1>4. Potential(q) \in Nat
    BY <1>2, PotentialBound
  <1>5. Spent' = Spent /\ Spent \in Nat
    BY SpendTypes DEF Spent
  <1>6. Spent' \in Nat /\ Spent' + Potential(q) <= Spent + Potential(w[i])
    BY <1>3, <1>4, <1>5
  <1>. QED  BY <1>2, <1>6, SpendStep

Reasons == {"none", "succeeded", "failed", "ownership_lost", "claim_failed", "died"}

\* The ends of the work, and the steps of the script around it.
LEMMA QuietMoves ==
    ASSUME IInv, SpendInv, NEW i \in Workers, UNCHANGED <<entries, crowd>>,
           \/ \E ended \in {"ok", "failed", "threw", "refused"} : End(i, ended)
           \/ \E reason \in Reasons : Exit(i, reason)
           \/ \E pc \in {"candidate", "stop", "succeed", "fail"} : Goto(i, pc)
    PROVE  SpendInv'
  <1>1. w \in [Workers -> WorkerRow] /\ w[i] \in WorkerRow
    BY DEF IInv, RowsOfTheirTypes
  <1>2. ASSUME NEW ended \in {"ok", "failed", "threw", "refused"}, End(i, ended)
        PROVE  SpendInv'
    <2>. DEFINE q == [w[i] EXCEPT !.pc = "stop", !.ended = ended, !.beating = FALSE]
    <2>1. w' = [w EXCEPT ![i] = q]
      BY <1>1, <1>2 DEF End
    <2>2. q \in WorkerRow /\ q.pc = "stop"
      BY <1>1 DEF WorkerRow, PC
    <2>. HIDE DEF q
    <2>. QED  BY <2>1, <2>2, QuietStep DEF SpendingAt, Before
  <1>3. ASSUME NEW reason \in Reasons, Exit(i, reason)
        PROVE  SpendInv'
    <2>. DEFINE q == [w[i] EXCEPT !.pc = "exit", !.reason = reason]
    <2>1. w' = [w EXCEPT ![i] = q]
      BY <1>1, <1>3 DEF Exit
    <2>2. q \in WorkerRow /\ q.pc = "exit"
      BY <1>1 DEF WorkerRow, PC, Reasons
    <2>. HIDE DEF q
    <2>. QED  BY <2>1, <2>2, QuietStep DEF SpendingAt, Before
  <1>4. ASSUME NEW pc \in {"candidate", "stop", "succeed", "fail"}, Goto(i, pc)
        PROVE  SpendInv'
    <2>. DEFINE q == [w[i] EXCEPT !.pc = pc]
    <2>1. w' = [w EXCEPT ![i] = q]
      BY <1>1, <1>4 DEF Goto
    <2>2. q \in WorkerRow /\ q.pc = pc
      BY <1>1 DEF WorkerRow, PC
    <2>. HIDE DEF q
    <2>. QED  BY <2>1, <2>2, QuietStep DEF SpendingAt, Before
  <1>. QED  BY <1>2, <1>3, <1>4

LEMMA QuietActions ==
    ASSUME IInv, SpendInv, NEW i \in Workers,
           \/ Sleep(i) \/ StopHeartbeat(i)
           \/ \E net \in Net : StoreCandidate(i, net) \/ Succeed(i, net) \/ Fail(i, net)
    PROVE  SpendInv'
  <1>1. UNCHANGED <<entries, crowd>>
    BY DEF Sleep, StopHeartbeat, StoreCandidate, Succeed, Fail, Report
  <1>2. CASE Sleep(i)
    <2>1. End(i, "threw") \/ End(i, "ok")
      BY <1>2 DEF Sleep
    <2>. QED  BY <1>1, <2>1, QuietMoves
  <1>3. CASE StopHeartbeat(i)
    <2>1. Exit(i, "ownership_lost") \/ Goto(i, "succeed") \/ Goto(i, "fail")
      BY <1>3 DEF StopHeartbeat
    <2>. QED  BY <1>1, <2>1, QuietMoves DEF Reasons
  <1>4. ASSUME NEW net \in Net, StoreCandidate(i, net)
        PROVE  SpendInv'
    <2>1. End(i, "threw") \/ End(i, "ok")
      BY <1>4 DEF StoreCandidate
    <2>. QED  BY <1>1, <2>1, QuietMoves
  <1>5. ASSUME NEW net \in Net, Succeed(i, net) \/ Fail(i, net)
        PROVE  SpendInv'
    <2>1. \/ Exit(i, "failed") \/ Exit(i, "ownership_lost") \/ Exit(i, "succeeded")
      BY <1>5 DEF Succeed, Fail, Report
    <2>. QED  BY <1>1, <2>1, QuietMoves DEF Reasons
  <1>. QED  BY <1>2, <1>3, <1>4, <1>5

LEMMA ClaimSpends ==
    ASSUME IInv, SpendInv, NEW i \in Workers, NEW net \in Net, Claim(i, net)
    PROVE  SpendInv'
  <1>1. /\ w \in [Workers -> WorkerRow] /\ w[i] \in WorkerRow /\ w[i].pc = "claim"
        /\ UNCHANGED <<entries, crowd>>
    BY DEF IInv, RowsOfTheirTypes, Claim, At
  <1>2. w[i].pass = "first"
    BY <1>1, SpendTypes DEF MoneyOK, Before
  <1>3. CASE run[i] = "queued" /\ net = "answered"
    <2>. DEFINE pc == IF i \in coding THEN "packet" ELSE "sleep"
                q == [w[i] EXCEPT !.pc = pc, !.beating = TRUE]
    <2>1. w' = [w EXCEPT ![i] = q]
      BY <1>1, <1>3 DEF Claim
    <2>2. pc \in {"packet", "sleep"}
      OBVIOUS
    <2>. HIDE DEF pc
    <2>3. q \in WorkerRow /\ q.pc = pc /\ q.pass = "first"
      BY <1>1, <1>2, <2>2 DEF WorkerRow, PC
    <2>. HIDE DEF q
    <2>. QED  BY <1>1, <2>1, <2>2, <2>3, QuietStep DEF SpendingAt
  <1>4. CASE ~(run[i] = "queued" /\ net = "answered")
    <2>1. Exit(i, "claim_failed")
      BY <1>4 DEF Claim
    <2>. QED  BY <1>1, <2>1, QuietMoves DEF Reasons
  <1>. QED  BY <1>3, <1>4

LEMMA PacketSpends ==
    ASSUME IInv, SpendInv, NEW i \in Workers, NEW net \in Net,
           NEW config \in {"complete", "no_api_key", "invalid"}, GetTaskPacket(i, net, config)
    PROVE  SpendInv'
  <1>1. /\ w \in [Workers -> WorkerRow] /\ w[i] \in WorkerRow /\ w[i].pc = "packet"
        /\ UNCHANGED <<entries, crowd>>
    BY DEF IInv, RowsOfTheirTypes, GetTaskPacket, At
  <1>2. w[i].pass = "first"
    BY <1>1, SpendTypes DEF MoneyOK, Before
  <1>3. \/ End(i, "threw") \/ End(i, "refused") \/ End(i, "failed")
        \/ Goto(i, "budget")
    BY DEF GetTaskPacket
  <1>4. CASE Goto(i, "budget")
    <2>. DEFINE q == [w[i] EXCEPT !.pc = "budget"]
    <2>1. w' = [w EXCEPT ![i] = q]
      BY <1>1, <1>4 DEF Goto
    <2>2. q \in WorkerRow /\ q.pc = "budget" /\ q.pass = "first"
      BY <1>1, <1>2 DEF WorkerRow, PC
    <2>. HIDE DEF q
    <2>. QED  BY <1>1, <2>1, <2>2, QuietStep DEF SpendingAt
  <1>. QED  BY <1>1, <1>3, <1>4, QuietMoves

LEMMA CheckoutSpends ==
    ASSUME IInv, SpendInv, NEW i \in Workers, NEW o \in {"ready", "failed", "threw"},
           Checkout(i, o)
    PROVE  SpendInv'
  <1>1. /\ w \in [Workers -> WorkerRow] /\ w[i] \in WorkerRow /\ w[i].pc = "checkout"
        /\ UNCHANGED <<entries, crowd>> /\ MoneyOK(w[i])
    BY SpendTypes DEF IInv, RowsOfTheirTypes, Checkout, At
  <1>2. CASE o = "ready"
    <2>. DEFINE q == [w[i] EXCEPT !.pc = "codex"]
    <2>1. w' = [w EXCEPT ![i] = q]
      BY <1>1, <1>2 DEF Checkout, Goto
    <2>2. /\ q \in WorkerRow /\ q.pc = "codex" /\ q.pass = w[i].pass /\ q.left = w[i].left
          /\ q.first = w[i].first /\ q.cost = w[i].cost
      BY <1>1 DEF WorkerRow, PC
    <2>. HIDE DEF q
    <2>3. w[i].pass = "first"
      BY <1>1 DEF MoneyOK, Before
    <2>4. MoneyOK(q)
      BY <1>1, <2>2 DEF MoneyOK, SpendingAt, Before
    <2>5. Potential(q) = Potential(w[i])
      BY <1>1, <2>2, <2>3 DEF Potential
    <2>6. Spent' = Spent /\ Spent \in Nat
      BY <1>1, SpendTypes DEF Spent
    <2>7. Potential(q) \in Nat
      BY <2>2, <2>4, PotentialBound
    <2>8. Spent' \in Nat /\ Spent' + Potential(q) <= Spent + Potential(w[i])
      BY <2>5, <2>6, <2>7
    <2>9. w[i].pc \in SpendingAt /\ UNCHANGED crowd
      BY <1>1 DEF SpendingAt
    <2>. QED  BY <2>1, <2>2, <2>4, <2>8, <2>9, SpendStep
  <1>3. CASE o # "ready"
    <2>1. End(i, "failed") \/ End(i, "threw")
      BY <1>3 DEF Checkout
    <2>. QED  BY <1>1, <2>1, QuietMoves
  <1>. QED  BY <1>2, <1>3

LEMMA CodexSpends ==
    ASSUME IInv, SpendInv, NEW i \in Workers, NEW usage \in Costs \cup {Missing},
           NEW changed \in BOOLEAN, Codex(i, usage, changed)
    PROVE  SpendInv'
  <1>. DEFINE cost == IF usage = Missing THEN Reservation ELSE usage
              first == IF w[i].pass = "first" THEN cost ELSE w[i].first
              q == [w[i] EXCEPT !.pc = "charge", !.cost = cost, !.first = first,
                                !.changed = IF w[i].aborted THEN w[i].changed ELSE changed]
  <1>1. /\ w \in [Workers -> WorkerRow] /\ w[i] \in WorkerRow /\ w[i].pc = "codex"
        /\ UNCHANGED <<entries, crowd>> /\ MoneyOK(w[i])
    BY SpendTypes DEF IInv, RowsOfTheirTypes, Codex, At
  <1>2. /\ w[i].left \in Nat /\ w[i].first \in Nat /\ w[i].changed \in BOOLEAN
        /\ w[i].pass = "first" \/ w[i].pass = "repair"
    BY <1>1 DEF WorkerRow, Passes
  <1>3. cost \in Nat /\ cost <= PassCost
    BY PassCosts DEF Missing
  <1>4. w' = [w EXCEPT ![i] = q]
    BY <1>1 DEF Codex
  <1>. HIDE DEF cost
  <1>5. /\ q \in WorkerRow /\ q.pc = "charge" /\ q.cost = cost /\ q.pass = w[i].pass
        /\ q.left = w[i].left /\ q.first = first
    BY <1>1, <1>2, <1>3 DEF WorkerRow, PC
  <1>. HIDE DEF q
  <1>6. w[i].left >= Reservation /\ w[i].left <= HardLimit
    BY <1>1 DEF MoneyOK, SpendingAt
  <1>7. MoneyOK(q)
    BY <1>3, <1>5, <1>6 DEF MoneyOK, Before
  <1>8. Potential(q) <= Potential(w[i])
    <2>1. CASE w[i].pass = "first"
      <3>1. Potential(w[i]) = IF 2 * PassCost < w[i].left - Reservation + PassCost
                                THEN 2 * PassCost ELSE w[i].left - Reservation + PassCost
        BY <1>1, <2>1 DEF Potential
      <3>2. Potential(q) = cost + IF w[i].left - cost >= Reservation THEN PassCost ELSE 0
        BY <1>5, <2>1 DEF Potential, RepairCost
      <3>. QED  BY <1>2, <1>3, <1>6, <3>1, <3>2, PassCosts
    <2>2. CASE w[i].pass = "repair"
      <3>1. Potential(w[i]) = PassCost
        BY <1>1, <2>2 DEF Potential
      <3>2. Potential(q) = cost
        BY <1>5, <2>2 DEF Potential
      <3>. QED  BY <1>3, <3>1, <3>2
    <2>. QED  BY <1>2, <2>1, <2>2
  <1>9. Spent' = Spent /\ Spent \in Nat
    BY <1>1, SpendTypes DEF Spent
  <1>10. Potential(q) \in Nat /\ Potential(w[i]) \in Nat
    BY <1>1, <1>5, <1>7, PotentialBound
  <1>11. Spent' \in Nat /\ Spent' + Potential(q) <= Spent + Potential(w[i])
    BY <1>8, <1>9, <1>10
  <1>12. w[i].pc \in SpendingAt /\ UNCHANGED crowd
    BY <1>1 DEF SpendingAt
  <1>. QED  BY <1>4, <1>5, <1>7, <1>11, <1>12, SpendStep

\* What a charge adds is no more than what its pass has cost.
LEMMA ChargeAdds ==
    ASSUME IInv, SpendInv, NEW i \in Workers, NEW net \in Net, Charge(i, net)
    PROVE  Spent' \in Nat /\ Spent' <= Spent + w[i].cost
  <1>. DEFINE id == EntryId(i, w[i].pass)
  <1>1. w[i] \in WorkerRow /\ w[i].cost \in Nat /\ w[i].pass \in Passes
    BY DEF IInv, RowsOfTheirTypes, WorkerRow
  <1>2. id \in EntryIds
    BY <1>1 DEF EntryId, EntryIds
  <1>3. /\ IsFiniteSet(EntryIds) /\ entries \in [EntryIds -> Int] /\ Spent \in Nat
        /\ Spent = Total(entries)
    BY SpendTypes DEF Spent
  <1>4. \/ entries' = entries
        \/ entries[id] = -1 /\ entries' = [entries EXCEPT ![id] = w[i].cost]
    BY DEF Charge
  <1>. HIDE DEF id
  <1>5. CASE entries' = entries
    BY <1>1, <1>3, <1>5 DEF Spent
  <1>6. CASE entries[id] = -1 /\ entries' = [entries EXCEPT ![id] = w[i].cost]
    <2>1. /\ entries' \in [EntryIds -> Int] /\ entries'[id] = w[i].cost
          /\ \A e \in EntryIds \ {id} : entries'[e] = entries[e]
      BY <1>1, <1>2, <1>3, <1>6
    <2>2. Total(entries') = Total(entries) - Positive(entries[id]) + Positive(entries'[id])
      BY <1>2, <1>3, <2>1, TotalUpdate
    <2>3. Total(entries') = Total(entries) + w[i].cost
      BY <1>1, <1>3, <1>6, <2>1, <2>2 DEF Positive
    <2>. QED  BY <1>1, <1>3, <2>3 DEF Spent
  <1>. QED  BY <1>4, <1>5, <1>6

LEMMA ChargeSpends ==
    ASSUME IInv, SpendInv, NEW i \in Workers, NEW net \in Net, Charge(i, net)
    PROVE  SpendInv'
  <1>1. /\ w \in [Workers -> WorkerRow] /\ w[i] \in WorkerRow /\ w[i].pc = "charge"
        /\ UNCHANGED crowd /\ MoneyOK(w[i])
    BY SpendTypes DEF IInv, RowsOfTheirTypes, Charge, At
  <1>2. /\ w[i].left \in Nat /\ w[i].first \in Nat /\ w[i].cost \in Nat
        /\ w[i].pass = "first" \/ w[i].pass = "repair"
    BY <1>1 DEF WorkerRow, Passes
  <1>3. Spent \in Nat /\ Spent' \in Nat /\ Spent' <= Spent + w[i].cost
    BY SpendTypes, ChargeAdds
  <1>4. RepairCost(w[i]) \in Nat
    BY PassCosts DEF RepairCost
  <1>5. Potential(w[i]) = IF w[i].pass = "first" THEN w[i].cost + RepairCost(w[i]) ELSE w[i].cost
    BY <1>1, <1>2 DEF Potential
  <1>6. w[i].pc \in SpendingAt
    BY <1>1 DEF SpendingAt
  <1>7. ASSUME NEW ended \in {"threw", "refused"}, End(i, ended)
        PROVE  SpendInv'
    <2>. DEFINE q == [w[i] EXCEPT !.pc = "stop", !.ended = ended, !.beating = FALSE]
    <2>1. w' = [w EXCEPT ![i] = q]
      BY <1>1, <1>7 DEF End
    <2>2. q \in WorkerRow /\ q.pc = "stop"
      BY <1>1 DEF WorkerRow, PC
    <2>. HIDE DEF q
    <2>3. MoneyOK(q) /\ q.pc \notin SpendingAt
      BY <2>2 DEF MoneyOK, SpendingAt, Before
    <2>4. Potential(q) = 0
      BY <2>2, <2>3, PotentialBound
    <2>5. Spent' + Potential(q) <= Spent + Potential(w[i])
      BY <1>2, <1>3, <1>4, <1>5, <2>4
    <2>. QED  BY <1>1, <1>3, <1>6, <2>1, <2>2, <2>3, <2>5, SpendStep
  <1>8. CASE Goto(i, "test")
    <2>. DEFINE q == [w[i] EXCEPT !.pc = "test"]
    <2>1. w' = [w EXCEPT ![i] = q]
      BY <1>1, <1>8 DEF Goto
    <2>2. /\ q \in WorkerRow /\ q.pc = "test" /\ q.pass = w[i].pass /\ q.left = w[i].left
          /\ q.first = w[i].first
      BY <1>1 DEF WorkerRow, PC
    <2>. HIDE DEF q
    <2>3. MoneyOK(q)
      BY <1>1, <2>2 DEF MoneyOK, SpendingAt, Before
    <2>4. Potential(q) = IF w[i].pass = "first" THEN RepairCost(w[i]) ELSE 0
      BY <1>2, <2>2 DEF Potential, RepairCost
    <2>5. Spent' + Potential(q) <= Spent + Potential(w[i])
      BY <1>2, <1>3, <1>4, <1>5, <2>4
    <2>. QED  BY <1>1, <1>3, <1>6, <2>1, <2>2, <2>3, <2>5, SpendStep
  <1>9. End(i, "threw") \/ End(i, "refused") \/ Goto(i, "test")
    BY DEF Charge
  <1>. QED  BY <1>7, <1>8, <1>9

LEMMA TestSpends ==
    ASSUME IInv, SpendInv, NEW i \in Workers, NEW r \in {"passed", "failed", "timed_out"},
           Test(i, r)
    PROVE  SpendInv'
  <1>1. /\ w \in [Workers -> WorkerRow] /\ w[i] \in WorkerRow /\ w[i].pc = "test"
        /\ UNCHANGED <<entries, crowd>> /\ MoneyOK(w[i])
    BY SpendTypes DEF IInv, RowsOfTheirTypes, Test, At
  <1>2. \/ Goto(i, "candidate") \/ End(i, "failed")
        \/ RepairAllowed(i) /\ w' = [w EXCEPT ![i].pc = "codex", ![i].pass = "repair"]
    BY DEF Test, Tested
  <1>3. CASE RepairAllowed(i) /\ w' = [w EXCEPT ![i].pc = "codex", ![i].pass = "repair"]
    <2>. DEFINE q == [w[i] EXCEPT !.pc = "codex", !.pass = "repair"]
    <2>1. w' = [w EXCEPT ![i] = q]
      BY <1>1, <1>3
    <2>2. q \in WorkerRow /\ q.pc = "codex" /\ q.pass = "repair" /\ q.left = w[i].left
      BY <1>1 DEF WorkerRow, PC, Passes
    <2>. HIDE DEF q
    <2>3. MoneyOK(q)
      BY <1>1, <2>2 DEF MoneyOK, SpendingAt, Before
    <2>4. Potential(w[i]) = PassCost /\ Potential(q) = PassCost
      BY <1>1, <1>3, <2>2 DEF Potential, RepairCost, RepairAllowed
    <2>5. Spent' \in Nat /\ Spent' + Potential(q) <= Spent + Potential(w[i])
      <3>1. Spent' = Spent /\ Spent \in Nat
        BY <1>1, SpendTypes DEF Spent
      <3>. QED  BY <2>4, <3>1, PassCosts
    <2>6. w[i].pc \in SpendingAt /\ UNCHANGED crowd
      BY <1>1 DEF SpendingAt
    <2>. QED  BY <2>1, <2>2, <2>3, <2>5, <2>6, SpendStep
  <1>. QED  BY <1>1, <1>2, <1>3, QuietMoves
-----------------------------------------------------------------------------
(***************************************************************************)
(* The look at the budget: the sums start anew from what is spent, and the *)
(* others have no more to spend than each of them may.                     *)
(***************************************************************************)
LEMMA Times == \A a, b, c \in Nat : a <= b => a * c \in Nat /\ b * c \in Nat /\ a * c <= b * c
  OBVIOUS

LEMMA LookSpends ==
    ASSUME IInv, SpendInv, NEW i \in Workers, w[i].pc = "budget", UNCHANGED entries,
           NEW left \in Nat, left = RemainingHardLimit, HardLimit # 0, left >= Reservation,
           w' = [w EXCEPT ![i].pc = "checkout", ![i].left = left],
           Crowded(Cardinality(Spending) + 1)
    PROVE  SpendInv'
  <1>. DEFINE q == [w[i] EXCEPT !.pc = "checkout", !.left = left]
              n == Cardinality(Spending)
  <1>1. /\ w \in [Workers -> WorkerRow] /\ w[i] \in WorkerRow /\ MoneyOK(w[i])
        /\ Spent \in Nat /\ n \in Nat /\ IsFiniteSet(Spending) /\ Spending \subseteq Workers
        /\ crowd \in Nat
    BY SpendTypes DEF IInv, RowsOfTheirTypes, Spending, SpendInv, CrowdOK
  <1>2. w[i].pass = "first"
    BY <1>1 DEF MoneyOK, Before
  <1>3. left = HardLimit - Spent /\ left <= HardLimit /\ Reservation <= HardLimit
    BY <1>1, PassCosts DEF RemainingHardLimit
  <1>4. w' = [w EXCEPT ![i] = q]
    BY <1>1
  <1>5. q \in WorkerRow /\ q.pc = "checkout" /\ q.pass = "first" /\ q.left = left
    BY <1>1, <1>2 DEF WorkerRow, PC
  <1>. HIDE DEF q
  <1>6. MoneyOK(q)
    BY <1>3, <1>5 DEF MoneyOK, SpendingAt
  <1>7. WorkerCost \in Nat
    BY <1>3, WorkerCosts
  <1>8. crowd' \in Nat /\ n <= crowd' - 1 /\ crowd' # 0
    BY <1>1 DEF Crowded
  <1>9. Spending' \subseteq Spending \cup {i} /\ i \notin Spending
    BY <1>1, <1>4 DEF Spending
  <1>10. Cardinality(Spending') <= crowd'
    <2>1. IsFiniteSet(Spending \cup {i}) /\ Cardinality(Spending \cup {i}) = n + 1
      BY <1>1, <1>9, FS_AddElement, Zenon
    <2>2. Cardinality(Spending') \in Nat /\ Cardinality(Spending') <= n + 1
      BY <1>9, <2>1, FS_Subset, FS_CardinalityType
    <2>. QED  BY <1>1, <1>8, <2>2
  <1>11. Potentials \in Nat /\ Potentials <= n * WorkerCost
    <2>. DEFINE f == [j \in Workers |-> Potential(w[j])]
    <2>1. /\ f \in [Workers -> Int] /\ Potentials = Total(f) /\ Potentials \in Nat
          /\ \A j \in Workers : f[j] = Potential(w[j])
      BY SpendTypes DEF Potentials
    <2>. HIDE DEF f
    <2>2. \A j \in Spending : f[j] <= WorkerCost
      BY <1>1, <1>3, <2>1, SpendTypes, PotentialBound
    <2>3. \A j \in Workers \ Spending : f[j] <= 0
      <3>. SUFFICES ASSUME NEW j \in Workers \ Spending  PROVE f[j] <= 0
        OBVIOUS
      <3>1. w[j].pc \notin SpendingAt
        BY DEF Spending, SpendingAt
      <3>2. Potential(w[j]) = 0
        BY <1>1, <3>1, SpendTypes, PotentialBound
      <3>. QED  BY <2>1, <3>2
    <2>4. Spending \in SUBSET Workers
      BY <1>1
    <2>5. Total(f) <= Cardinality(Spending) * WorkerCost
      BY <1>7, <2>1, <2>2, <2>3, <2>4, WorkersAssumption, TotalBounded
    <2>. QED  BY <2>1, <2>5
  <1>12. Potential(w[i]) = 0
    BY <1>1, PotentialBound DEF SpendingAt
  <1>13. Potential(q) \in Nat /\ Potential(q) <= left - Reservation + PassCost
    <2>1. Potential(q) = IF 2 * PassCost < left - Reservation + PassCost
                           THEN 2 * PassCost ELSE left - Reservation + PassCost
      BY <1>5 DEF Potential
    <2>. QED  BY <2>1, <1>3, PassCosts
  <1>14. Potentials' = Potentials + Potential(q) /\ Potentials' \in Nat
    <2>1. Potentials' = Potentials - Potential(w[i]) + Potential(q) /\ Potentials' \in Nat
      BY <1>4, <1>5, <1>6, PotentialMoves
    <2>. QED  BY <1>11, <1>12, <1>13, <2>1
  <1>15. Spent' = Spent
    BY DEF Spent
  <1>16. /\ n * WorkerCost \in Nat /\ (crowd' - 1) * WorkerCost \in Nat
         /\ n * WorkerCost <= (crowd' - 1) * WorkerCost
    <2>1. crowd' - 1 \in Nat
      BY <1>8
    <2>. QED  BY <1>1, <1>7, <1>8, <2>1, Times
  <1>17. Spent' + Potentials'
            <= HardLimit - Reservation + PassCost + (crowd' - 1) * WorkerCost
    <2>. DEFINE a == n * WorkerCost
                b == (crowd' - 1) * WorkerCost
    <2>. HIDE DEF a, b, n
    <2>1. a \in Nat /\ b \in Nat /\ a <= b /\ Potentials <= a
      BY <1>11, <1>16 DEF a, b
    <2>2. Spent' + Potentials' <= HardLimit - Reservation + PassCost + b
      BY <1>1, <1>3, <1>11, <1>13, <1>14, <1>15, <2>1, PassCosts
    <2>. QED  BY <2>2 DEF b
  <1>18. CrowdOK'
    BY <1>3, <1>8, <1>10, <1>17 DEF CrowdOK
  <1>19. \A j \in Workers : MoneyOK(w'[j])
    BY <1>1, <1>4, <1>6, SpendTypes
  <1>. QED  BY <1>18, <1>19 DEF SpendInv

LEMMA BudgetSpends ==
    ASSUME IInv, SpendInv, NEW i \in Workers, NEW net \in Net, GetBudget(i, net)
    PROVE  SpendInv'
  <1>1. w[i].pc = "budget" /\ UNCHANGED entries
    BY DEF GetBudget, At
  <1>2. Spent \in Nat /\ RemainingHardLimit \in Nat
    BY SpendTypes, PassCosts DEF RemainingHardLimit
  <1>3. \/ (End(i, "threw") \/ End(i, "failed")) /\ UNCHANGED crowd
        \/ /\ HardLimit # 0 /\ ~(RemainingHardLimit < Reservation)
           /\ w' = [w EXCEPT ![i].pc = "checkout", ![i].left = RemainingHardLimit]
           /\ Crowded(Cardinality(Spending) + 1)
    BY DEF GetBudget
  <1>4. CASE (End(i, "threw") \/ End(i, "failed")) /\ UNCHANGED crowd
    BY <1>1, <1>4, QuietMoves
  <1>5. CASE /\ HardLimit # 0 /\ ~(RemainingHardLimit < Reservation)
             /\ w' = [w EXCEPT ![i].pc = "checkout", ![i].left = RemainingHardLimit]
             /\ Crowded(Cardinality(Spending) + 1)
    <2>1. RemainingHardLimit >= Reservation
      BY <1>2, <1>5, PassCosts
    <2>. QED  BY <1>1, <1>2, <1>5, <2>1, LookSpends
  <1>. QED  BY <1>3, <1>4, <1>5
-----------------------------------------------------------------------------
(***************************************************************************)
(* The heartbeats, signals, deaths and leases, and all steps together.     *)
(***************************************************************************)
LEMMA BesideSpends ==
    ASSUME IInv, SpendInv, NEW i \in Workers,
           Tick(i) \/ Heartbeat(i) \/ Signal(i) \/ Die(i)
    PROVE  SpendInv'
  <1>1. w \in [Workers -> WorkerRow] /\ w[i] \in WorkerRow
    BY DEF IInv, RowsOfTheirTypes
  <1>2. UNCHANGED <<entries, crowd>>
    BY DEF Tick, Heartbeat, Beat, Signal, Die
  <1>3. CASE Die(i)
    <2>. DEFINE q == [w[i] EXCEPT !.pc = "exit", !.reason = "died", !.beating = FALSE,
                                  !.flying = FALSE]
    <2>1. w' = [w EXCEPT ![i] = q]
      BY <1>1, <1>3 DEF Die
    <2>2. q \in WorkerRow /\ q.pc = "exit"
      BY <1>1 DEF WorkerRow, PC
    <2>. HIDE DEF q
    <2>. QED  BY <1>2, <2>1, <2>2, QuietStep DEF SpendingAt, Before
  <1>4. CASE Tick(i) \/ Heartbeat(i) \/ Signal(i)
    <2>1. \E q \in WorkerRow :
             /\ w' = [w EXCEPT ![i] = q]
             /\ q.pc = w[i].pc /\ q.pass = w[i].pass /\ q.left = w[i].left
             /\ q.first = w[i].first /\ q.cost = w[i].cost
      <3>1. CASE Tick(i)
        <4>. DEFINE q == [w[i] EXCEPT !.flying = TRUE]
        <4>1. w' = [w EXCEPT ![i] = q]
          BY <1>1, <3>1 DEF Tick
        <4>2. /\ q \in WorkerRow /\ q.pc = w[i].pc /\ q.pass = w[i].pass
              /\ q.left = w[i].left /\ q.first = w[i].first /\ q.cost = w[i].cost
          BY <1>1 DEF WorkerRow
        <4>. QED  BY <4>1, <4>2
      <3>2. CASE Signal(i)
        <4>. DEFINE q == [w[i] EXCEPT !.aborted = TRUE]
        <4>1. w' = [w EXCEPT ![i] = q]
          BY <1>1, <3>2 DEF Signal
        <4>2. /\ q \in WorkerRow /\ q.pc = w[i].pc /\ q.pass = w[i].pass
              /\ q.left = w[i].left /\ q.first = w[i].first /\ q.cost = w[i].cost
          BY <1>1 DEF WorkerRow
        <4>. QED  BY <4>1, <4>2
      <3>3. CASE OwnershipLost(i)
        <4>. DEFINE q == [w[i] EXCEPT !.flying = FALSE, !.beating = FALSE, !.lost = TRUE,
                                      !.aborted = TRUE]
        <4>1. w' = [w EXCEPT ![i] = q]
          BY <1>1, <3>3 DEF OwnershipLost
        <4>2. /\ q \in WorkerRow /\ q.pc = w[i].pc /\ q.pass = w[i].pass
              /\ q.left = w[i].left /\ q.first = w[i].first /\ q.cost = w[i].cost
          BY <1>1 DEF WorkerRow
        <4>. QED  BY <4>1, <4>2
      <3>4. ASSUME NEW m \in 0 .. FailureLimit - 1,
                   w' = [w EXCEPT ![i].flying = FALSE, ![i].misses = m]
            PROVE  \E q \in WorkerRow :
                      /\ w' = [w EXCEPT ![i] = q]
                      /\ q.pc = w[i].pc /\ q.pass = w[i].pass /\ q.left = w[i].left
                      /\ q.first = w[i].first /\ q.cost = w[i].cost
        <4>. DEFINE q == [w[i] EXCEPT !.flying = FALSE, !.misses = m]
        <4>1. w' = [w EXCEPT ![i] = q]
          BY <1>1, <3>4
        <4>2. /\ q \in WorkerRow /\ q.pc = w[i].pc /\ q.pass = w[i].pass
              /\ q.left = w[i].left /\ q.first = w[i].first /\ q.cost = w[i].cost
          BY <1>1 DEF WorkerRow
        <4>. QED  BY <4>1, <4>2
      <3>5. ASSUME NEW net \in Net, Beat(i, net)
            PROVE  \/ OwnershipLost(i)
                   \/ \E m \in 0 .. FailureLimit - 1 :
                         w' = [w EXCEPT ![i].flying = FALSE, ![i].misses = m]
        <4>1. w[i].misses \in 0 .. FailureLimit - 1 /\ FailureLimit \in Nat \ {0}
          BY <1>1, ActuatorAssumption DEF WorkerRow
        <4>2. CASE net = "answered" /\ Owned(i)
          <5>1. w' = [w EXCEPT ![i].flying = FALSE, ![i].misses = 0]
            BY <3>5, <4>2 DEF Beat
          <5>2. 0 \in 0 .. FailureLimit - 1
            BY <4>1
          <5>. QED  BY <5>1, <5>2
        <4>3. CASE net # "answered" /\ w[i].misses + 1 < FailureLimit
          <5>1. w' = [w EXCEPT ![i].flying = FALSE, ![i].misses = w[i].misses + 1]
            BY <1>1, <3>5, <4>3 DEF Beat
          <5>2. w[i].misses + 1 \in 0 .. FailureLimit - 1
            BY <4>1, <4>3
          <5>. QED  BY <5>1, <5>2
        <4>4. CASE /\ ~(net = "answered" /\ Owned(i))
                   /\ ~(net # "answered" /\ w[i].misses + 1 < FailureLimit)
          BY <3>5, <4>4 DEF Beat
        <4>. QED  BY <4>2, <4>3, <4>4
      <3>. QED  BY <1>4, <3>1, <3>2, <3>3, <3>4, <3>5 DEF Heartbeat
    <2>. QED  BY <1>2, <2>1, MoneyStays
  <1>. QED  BY <1>3, <1>4

LEMMA SpendInit == Init => SpendInv
  <1>. SUFFICES ASSUME Init  PROVE SpendInv
    OBVIOUS
  <1>1. /\ crowd = 0 /\ entries = [e \in EntryIds |-> -1]
        /\ \A i \in Workers : w[i].pc = "claim" /\ w[i].pass = "first"
    BY DEF Init
  <1>2. Spending = {}
    BY <1>1 DEF Spending
  <1>3. Cardinality(Spending) = 0
    BY <1>2, FS_EmptySet
  <1>4. Spent = 0
    <2>1. Units(entries) = {}
      <3>1. \A u : u \notin Units(entries)
        BY <1>1 DEF Units
      <3>. QED  BY <3>1
    <2>. QED  BY <2>1, FS_EmptySet DEF Spent, Total
  <1>5. CrowdOK
    BY <1>1, <1>3, <1>4 DEF CrowdOK
  <1>6. \A i \in Workers : MoneyOK(w[i])
    BY <1>1 DEF MoneyOK, SpendingAt, Before
  <1>. QED  BY <1>5, <1>6 DEF SpendInv

LEMMA SpendNext == IInv /\ SpendInv /\ [Next]_vars => SpendInv'
  <1>. SUFFICES ASSUME IInv, SpendInv, [Next]_vars  PROVE SpendInv'
    OBVIOUS
  <1>1. CASE UNCHANGED <<entries, w, crowd>>
    BY <1>1 DEF SpendInv, CrowdOK, Spending, Spent, Potentials
  <1>2. CASE UNCHANGED vars
    BY <1>1, <1>2 DEF vars
  <1>3. ASSUME NEW i \in Workers, Work(i)
        PROVE  SpendInv'
    BY <1>3, QuietActions, ClaimSpends, PacketSpends, BudgetSpends, CheckoutSpends,
       CodexSpends, ChargeSpends, TestSpends DEF Work
  <1>4. ASSUME NEW i \in Workers, Expire(i) \/ LeaseRunsOut(i) \/ Recover(i)
        PROVE  SpendInv'
    BY <1>1, <1>4 DEF Expire, LeaseRunsOut, Recover
  <1>. QED  BY <1>2, <1>3, <1>4, BesideSpends DEF Next

THEOREM SpendInvariant == Spec => []SpendInv
  BY Invariant, SpendInit, SpendNext, PTL DEF Spec
-----------------------------------------------------------------------------
(***************************************************************************)
(* What follows from the invariants.                                       *)
(***************************************************************************)

(***************************************************************************)
(* Rows, workers and counters keep their types; in particular Codex is     *)
(* never started more than twice for one run.                              *)
(***************************************************************************)
THEOREM TypeCorrect == Spec => []TypeOK
  <1>1. IInv /\ SpendInv => TypeOK
    BY DEF IInv, SpendInv, CrowdOK, TypeOK
  <1> QED BY <1>1, Invariant, SpendInvariant, PTL

(***************************************************************************)
(* A coding run succeeds only with its candidate and its first charge in   *)
(* the store, and a worker that has tried to report success never fails    *)
(* its run, whatever calls are lost.                                       *)
(***************************************************************************)
THEOREM OutcomesAreTrue == Spec => []OutcomeIsTrue
  <1>1. IInv => OutcomeIsTrue
    BY DEF IInv, RowsOfTheirTypes, WorkerOK, EndingOK, OutcomeIsTrue, Paid
  <1> QED BY <1>1, Invariant, PTL

(***************************************************************************)
(* A worker about to report still has its lease as far as it has heard,    *)
(* and no heartbeat is left that could tell it otherwise meanwhile.        *)
(***************************************************************************)
THEOREM LostWorkersAreSilent == Spec => []SilentWhenLost
  <1>1. IInv => SilentWhenLost
    BY DEF IInv, WorkerOK, HeartbeatOK, SilentWhenLost, Ending
  <1> QED BY <1>1, Invariant, PTL

(***************************************************************************)
(* A script that comes to its end has charged every start of Codex.        *)
(***************************************************************************)
LEMMA Charges ==
    ASSUME NEW i \in Workers
    PROVE  /\ Charged(i) \in Nat
           /\ Paid(i, "first") => Charged(i) >= 1
           /\ Paid(i, "first") /\ Paid(i, "repair") => Charged(i) >= 2
  <1> DEFINE S == {p \in Passes : entries[<<i, p>>] # -1}
  <1>1. IsFiniteSet({"first"}) /\ Cardinality({"first"}) = 1 BY FS_Singleton
  <1>2. /\ IsFiniteSet({"first"} \cup {"repair"})
        /\ Cardinality({"first"} \cup {"repair"}) = 2
    <2>1. "repair" \notin {"first"} OBVIOUS
    <2>2. /\ IsFiniteSet({"first"} \cup {"repair"})
          /\ Cardinality({"first"} \cup {"repair"}) = Cardinality({"first"}) + 1
      BY <1>1, <2>1, FS_AddElement, Zenon
    <2> QED BY <1>1, <2>2
  <1>3. Passes = {"first"} \cup {"repair"} BY DEF Passes
  <1>4. IsFiniteSet(S) BY <1>2, <1>3, FS_Subset
  <1>5. Cardinality(S) \in Nat BY <1>4, FS_CardinalityType
  <1>6. Paid(i, "first") => Cardinality(S) >= 1
    <2>1. Paid(i, "first") => {"first"} \subseteq S BY DEF Paid, Passes
    <2> QED BY <1>1, <1>4, <2>1, FS_Subset
  <1>7. Paid(i, "first") /\ Paid(i, "repair") => Cardinality(S) >= 2
    <2>1. Paid(i, "first") /\ Paid(i, "repair") => ({"first"} \cup {"repair"}) \subseteq S
      BY DEF Paid, Passes
    <2> QED BY <1>2, <1>4, <2>1, FS_Subset
  <1> QED BY <1>5, <1>6, <1>7 DEF Charged

THEOREM EveryLaunchIsCharged == Spec => []LaunchesAreCharged
  <1>1. IInv => LaunchesAreCharged
    <2> SUFFICES ASSUME IInv, NEW i \in Workers, w[i].ended \in {"ok", "failed"}
                 PROVE  Charged(i) >= launches[i]
      BY DEF LaunchesAreCharged
    <2>1. launches[i] \in 0 .. 2 /\ AllPaid(i)
      BY DEF IInv, RowsOfTheirTypes, WorkerOK, LaunchesOK
    <2> QED BY <2>1, Charges DEF AllPaid
  <1> QED BY <1>1, Invariant, PTL

(***************************************************************************)
(* Whatever is lost, late or dead, workers that look at one budget keep    *)
(* its hard limit but for one pass, and for one worker's share for each    *)
(* that was ever spending beside another.                                  *)
(***************************************************************************)
THEOREM SpendStaysBounded == Spec => []SpendIsBounded
  <1>1. IInv /\ SpendInv => SpendIsBounded
    <2>. SUFFICES ASSUME IInv, SpendInv  PROVE SpendIsBounded
      OBVIOUS
    <2>1. Spent \in Nat /\ Potentials \in Nat /\ crowd \in Nat
      BY SpendTypes DEF SpendInv, CrowdOK
    <2>2. CASE crowd = 0
      BY <2>2 DEF SpendInv, CrowdOK, SpendIsBounded
    <2>3. CASE crowd # 0
      <3>1. /\ Reservation <= HardLimit
            /\ Spent + Potentials
                  <= HardLimit - Reservation + PassCost + (crowd - 1) * WorkerCost
        BY <2>3 DEF SpendInv, CrowdOK
      <3>2. HardLimit - Reservation + PassCost + (crowd - 1) * WorkerCost \in Int
        BY <2>1, <3>1, PassCosts, WorkerCosts
      <3>. DEFINE most == HardLimit - Reservation + PassCost + (crowd - 1) * WorkerCost
      <3>. HIDE DEF most
      <3>3. most \in Int /\ Spent + Potentials <= most
        BY <3>1, <3>2 DEF most
      <3>4. Spent <= most
        BY <2>1, <3>3
      <3>. QED  BY <2>3, <3>4 DEF most, SpendIsBounded
    <2>. QED  BY <2>2, <2>3
  <1>. QED  BY <1>1, Invariant, SpendInvariant, PTL
=============================================================================
