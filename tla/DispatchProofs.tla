---------------------------- MODULE DispatchProofs ----------------------------
(***************************************************************************)
(* What overlapping dispatches, dying dispatches and refused launches      *)
(* cannot break, for any tasks, dependencies, limits and requests: the     *)
(* order of dependencies, one worker per task, that an assigned task has   *)
(* its worker launched, and the limit on what is spent and set aside.      *)
(***************************************************************************)
EXTENDS Dispatch, TotalsProofs

\* The status of a task with each status of the run it is assigned to.
Allowed == [
    absent    |-> {},
    queued    |-> {"assigned"},
    running   |-> {"in_progress"},
    succeeded |-> {"awaiting_verification", "completed", "failed"},
    failed    |-> {"failed"}]

\* A task and its run agree, and a task without a run has not been touched.
RowsOK ==
    \A t \in Tasks :
        IF assigned[t] = NoRun
          THEN status[t] \in {"absent", "pending"}
          ELSE assigned[t][1] = t /\ status[t] \in Allowed[runs[assigned[t]]]

\* A run is claimed once, when it is its task's; only then does it leave "queued".
ClaimsOK ==
    \A r \in RunIds :
        /\ claims[r] \in {0, 1}
        /\ runs[r] \in {"absent", "queued"} => claims[r] = 0
        /\ runs[r] \notin {"absent", "queued"} => assigned[r[1]] = r

\* A dispatch inserts its run of a task once: before that there is none.
FreshOK ==
    \A d \in Dispatches, t \in Tasks :
        disp[d].pc # "done" /\ (At(d, "new") \/ t \in disp[d].todo) =>
            /\ assigned[t] # <<t, d>>
            /\ runs[<<t, d>>] = "absent" \/ (At(d, "undo") /\ IsNext(d, t))

DepsDone(t) == \A i \in DependencyIds[t] : i \in Tasks /\ status[i] = "completed"

\* What a dispatch has selected stays eligible as far as its dependencies go.
TodoOK == \A d \in Dispatches : \A t \in disp[d].todo : DepsDone(t)

IInv ==
    TypeOK /\ RowsOK /\ ClaimsOK /\ FreshOK /\ TodoOK
        /\ DependenciesFirst /\ AssignedIsLaunched

-----------------------------------------------------------------------------

\* A run is its task and its dispatch.
LEMMA RunIdFacts ==
    /\ \A r \in RunIds : r[1] \in Tasks /\ r[2] \in Dispatches /\ r = <<r[1], r[2]>> /\ r # NoRun
    /\ \A t \in Tasks, d \in Dispatches :
          <<t, d>> \in RunIds /\ <<t, d>>[1] = t /\ <<t, d>>[2] = d
BY DEF RunIds, NoRun

\* The tasks come one at a time.
LEMMA OneIsNext ==
    ASSUME TypeOK, NEW d \in Dispatches, NEW t, NEW u, IsNext(d, t), IsNext(d, u)
    PROVE  t = u
<1>1. t \in Tasks /\ u \in Tasks
  BY DEF TypeOK, DispatchRow, IsNext
<1>2. t \in Nat /\ u \in Nat
  BY <1>1, DispatchAssumption
<1>3. ~(t < u) /\ ~(u < t)
  BY DEF IsNext, Before
<1> QED
  BY <1>2, <1>3

\* Amounts of money are natural numbers.
LEMMA AtLeastZeroType ==
    ASSUME NEW n \in Int PROVE AtLeastZero(n) \in Nat
BY DEF AtLeastZero

LEMMA ReservationType ==
    ASSUME NEW t \in Tasks PROVE Reservation(t) \in Nat
BY DispatchAssumption DEF Reservation, SelectCodingModel

\* Before anything was dispatched the invariant holds.
LEMMA InitIInv == Init => IInv
<1> SUFFICES ASSUME Init PROVE IInv
  OBVIOUS
<1>1. TypeOK
  BY DispatchAssumption DEF Init, TypeOK, DispatchRow, Snapshot, NothingSeen, TaskStatus, RunStatus, PC
<1>2. RowsOK /\ ClaimsOK /\ TodoOK /\ DependenciesFirst /\ AssignedIsLaunched
  BY DEF Init, RowsOK, ClaimsOK, TodoOK, DependenciesFirst, AssignedIsLaunched
<1>3. FreshOK
  BY RunIdFacts DEF Init, FreshOK, NoRun
<1> QED
  BY <1>1, <1>2, <1>3 DEF IInv

-----------------------------------------------------------------------------
(* The steps of a dispatch                                                 *)

\* What is said of the rows alone is kept by whatever leaves them alone.
LEMMA RowsKept ==
    ASSUME IInv, UNCHANGED <<store, claims>>
    PROVE  RowsOK' /\ ClaimsOK' /\ DependenciesFirst'
BY DEF IInv, store, RowsOK, ClaimsOK, DependenciesFirst

\* ... and the dependencies of the tasks by whatever leaves completed ones completed.
LEMMA DependenciesKept ==
    ASSUME IInv, \A t \in Tasks : status[t] = "completed" => status'[t] = "completed"
    PROVE  /\ \A t \in Tasks : DepsDone(t) => DepsDone(t)'
           /\ disp' = disp => TodoOK'
           /\ assigned' = assigned => DependenciesFirst'
<1>1. \A t \in Tasks : DepsDone(t) => DepsDone(t)'
  BY DEF DepsDone
<1>2. ASSUME disp' = disp PROVE TodoOK'
  BY <1>1, <1>2 DEF IInv, TypeOK, DispatchRow, TodoOK
<1>3. ASSUME assigned' = assigned PROVE DependenciesFirst'
  BY <1>3 DEF IInv, DependenciesFirst
<1> QED
  BY <1>1, <1>2, <1>3

LEMMA ReadTasksStep ==
    ASSUME IInv, NEW d \in Dispatches, ReadTasks(d)
    PROVE  IInv'
<1> DEFINE snap == [status |-> status, assigned |-> assigned]
<1>1. PICK launch \in Launching, sel \in SUBSET Eligible(snap) :
          disp' = [disp EXCEPT ![d] =
             [@ EXCEPT !.pc = IF CodingBudgetGate /\ sel # {} THEN "ledger" ELSE "assign",
                       !.launch = launch, !.seen = snap, !.todo = sel]]
  BY DEF ReadTasks, SelectIndependent
<1>2. At(d, "new") /\ UNCHANGED <<status, assigned, runs, spent, launched, faults, claims, missed, overlap>>
  BY DEF ReadTasks, store
<1>3. \A t \in sel : t \in Tasks /\ DepsDone(t)
  BY DEF Eligible, IsTaskEligible, AreDependenciesSatisfied, DepsDone
<1>4. launch \in BOOLEAN /\ snap \in Snapshot /\ sel \in SUBSET Tasks
  BY <1>3, DispatchAssumption DEF IInv, TypeOK, Snapshot
<1>5. TypeOK'
  <2> DEFINE row == [disp[d] EXCEPT
                        !.pc = IF CodingBudgetGate /\ sel # {} THEN "ledger" ELSE "assign",
                        !.launch = launch, !.seen = snap, !.todo = sel]
  <2>1. disp[d] \in DispatchRow
    BY DEF IInv, TypeOK
  <2> HIDE DEF snap
  <2>2. row \in DispatchRow
    BY <2>1, <1>4 DEF DispatchRow, PC
  <2>3. disp' = [disp EXCEPT ![d] = row]
    BY <1>1
  <2> HIDE DEF row
  <2>4. disp' \in [Dispatches -> DispatchRow]
    BY <2>2, <2>3 DEF IInv, TypeOK
  <2> QED
    BY <2>4, <1>2 DEF IInv, TypeOK
<1>6. RowsOK' /\ ClaimsOK' /\ DependenciesFirst'
  BY <1>2, RowsKept DEF store
<1>7. disp'[d].pc \in {"ledger", "assign"} /\ disp'[d].todo = sel /\ disp'[d].got = disp[d].got
  BY <1>1 DEF IInv, TypeOK, DispatchRow
<1>8. \A c \in Dispatches \ {d} : disp'[c] = disp[c]
  BY <1>1 DEF IInv, TypeOK
<1>9. FreshOK'
  <2> SUFFICES ASSUME NEW c \in Dispatches, NEW t \in Tasks,
                      disp'[c].pc # "done", At(c, "new")' \/ t \in disp'[c].todo
               PROVE  /\ assigned'[t] # <<t, c>>
                      /\ runs'[<<t, c>>] = "absent" \/ (At(c, "undo")' /\ IsNext(c, t)')
    BY DEF FreshOK, At
  <2>1. CASE c = d
    BY <2>1, <1>2, <1>7 DEF IInv, FreshOK, At
  <2>2. CASE c # d
    BY <2>2, <1>2, <1>8 DEF IInv, FreshOK, At, IsNext
  <2> QED
    BY <2>1, <2>2
<1>10. TodoOK'
  <2>1. \A t \in Tasks : DepsDone(t) => DepsDone(t)'
    BY <1>2, DependenciesKept
  <2> QED
    BY <2>1, <1>3, <1>7, <1>8 DEF IInv, TodoOK, TypeOK, DispatchRow
<1>11. AssignedIsLaunched'
  BY <1>2, <1>7, <1>8 DEF IInv, AssignedIsLaunched, At
<1> QED
  BY <1>5, <1>6, <1>9, <1>10, <1>11 DEF IInv

\* A dispatch that goes on with no more than it had, and has not given up a run.
LEMMA NarrowerStep ==
    ASSUME IInv, TypeOK', NEW d \in Dispatches,
           UNCHANGED <<status, assigned, runs, launched, faults, claims>>,
           ~At(d, "new"), disp'[d].pc # "new", At(d, "undo") => At(d, "undo")',
           disp'[d].todo \subseteq disp[d].todo,
           At(d, "undo") => disp'[d].todo = disp[d].todo,
           disp[d].got \subseteq disp'[d].got, disp'[d].launch = disp[d].launch,
           disp'[d].pc = "done" => ~disp[d].launch \/ disp[d].got = {},
           disp[d].pc # "done",
           \A c \in Dispatches \ {d} : disp'[c] = disp[c]
    PROVE  IInv'
<1>1. RowsOK' /\ ClaimsOK' /\ DependenciesFirst'
  BY DEF IInv, RowsOK, ClaimsOK, DependenciesFirst
<1>2. FreshOK'
  <2> SUFFICES ASSUME NEW c \in Dispatches, NEW t \in Tasks,
                      disp'[c].pc # "done", At(c, "new")' \/ t \in disp'[c].todo
               PROVE  /\ assigned'[t] # <<t, c>>
                      /\ runs'[<<t, c>>] = "absent" \/ (At(c, "undo")' /\ IsNext(c, t)')
    BY DEF FreshOK, At
  <2>1. CASE c = d
    BY <2>1 DEF IInv, FreshOK, At, IsNext
  <2>2. CASE c # d
    BY <2>2 DEF IInv, FreshOK, At, IsNext
  <2> QED
    BY <2>1, <2>2
<1>3. TodoOK'
  <2>1. \A t \in Tasks : DepsDone(t) => DepsDone(t)'
    BY DependenciesKept
  <2> QED
    BY <2>1 DEF IInv, TodoOK, TypeOK, DispatchRow
<1>4. AssignedIsLaunched'
  <2> SUFFICES ASSUME NEW t \in Tasks, assigned[t] # NoRun, runs[assigned[t]] = "queued",
                      ~(launched[assigned[t]] > 0), ~(faults > 0)
               PROVE  \E c \in Dispatches :
                         assigned[t] \in disp'[c].got /\ (disp'[c].pc # "done" \/ ~disp'[c].launch)
    BY DEF AssignedIsLaunched
  <2>1. PICK c \in Dispatches :
            assigned[t] \in disp[c].got /\ (disp[c].pc # "done" \/ ~disp[c].launch)
    BY DEF IInv, AssignedIsLaunched
  <2>2. CASE c = d
    BY <2>1, <2>2
  <2>3. CASE c # d
    BY <2>1, <2>3
  <2> QED
    BY <2>2, <2>3
<1> QED
  BY <1>1, <1>2, <1>3, <1>4 DEF IInv

LEMMA ReadLedgerStep ==
    ASSUME IInv, NEW d \in Dispatches, ReadLedger(d)
    PROVE  IInv'
<1>1. /\ At(d, "ledger")
      /\ UNCHANGED <<status, assigned, runs, spent, launched, faults, claims, missed, overlap>>
  BY DEF ReadLedger, store
<1>2. disp \in [Dispatches -> DispatchRow]
  BY DEF IInv, TypeOK
<1>3. /\ disp' \in [Dispatches -> DispatchRow]
      /\ disp'[d].pc \in {"assign", "runs"} /\ disp'[d].todo \subseteq disp[d].todo
      /\ disp'[d].got = disp[d].got /\ disp'[d].launch = disp[d].launch
      /\ \A c \in Dispatches \ {d} : disp'[c] = disp[c]
  <2>1. CASE HardLimit = 0
    <3>1. disp' = [disp EXCEPT ![d].pc = "assign", ![d].todo = {}]
      BY <2>1 DEF ReadLedger
    <3>2. disp[d] \in DispatchRow
      BY <1>2
    <3>3. [disp[d] EXCEPT !.pc = "assign", !.todo = {}] \in DispatchRow
      BY <3>2 DEF DispatchRow, PC
    <3>4. disp' = [disp EXCEPT ![d] = [disp[d] EXCEPT !.pc = "assign", !.todo = {}]]
      BY <1>2, <3>1
    <3>5. disp' \in [Dispatches -> DispatchRow]
      BY <1>2, <3>3, <3>4
    <3> QED
      BY <1>2, <3>2, <3>4, <3>5 DEF DispatchRow
  <2>2. CASE HardLimit # 0
    <3>1. PICK available \in 0 .. HardLimit :
              disp' = [disp EXCEPT ![d].pc = "runs", ![d].available = available]
      BY <2>2 DEF ReadLedger
    <3>2. available \in Nat
      BY DispatchAssumption
    <3>3. disp[d] \in DispatchRow
      BY <1>2
    <3>4. [disp[d] EXCEPT !.pc = "runs", !.available = available] \in DispatchRow
      BY <3>2, <3>3 DEF DispatchRow, PC
    <3>5. disp' = [disp EXCEPT ![d] = [disp[d] EXCEPT !.pc = "runs", !.available = available]]
      BY <1>2, <3>1
    <3>6. disp' \in [Dispatches -> DispatchRow]
      BY <1>2, <3>4, <3>5
    <3> QED
      BY <1>2, <3>3, <3>5, <3>6 DEF DispatchRow
  <2> QED
    BY <2>1, <2>2
<1>4. TypeOK'
  BY <1>1, <1>3 DEF IInv, TypeOK
<1> QED
  BY <1>1, <1>3, <1>4, NarrowerStep DEF At

LEMMA ReadRunsStep ==
    ASSUME IInv, NEW d \in Dispatches, ReadRuns(d)
    PROVE  IInv'
<1>1. /\ At(d, "runs")
      /\ UNCHANGED <<status, assigned, runs, spent, launched, faults, claims, missed, overlap>>
  BY DEF ReadRuns, store
<1>2. PICK available \in 0 .. disp[d].available, sel \in SUBSET disp[d].todo :
          disp' = [disp EXCEPT ![d].pc = "assign", ![d].available = available, ![d].todo = sel]
  BY DEF ReadRuns, WithinBudget
<1> DEFINE row == [disp[d] EXCEPT !.pc = "assign", !.available = available, !.todo = sel]
<1>3. disp[d] \in DispatchRow /\ disp' = [disp EXCEPT ![d] = row]
  BY <1>2 DEF IInv, TypeOK
<1>4. row \in DispatchRow /\ row.pc = "assign" /\ row.todo \subseteq disp[d].todo
      /\ row.got = disp[d].got /\ row.launch = disp[d].launch
  <2>1. available \in Nat /\ sel \in SUBSET Tasks
    BY <1>3 DEF DispatchRow
  <2> QED
    BY <1>3, <2>1 DEF DispatchRow, PC
<1> HIDE DEF row
<1>5. /\ TypeOK'
      /\ disp'[d].pc = "assign" /\ disp'[d].todo \subseteq disp[d].todo
      /\ disp'[d].got = disp[d].got /\ disp'[d].launch = disp[d].launch
      /\ \A c \in Dispatches \ {d} : disp'[c] = disp[c]
  BY <1>1, <1>3, <1>4 DEF IInv, TypeOK
<1> QED
  BY <1>1, <1>5, NarrowerStep DEF At

LEMMA AssignedStep ==
    ASSUME IInv, NEW d \in Dispatches, Assigned(d)
    PROVE  IInv'
<1>1. /\ At(d, "assign")
      /\ UNCHANGED <<status, assigned, runs, spent, launched, faults, claims, missed, overlap>>
      /\ disp' = [disp EXCEPT ![d].pc = IF disp[d].launch THEN "launch" ELSE "done"]
  BY DEF Assigned, Goto, store
<1>2. /\ TypeOK'
      /\ disp'[d].pc = (IF disp[d].launch THEN "launch" ELSE "done")
      /\ disp'[d].todo = disp[d].todo
      /\ disp'[d].got = disp[d].got /\ disp'[d].launch = disp[d].launch
      /\ \A c \in Dispatches \ {d} : disp'[c] = disp[c]
  BY <1>1 DEF IInv, TypeOK, DispatchRow, PC
<1> QED
  BY <1>1, <1>2, NarrowerStep DEF At

LEMMA AssignStep ==
    ASSUME IInv, NEW d \in Dispatches, NEW t \in Tasks, Assign(d, t)
    PROVE  IInv'
<1>1. /\ At(d, "assign")
      /\ UNCHANGED <<status, assigned, runs, spent, launched, faults, claims, missed, overlap>>
  BY DEF Assign, store
<1>2. CASE assigned[t] = NoRun /\ status[t] = "pending"
  <2>1. disp' = [disp EXCEPT ![d].pc = "insert"]
    BY <1>2 DEF Assign, Goto
  <2>2. /\ TypeOK'
        /\ disp'[d].pc = "insert" /\ disp'[d].todo = disp[d].todo
        /\ disp'[d].got = disp[d].got /\ disp'[d].launch = disp[d].launch
        /\ \A c \in Dispatches \ {d} : disp'[c] = disp[c]
    BY <1>1, <2>1 DEF IInv, TypeOK, DispatchRow, PC
  <2> QED
    BY <1>1, <2>2, NarrowerStep DEF At
<1>3. CASE ~(assigned[t] = NoRun /\ status[t] = "pending")
  <2> DEFINE got == IF assigned[t] = NoRun THEN disp[d].got ELSE disp[d].got \cup {assigned[t]}
  <2>1. disp' = [disp EXCEPT ![d].todo = @ \ {t}, ![d].got = got]
    BY <1>3 DEF Assign
  <2>2. got \in SUBSET RunIds /\ disp[d].got \subseteq got
    BY DEF IInv, TypeOK, DispatchRow
  <2> HIDE DEF got
  <2>3. disp \in [Dispatches -> DispatchRow]
    BY DEF IInv, TypeOK
  <2>4. disp' \in [Dispatches -> DispatchRow]
    <3>1. /\ disp[d] \in DispatchRow
          /\ disp[d].todo \ {t} \in SUBSET Tasks
      BY <2>3 DEF DispatchRow
    <3>2. [disp[d] EXCEPT !.todo = @ \ {t}, !.got = got] \in DispatchRow
      BY <2>2, <3>1 DEF DispatchRow
    <3>3. disp' = [disp EXCEPT ![d] = [disp[d] EXCEPT !.todo = @ \ {t}, !.got = got]]
      BY <2>1, <2>3
    <3> QED
      BY <2>3, <3>2, <3>3
  <2>5. TypeOK'
    BY <1>1, <2>4 DEF IInv, TypeOK
  <2>6. /\ disp'[d].pc = disp[d].pc /\ disp'[d].todo \subseteq disp[d].todo
        /\ disp[d].got \subseteq disp'[d].got /\ disp'[d].launch = disp[d].launch
        /\ \A c \in Dispatches \ {d} : disp'[c] = disp[c]
    BY <2>1, <2>2, <2>3 DEF DispatchRow
  <2> QED
    BY <1>1, <2>5, <2>6, NarrowerStep DEF At
<1> QED
  BY <1>2, <1>3

LEMMA RereadTaskStep ==
    ASSUME IInv, NEW d \in Dispatches, NEW t \in Tasks, RereadTask(d, t)
    PROVE  IInv'
<1>1. /\ At(d, "reread")
      /\ UNCHANGED <<status, assigned, runs, spent, launched, faults, claims, missed, overlap>>
  BY DEF RereadTask, store
<1> DEFINE got == IF assigned[t] = NoRun THEN disp[d].got ELSE disp[d].got \cup {assigned[t]}
<1>2. disp' = [disp EXCEPT ![d].pc = "assign", ![d].todo = @ \ {t}, ![d].got = got]
  BY DEF RereadTask
<1>3. got \in SUBSET RunIds /\ disp[d].got \subseteq got
  BY DEF IInv, TypeOK, DispatchRow
<1> HIDE DEF got
<1>4. disp \in [Dispatches -> DispatchRow]
  BY DEF IInv, TypeOK
<1>5. disp' \in [Dispatches -> DispatchRow]
  <2>1. /\ disp[d] \in DispatchRow
        /\ disp[d].todo \ {t} \in SUBSET Tasks
    BY <1>4 DEF DispatchRow
  <2>2. [disp[d] EXCEPT !.pc = "assign", !.todo = @ \ {t}, !.got = got] \in DispatchRow
    BY <1>3, <2>1 DEF DispatchRow, PC
  <2>3. disp' = [disp EXCEPT ![d] = [disp[d] EXCEPT !.pc = "assign", !.todo = @ \ {t}, !.got = got]]
    BY <1>2, <1>4
  <2> QED
    BY <1>4, <2>2, <2>3
<1>6. TypeOK'
  BY <1>1, <1>5 DEF IInv, TypeOK
<1>7. /\ disp'[d].pc = "assign" /\ disp'[d].todo \subseteq disp[d].todo
      /\ disp[d].got \subseteq disp'[d].got /\ disp'[d].launch = disp[d].launch
      /\ \A c \in Dispatches \ {d} : disp'[c] = disp[c]
  BY <1>2, <1>3, <1>4 DEF DispatchRow
<1> QED
  BY <1>1, <1>6, <1>7, NarrowerStep DEF At

LEMMA RespondStep ==
    ASSUME IInv, NEW d \in Dispatches, Respond(d)
    PROVE  IInv'
<1>1. /\ At(d, "launch") /\ disp[d].got = {}
      /\ UNCHANGED <<status, assigned, runs, spent, launched, faults, claims, missed, overlap>>
      /\ disp' = [disp EXCEPT ![d].pc = "done"]
  BY DEF Respond, Goto, store
<1>2. /\ TypeOK'
      /\ disp'[d].pc = "done" /\ disp'[d].todo = disp[d].todo
      /\ disp'[d].got = disp[d].got /\ disp'[d].launch = disp[d].launch
      /\ \A c \in Dispatches \ {d} : disp'[c] = disp[c]
  BY <1>1 DEF IInv, TypeOK, DispatchRow, PC
<1> QED
  BY <1>1, <1>2, NarrowerStep DEF At

LEMMA LaunchStep ==
    ASSUME IInv, NEW d \in Dispatches, NEW r \in RunIds, NEW delivered \in BOOLEAN,
           Launch(d, r, delivered)
    PROVE  IInv'
<1>1. /\ At(d, "launch") /\ r \in disp[d].got
      /\ UNCHANGED <<status, assigned, runs, spent, claims, missed, overlap>>
      /\ disp' = [disp EXCEPT ![d].got = @ \ {r}]
  BY DEF Launch, store
<1>2. \/ launched' = [launched EXCEPT ![r] = @ + 1] /\ faults' = faults
      \/ launched' = launched /\ faults' = faults + 1 /\ faults < MaxFaults
  BY DEF Launch
<1>3. /\ disp' \in [Dispatches -> DispatchRow]
      /\ disp'[d].pc = "launch" /\ disp'[d].todo = disp[d].todo
      /\ disp'[d].got = disp[d].got \ {r}
      /\ \A c \in Dispatches \ {d} : disp'[c] = disp[c]
  BY <1>1 DEF IInv, TypeOK, DispatchRow, At
<1>4. launched' \in [RunIds -> Nat] /\ faults' \in 0 .. MaxFaults
  BY <1>2, DispatchAssumption DEF IInv, TypeOK
<1>5. TypeOK'
  BY <1>1, <1>3, <1>4 DEF IInv, TypeOK
<1>6. RowsOK' /\ ClaimsOK' /\ DependenciesFirst'
  BY <1>1 DEF IInv, RowsOK, ClaimsOK, DependenciesFirst
<1>7. FreshOK'
  <2> SUFFICES ASSUME NEW c \in Dispatches, NEW t \in Tasks,
                      disp'[c].pc # "done", At(c, "new")' \/ t \in disp'[c].todo
               PROVE  /\ assigned'[t] # <<t, c>>
                      /\ runs'[<<t, c>>] = "absent" \/ (At(c, "undo")' /\ IsNext(c, t)')
    BY DEF FreshOK, At
  <2>1. CASE c = d
    BY <2>1, <1>1, <1>3 DEF IInv, FreshOK, At, IsNext
  <2>2. CASE c # d
    BY <2>2, <1>1, <1>3 DEF IInv, FreshOK, At, IsNext
  <2> QED
    BY <2>1, <2>2
<1>8. TodoOK'
  <2>1. \A t \in Tasks : DepsDone(t) => DepsDone(t)'
    BY <1>1, DependenciesKept
  <2> QED
    BY <2>1, <1>3 DEF IInv, TodoOK, TypeOK, DispatchRow
<1>9. AssignedIsLaunched'
  <2> SUFFICES ASSUME NEW t \in Tasks, assigned[t] # NoRun, runs[assigned[t]] = "queued",
                      ~(launched'[assigned[t]] > 0), ~(faults' > 0)
               PROVE  \E c \in Dispatches :
                         assigned[t] \in disp'[c].got /\ (disp'[c].pc # "done" \/ ~disp'[c].launch)
    BY <1>1 DEF AssignedIsLaunched
  <2>1. assigned[t] \in RunIds /\ launched[r] \in Nat /\ launched[assigned[t]] \in Nat /\ faults \in Nat
    BY DispatchAssumption DEF IInv, TypeOK
  <2>2. launched' = [launched EXCEPT ![r] = @ + 1] /\ faults' = faults
    BY <1>2, <2>1
  <2>3. assigned[t] # r /\ launched'[assigned[t]] = launched[assigned[t]]
    BY <2>1, <2>2 DEF IInv, TypeOK
  <2>4. PICK c \in Dispatches :
            assigned[t] \in disp[c].got /\ (disp[c].pc # "done" \/ ~disp[c].launch)
    BY <2>2, <2>3 DEF IInv, AssignedIsLaunched
  <2>5. CASE c = d
    BY <2>3, <2>5, <2>4, <1>3
  <2>6. CASE c # d
    BY <2>4, <2>6, <1>3
  <2> QED
    BY <2>5, <2>6
<1> QED
  BY <1>5, <1>6, <1>7, <1>8, <1>9 DEF IInv

LEMMA DispatchDiesStep ==
    ASSUME IInv, NEW d \in Dispatches, DispatchDies(d)
    PROVE  IInv'
<1>1. /\ UNCHANGED <<status, assigned, runs, spent, launched, claims, missed, overlap>>
      /\ faults' = faults + 1 /\ faults < MaxFaults
      /\ disp' = [disp EXCEPT ![d].pc = "done"]
  BY DEF DispatchDies, Goto, store
<1>2. /\ disp' \in [Dispatches -> DispatchRow]
      /\ disp'[d].pc = "done" /\ disp'[d].todo = disp[d].todo
      /\ \A c \in Dispatches \ {d} : disp'[c] = disp[c]
  BY <1>1 DEF IInv, TypeOK, DispatchRow, PC
<1>3. faults' \in 0 .. MaxFaults /\ faults' > 0
  BY <1>1, DispatchAssumption DEF IInv, TypeOK
<1>4. TypeOK'
  BY <1>1, <1>2, <1>3 DEF IInv, TypeOK
<1>5. RowsOK' /\ ClaimsOK' /\ DependenciesFirst'
  BY <1>1 DEF IInv, RowsOK, ClaimsOK, DependenciesFirst
<1>6. FreshOK'
  <2> SUFFICES ASSUME NEW c \in Dispatches, NEW t \in Tasks,
                      disp'[c].pc # "done", At(c, "new")' \/ t \in disp'[c].todo
               PROVE  /\ assigned'[t] # <<t, c>>
                      /\ runs'[<<t, c>>] = "absent" \/ (At(c, "undo")' /\ IsNext(c, t)')
    BY DEF FreshOK, At
  <2>1. c # d
    BY <1>2
  <2> QED
    BY <2>1, <1>1, <1>2 DEF IInv, FreshOK, At, IsNext
<1>7. TodoOK'
  <2>1. \A t \in Tasks : DepsDone(t) => DepsDone(t)'
    BY <1>1, DependenciesKept
  <2> QED
    BY <2>1, <1>2 DEF IInv, TodoOK, TypeOK, DispatchRow
<1>8. AssignedIsLaunched'
  BY <1>3 DEF AssignedIsLaunched
<1> QED
  BY <1>4, <1>5, <1>6, <1>7, <1>8 DEF IInv

-----------------------------------------------------------------------------
(* The race for a task                                                     *)

LEMMA InsertRunStep ==
    ASSUME IInv, NEW d \in Dispatches, NEW t \in Tasks, InsertRun(d, t)
    PROVE  IInv'
<1> DEFINE r == <<t, d>>
<1>1. /\ At(d, "insert") /\ IsNext(d, t)
      /\ runs' = [runs EXCEPT ![r] = "queued"]
      /\ UNCHANGED <<spent, launched, faults, claims, missed, overlap>>
  BY DEF InsertRun
<1>2. r \in RunIds /\ r[1] = t /\ r # NoRun /\ t \in disp[d].todo
  BY <1>1, RunIdFacts DEF IsNext
<1>3. assigned[t] # r /\ runs[r] = "absent" /\ claims[r] = 0
  BY <1>1, <1>2 DEF IInv, FreshOK, ClaimsOK, At
<1>4. \A s \in RunIds : s # r => runs'[s] = runs[s]
  BY <1>1 DEF IInv, TypeOK
<1>5. runs'[r] = "queued" /\ runs' \in [RunIds -> RunStatus]
  BY <1>1, <1>2 DEF IInv, TypeOK, RunStatus
\* no task has been assigned the run before it was inserted
<1>6. \A u \in Tasks : assigned[u] # r
  BY <1>2, <1>3 DEF IInv, RowsOK
<1> HIDE DEF r
<1>7. CASE assigned[t] = NoRun /\ status[t] = "pending"
  <2>1. /\ assigned' = [assigned EXCEPT ![t] = r]
        /\ status' = [status EXCEPT ![t] = "assigned"]
        /\ disp' = [disp EXCEPT ![d].pc = "assign", ![d].todo = @ \ {t}, ![d].got = @ \cup {r}]
    BY <1>7 DEF InsertRun, r
  <2>2. /\ disp' \in [Dispatches -> DispatchRow]
        /\ disp'[d].pc = "assign" /\ disp'[d].todo = disp[d].todo \ {t}
        /\ disp'[d].got = disp[d].got \cup {r}
        /\ \A c \in Dispatches \ {d} : disp'[c] = disp[c]
    BY <1>2, <2>1 DEF IInv, TypeOK, DispatchRow, PC
  <2>3. /\ assigned' \in [Tasks -> RunIds \cup {NoRun}] /\ assigned'[t] = r
        /\ status' \in [Tasks -> TaskStatus] /\ status'[t] = "assigned"
        /\ \A u \in Tasks \ {t} : assigned'[u] = assigned[u] /\ status'[u] = status[u]
    BY <1>2, <2>1 DEF IInv, TypeOK, TaskStatus
  <2>4. TypeOK'
    BY <1>1, <1>5, <2>2, <2>3 DEF IInv, TypeOK
  <2>5. RowsOK'
    <3> SUFFICES ASSUME NEW u \in Tasks
                 PROVE  IF assigned'[u] = NoRun
                          THEN status'[u] \in {"absent", "pending"}
                          ELSE assigned'[u][1] = u /\ status'[u] \in Allowed[runs'[assigned'[u]]]
      BY DEF RowsOK
    <3>1. CASE u = t
      BY <3>1, <1>2, <1>5, <2>3 DEF Allowed
    <3>2. CASE u # t
      <4>1. assigned[u] = NoRun \/ (assigned[u] \in RunIds /\ runs'[assigned[u]] = runs[assigned[u]])
        BY <1>4, <1>6 DEF IInv, TypeOK
      <4> QED
        BY <3>2, <4>1, <2>3 DEF IInv, RowsOK
    <3> QED
      BY <3>1, <3>2
  <2>6. ClaimsOK'
    <3> SUFFICES ASSUME NEW s \in RunIds
                 PROVE  /\ claims[s] \in {0, 1}
                        /\ runs'[s] \in {"absent", "queued"} => claims[s] = 0
                        /\ runs'[s] \notin {"absent", "queued"} => assigned'[s[1]] = s
      BY <1>1 DEF ClaimsOK
    <3>1. CASE s = r
      BY <3>1, <1>3, <1>5
    <3>2. CASE s # r
      <4>1. s[1] \in Tasks /\ s # NoRun
        BY RunIdFacts
      <4>2. runs[s] \notin {"absent", "queued"} => s[1] # t
        BY <4>1, <1>7 DEF IInv, ClaimsOK
      <4> QED
        BY <3>2, <4>1, <4>2, <1>4, <2>3 DEF IInv, ClaimsOK
    <3> QED
      BY <3>1, <3>2
  <2>7. FreshOK'
    <3> SUFFICES ASSUME NEW c \in Dispatches, NEW u \in Tasks,
                        disp'[c].pc # "done", At(c, "new")' \/ u \in disp'[c].todo
                 PROVE  /\ assigned'[u] # <<u, c>>
                        /\ runs'[<<u, c>>] = "absent" \/ (At(c, "undo")' /\ IsNext(c, u)')
      BY DEF FreshOK, At
    <3>1. CASE c = d
      <4>1. u \in disp[d].todo /\ u # t
        BY <3>1, <2>2 DEF At
      <4>2. <<u, d>> \in RunIds /\ <<u, d>> # r
        BY <4>1, RunIdFacts DEF r
      <4> QED
        BY <3>1, <4>1, <4>2, <1>1, <1>4, <2>3 DEF IInv, FreshOK, At
    <3>2. CASE c # d
      <4>1. <<u, c>> \in RunIds /\ <<u, c>> # r
        BY <3>2, RunIdFacts DEF r
      <4>2. assigned[u] # <<u, c>>
            /\ (runs[<<u, c>>] = "absent" \/ (At(c, "undo") /\ IsNext(c, u)))
        BY <3>2, <2>2 DEF IInv, FreshOK, At
      <4> QED
        BY <3>2, <4>1, <4>2, <1>4, <2>2, <2>3 DEF At, IsNext
    <3> QED
      BY <3>1, <3>2
  <2>8. \A u \in Tasks : status[u] = "completed" => status'[u] = "completed"
    BY <1>7, <2>3
  <2>9. TodoOK'
    <3>1. \A u \in Tasks : DepsDone(u) => DepsDone(u)'
      BY <2>8, DependenciesKept
    <3> QED
      BY <3>1, <2>2 DEF IInv, TodoOK, TypeOK, DispatchRow
  <2>10. DependenciesFirst'
    <3> SUFFICES ASSUME NEW u \in Tasks, assigned'[u] # NoRun
                 PROVE  DepsDone(u)'
      BY DEF DependenciesFirst, DepsDone
    <3>1. DepsDone(u)
      BY <1>2, <2>3 DEF IInv, DependenciesFirst, TodoOK, DepsDone
    <3> QED
      BY <3>1, <2>8, DependenciesKept
  <2>11. AssignedIsLaunched'
    <3> SUFFICES ASSUME NEW u \in Tasks, assigned'[u] # NoRun, runs'[assigned'[u]] = "queued",
                        ~(launched[assigned'[u]] > 0), ~(faults > 0)
                 PROVE  \E c \in Dispatches :
                           assigned'[u] \in disp'[c].got /\ (disp'[c].pc # "done" \/ ~disp'[c].launch)
      BY <1>1 DEF AssignedIsLaunched
    <3>1. CASE u = t
      BY <3>1, <2>2, <2>3
    <3>2. CASE u # t
      <4>1. assigned'[u] = assigned[u] /\ assigned[u] \in RunIds /\ runs[assigned[u]] = "queued"
        BY <3>2, <1>4, <1>6, <2>3 DEF IInv, TypeOK
      <4>2. PICK c \in Dispatches :
                assigned[u] \in disp[c].got /\ (disp[c].pc # "done" \/ ~disp[c].launch)
        BY <4>1 DEF IInv, AssignedIsLaunched
      <4> QED
        BY <4>1, <4>2, <2>2
    <3> QED
      BY <3>1, <3>2
  <2> QED
    BY <2>4, <2>5, <2>6, <2>7, <2>9, <2>10, <2>11 DEF IInv
<1>8. CASE ~(assigned[t] = NoRun /\ status[t] = "pending")
  <2>1. UNCHANGED <<assigned, status>> /\ disp' = [disp EXCEPT ![d].pc = "undo"]
    BY <1>8 DEF InsertRun, Goto
  <2>2. /\ disp' \in [Dispatches -> DispatchRow]
        /\ disp'[d].pc = "undo" /\ disp'[d].todo = disp[d].todo
        /\ disp'[d].got = disp[d].got
        /\ \A c \in Dispatches \ {d} : disp'[c] = disp[c]
    BY <2>1 DEF IInv, TypeOK, DispatchRow, PC
  <2>3. TypeOK'
    BY <1>1, <1>5, <2>1, <2>2 DEF IInv, TypeOK
  <2>4. \A u \in Tasks : assigned[u] # NoRun => runs'[assigned[u]] = runs[assigned[u]]
    BY <1>4, <1>6 DEF IInv, TypeOK
  <2>5. RowsOK' /\ DependenciesFirst'
    BY <2>1, <2>4 DEF IInv, RowsOK, DependenciesFirst
  <2>6. ClaimsOK'
    BY <1>1, <1>3, <1>4, <1>5, <2>1 DEF IInv, ClaimsOK
  <2>7. FreshOK'
    <3> SUFFICES ASSUME NEW c \in Dispatches, NEW u \in Tasks,
                        disp'[c].pc # "done", At(c, "new")' \/ u \in disp'[c].todo
                 PROVE  /\ assigned[u] # <<u, c>>
                        /\ runs'[<<u, c>>] = "absent" \/ (At(c, "undo")' /\ IsNext(c, u)')
      BY <2>1 DEF FreshOK, At
    <3>1. CASE c = d /\ u = t
      BY <3>1, <1>1, <1>3, <2>2 DEF At, IsNext, r
    <3>2. CASE ~(c = d /\ u = t)
      <4>1. <<u, c>> \in RunIds /\ <<u, c>> # r
        BY <3>2, RunIdFacts DEF r
      <4>2. assigned[u] # <<u, c>>
            /\ (runs[<<u, c>>] = "absent" \/ (At(c, "undo") /\ IsNext(c, u)))
        BY <1>1, <2>2 DEF IInv, FreshOK, At
      <4> QED
        BY <4>1, <4>2, <1>1, <1>4, <2>2 DEF At, IsNext
    <3> QED
      BY <3>1, <3>2
  <2>8. TodoOK'
    <3>1. \A u \in Tasks : DepsDone(u) => DepsDone(u)'
      BY <2>1, DependenciesKept
    <3> QED
      BY <3>1, <2>2 DEF IInv, TodoOK, TypeOK, DispatchRow
  <2>9. AssignedIsLaunched'
    <3> SUFFICES ASSUME NEW u \in Tasks, assigned[u] # NoRun, runs'[assigned[u]] = "queued",
                        ~(launched[assigned[u]] > 0), ~(faults > 0)
                 PROVE  \E c \in Dispatches :
                           assigned[u] \in disp'[c].got /\ (disp'[c].pc # "done" \/ ~disp'[c].launch)
      BY <1>1, <2>1 DEF AssignedIsLaunched
    <3>1. PICK c \in Dispatches :
              assigned[u] \in disp[c].got /\ (disp[c].pc # "done" \/ ~disp[c].launch)
      BY <2>4 DEF IInv, AssignedIsLaunched
    <3> QED
      BY <3>1, <2>2
  <2> QED
    BY <2>3, <2>5, <2>6, <2>7, <2>8, <2>9 DEF IInv
<1> QED
  BY <1>7, <1>8

LEMMA UndoRunStep ==
    ASSUME IInv, NEW d \in Dispatches, NEW t \in Tasks, UndoRun(d, t)
    PROVE  IInv'
<1> DEFINE r == <<t, d>>
<1>1. /\ At(d, "undo") /\ IsNext(d, t)
      /\ runs' = [runs EXCEPT ![r] = "absent"]
      /\ disp' = [disp EXCEPT ![d].pc = "reread"]
      /\ UNCHANGED <<status, assigned, spent, launched, faults, claims, missed, overlap>>
  BY DEF UndoRun, Goto
<1>2. r \in RunIds /\ r[1] = t /\ r # NoRun /\ t \in disp[d].todo
  BY <1>1, RunIdFacts DEF IsNext
<1>3. assigned[t] # r
  BY <1>1, <1>2 DEF IInv, FreshOK, At
<1>4. \A s \in RunIds : s # r => runs'[s] = runs[s]
  BY <1>1 DEF IInv, TypeOK
<1>5. runs'[r] = "absent" /\ runs' \in [RunIds -> RunStatus]
  BY <1>1, <1>2 DEF IInv, TypeOK, RunStatus
<1>6. \A u \in Tasks : assigned[u] # r
  BY <1>2, <1>3 DEF IInv, RowsOK
<1>7. claims[r] = 0
  BY <1>2, <1>3 DEF IInv, ClaimsOK
<1>8. /\ disp' \in [Dispatches -> DispatchRow]
      /\ disp'[d].pc = "reread" /\ disp'[d].todo = disp[d].todo
      /\ disp'[d].got = disp[d].got
      /\ \A c \in Dispatches \ {d} : disp'[c] = disp[c]
  BY <1>1 DEF IInv, TypeOK, DispatchRow, PC
<1>9. TypeOK'
  BY <1>1, <1>5, <1>8 DEF IInv, TypeOK
<1>10. \A u \in Tasks : assigned[u] # NoRun => runs'[assigned[u]] = runs[assigned[u]]
  BY <1>4, <1>6 DEF IInv, TypeOK
<1>11. RowsOK' /\ DependenciesFirst'
  BY <1>1, <1>10 DEF IInv, RowsOK, DependenciesFirst
<1>12. ClaimsOK'
  BY <1>1, <1>4, <1>5, <1>7 DEF IInv, ClaimsOK
<1>13. FreshOK'
  <2> SUFFICES ASSUME NEW c \in Dispatches, NEW u \in Tasks,
                      disp'[c].pc # "done", At(c, "new")' \/ u \in disp'[c].todo
               PROVE  /\ assigned[u] # <<u, c>>
                      /\ runs'[<<u, c>>] = "absent" \/ (At(c, "undo")' /\ IsNext(c, u)')
    BY <1>1 DEF FreshOK, At
  <2>1. assigned[u] # <<u, c>>
        /\ (runs[<<u, c>>] = "absent" \/ (At(c, "undo") /\ IsNext(c, u)))
    BY <1>1, <1>8 DEF IInv, FreshOK, At
  <2>2. CASE c = d /\ u = t
    BY <2>1, <2>2, <1>5
  <2>3. CASE c = d /\ u # t
    <3>1. ~IsNext(d, u)
      BY <2>3, <1>1, OneIsNext DEF IInv
    <3>2. <<u, c>> \in RunIds /\ <<u, c>> # <<t, d>>
      BY <2>3, RunIdFacts
    <3> QED
      BY <2>1, <2>3, <3>1, <3>2, <1>4
  <2>4. CASE c # d
    <3>1. <<u, c>> \in RunIds /\ <<u, c>> # <<t, d>>
      BY <2>4, RunIdFacts
    <3> QED
      BY <2>1, <2>4, <3>1, <1>4, <1>8 DEF At, IsNext
  <2> QED
    BY <2>2, <2>3, <2>4
<1>14. TodoOK'
  <2>1. \A u \in Tasks : DepsDone(u) => DepsDone(u)'
    BY <1>1, DependenciesKept
  <2> QED
    BY <2>1, <1>8 DEF IInv, TodoOK, TypeOK, DispatchRow
<1>15. AssignedIsLaunched'
  <2> SUFFICES ASSUME NEW u \in Tasks, assigned[u] # NoRun, runs'[assigned[u]] = "queued",
                      ~(launched[assigned[u]] > 0), ~(faults > 0)
               PROVE  \E c \in Dispatches :
                         assigned[u] \in disp'[c].got /\ (disp'[c].pc # "done" \/ ~disp'[c].launch)
    BY <1>1 DEF AssignedIsLaunched
  <2>1. PICK c \in Dispatches :
            assigned[u] \in disp[c].got /\ (disp[c].pc # "done" \/ ~disp[c].launch)
    BY <1>10 DEF IInv, AssignedIsLaunched
  <2> QED
    BY <2>1, <1>8
<1> QED
  BY <1>9, <1>11, <1>12, <1>13, <1>14, <1>15 DEF IInv

-----------------------------------------------------------------------------
(* The workers and the rest of the project                                 *)

\* A step of others that keeps completed tasks, gives no task a run, moves only runs
\* that are assigned, and leaves no queued run without its worker.
LEMMA OthersStep ==
    ASSUME IInv, TypeOK', RowsOK', ClaimsOK',
           UNCHANGED <<assigned, disp, faults>>,
           \A t \in Tasks : status[t] = "completed" => status'[t] = "completed",
           \A r \in RunIds : runs'[r] # runs[r] => assigned[r[1]] = r,
           \A r \in RunIds : runs'[r] = "queued" =>
               runs[r] = "queued" /\ (launched[r] > 0 /\ assigned[r[1]] = r => launched'[r] > 0)
    PROVE  IInv'
<1>1. TodoOK' /\ DependenciesFirst'
  BY DependenciesKept
<1>2. FreshOK'
  <2> SUFFICES ASSUME NEW c \in Dispatches, NEW u \in Tasks,
                      disp[c].pc # "done", At(c, "new") \/ u \in disp[c].todo
               PROVE  /\ assigned[u] # <<u, c>>
                      /\ runs'[<<u, c>>] = "absent" \/ (At(c, "undo") /\ IsNext(c, u))
    BY DEF FreshOK, At, IsNext
  <2>1. assigned[u] # <<u, c>>
        /\ (runs[<<u, c>>] = "absent" \/ (At(c, "undo") /\ IsNext(c, u)))
    BY DEF IInv, FreshOK, At
  <2>2. <<u, c>> \in RunIds /\ <<u, c>>[1] = u
    BY RunIdFacts
  <2> QED
    BY <2>1, <2>2
<1>3. AssignedIsLaunched'
  <2> SUFFICES ASSUME NEW t \in Tasks, assigned[t] # NoRun, runs'[assigned[t]] = "queued",
                      ~(launched'[assigned[t]] > 0), ~(faults > 0)
               PROVE  \E c \in Dispatches :
                         assigned[t] \in disp[c].got /\ (disp[c].pc # "done" \/ ~disp[c].launch)
    BY DEF AssignedIsLaunched
  <2>1. assigned[t] \in RunIds /\ assigned[t][1] = t
    BY DEF IInv, TypeOK, RowsOK
  <2> QED
    BY <2>1 DEF IInv, AssignedIsLaunched
<1> QED
  BY <1>1, <1>2, <1>3 DEF IInv

LEMMA CreateTaskStep ==
    ASSUME IInv, NEW t \in Tasks, CreateTask(t)
    PROVE  IInv'
<1>1. /\ status[t] = "absent" /\ status' = [status EXCEPT ![t] = "pending"]
      /\ UNCHANGED <<assigned, runs, spent, disp, launched, faults, claims, missed, overlap>>
  BY DEF CreateTask
<1>2. TypeOK'
  BY <1>1 DEF IInv, TypeOK, TaskStatus
<1>3. assigned[t] = NoRun
  BY <1>1 DEF IInv, RowsOK, Allowed, TypeOK, RunStatus
<1>4. RowsOK'
  BY <1>1, <1>3 DEF IInv, RowsOK, TypeOK
<1>5. ClaimsOK'
  BY <1>1 DEF IInv, ClaimsOK
<1>6. \A u \in Tasks : status[u] = "completed" => status'[u] = "completed"
  BY <1>1 DEF IInv, TypeOK
<1> QED
  BY <1>1, <1>2, <1>4, <1>5, <1>6, OthersStep

LEMMA JudgeStep ==
    ASSUME IInv, NEW t \in Tasks, NEW verdict \in {"completed", "failed"}, Judge(t, verdict)
    PROVE  IInv'
<1>1. /\ status[t] = "awaiting_verification" /\ status' = [status EXCEPT ![t] = verdict]
      /\ UNCHANGED <<assigned, runs, spent, disp, launched, faults, claims, missed, overlap>>
  BY DEF Judge
<1>2. TypeOK'
  BY <1>1 DEF IInv, TypeOK, TaskStatus
<1>3. assigned[t] # NoRun /\ runs[assigned[t]] = "succeeded"
  BY <1>1 DEF IInv, RowsOK, Allowed, TypeOK, RunStatus
<1>4. RowsOK'
  BY <1>1, <1>3 DEF IInv, RowsOK, TypeOK, Allowed
<1>5. ClaimsOK'
  BY <1>1 DEF IInv, ClaimsOK
<1>6. \A u \in Tasks : status[u] = "completed" => status'[u] = "completed"
  BY <1>1 DEF IInv, TypeOK
<1> QED
  BY <1>1, <1>2, <1>4, <1>5, <1>6, OthersStep

\* A run that moves takes its task along.
LEMMA RunMoves ==
    ASSUME IInv, NEW r \in RunIds, assigned[r[1]] = r, NEW to \in RunStatus,
           NEW taskTo \in TaskStatus, taskTo \in Allowed[to],
           runs' = [runs EXCEPT ![r] = to], status' = [status EXCEPT ![r[1]] = taskTo],
           assigned' = assigned
    PROVE  /\ RowsOK'
           /\ \A s \in RunIds : s # r => runs'[s] = runs[s]
           /\ runs'[r] = to /\ status'[r[1]] = taskTo
           /\ \A t \in Tasks : t # r[1] => status'[t] = status[t]
<1>1. /\ \A s \in RunIds : s # r => runs'[s] = runs[s]
      /\ runs'[r] = to
      /\ \A t \in Tasks : t # r[1] => status'[t] = status[t]
  BY DEF IInv, TypeOK
<1>2. r[1] \in Tasks /\ status'[r[1]] = taskTo /\ r # NoRun
  BY RunIdFacts DEF IInv, TypeOK
<1>3. RowsOK'
  <2> SUFFICES ASSUME NEW t \in Tasks
               PROVE  IF assigned[t] = NoRun
                        THEN status'[t] \in {"absent", "pending"}
                        ELSE assigned[t][1] = t /\ status'[t] \in Allowed[runs'[assigned[t]]]
    BY DEF RowsOK
  <2>1. CASE t = r[1]
    BY <2>1, <1>1, <1>2
  <2>2. CASE t # r[1]
    <3>1. assigned[t] = NoRun \/ (assigned[t] \in RunIds /\ assigned[t] # r)
      BY <2>2 DEF IInv, RowsOK, TypeOK
    <3> QED
      BY <2>2, <3>1, <1>1 DEF IInv, RowsOK
  <2> QED
    BY <2>1, <2>2
<1> QED
  BY <1>1, <1>2, <1>3

LEMMA ClaimRunStep ==
    ASSUME IInv, NEW r \in RunIds, ClaimRun(r)
    PROVE  IInv'
<1>1. /\ launched[r] > 0 /\ launched' = [launched EXCEPT ![r] = @ - 1]
      /\ UNCHANGED <<assigned, spent, disp, faults, missed, overlap>>
  BY DEF ClaimRun
<1>2. launched' \in [RunIds -> Nat] /\ \A s \in RunIds : s # r => launched'[s] = launched[s]
  BY <1>1 DEF IInv, TypeOK
<1>3. CASE runs[r] = "queued" /\ assigned[r[1]] = r /\ status[r[1]] = "assigned"
  <2>1. /\ runs' = [runs EXCEPT ![r] = "running"]
        /\ status' = [status EXCEPT ![r[1]] = "in_progress"]
        /\ claims' = [claims EXCEPT ![r] = @ + 1]
    BY <1>3 DEF ClaimRun
  <2>2. claims[r] = 0
    BY <1>3 DEF IInv, ClaimsOK
  <2>3. claims'[r] = 1 /\ claims' \in [RunIds -> Nat] /\ \A s \in RunIds : s # r => claims'[s] = claims[s]
    BY <2>1, <2>2 DEF IInv, TypeOK
  <2>4. TypeOK'
    BY <1>1, <1>2, <2>1, <2>3 DEF IInv, TypeOK, TaskStatus, RunStatus
  <2>5. /\ RowsOK'
        /\ \A s \in RunIds : s # r => runs'[s] = runs[s]
        /\ runs'[r] = "running" /\ status'[r[1]] = "in_progress"
        /\ \A t \in Tasks : t # r[1] => status'[t] = status[t]
    <3>1. "in_progress" \in TaskStatus /\ "running" \in RunStatus /\ "in_progress" \in Allowed["running"]
      BY DEF TaskStatus, RunStatus, Allowed
    <3> QED
      BY <3>1, <1>1, <1>3, <2>1, RunMoves
  <2>6. ClaimsOK'
    BY <1>1, <1>3, <2>3, <2>5 DEF IInv, ClaimsOK
  <2>7. \A t \in Tasks : status[t] = "completed" => status'[t] = "completed"
    BY <1>3, <2>5
  <2> QED
    BY <1>1, <1>2, <1>3, <2>4, <2>5, <2>6, <2>7, OthersStep
<1>4. CASE ~(runs[r] = "queued" /\ assigned[r[1]] = r /\ status[r[1]] = "assigned")
  <2>1. UNCHANGED <<runs, status, claims>>
    BY <1>4 DEF ClaimRun
  <2>2. TypeOK'
    BY <1>1, <1>2, <2>1 DEF IInv, TypeOK
  <2>3. RowsOK' /\ ClaimsOK'
    BY <1>1, <2>1 DEF IInv, RowsOK, ClaimsOK
  \* a queued run of its task would have been claimed
  <2>4. ~(runs[r] = "queued" /\ assigned[r[1]] = r)
    <3>1. r[1] \in Tasks /\ r # NoRun
      BY RunIdFacts
    <3> QED
      BY <3>1, <1>4 DEF IInv, RowsOK, Allowed
  <2> QED
    BY <1>1, <1>2, <2>1, <2>2, <2>3, <2>4, OthersStep
<1> QED
  BY <1>3, <1>4

LEMMA RecordCostStep ==
    ASSUME IInv, NEW r \in RunIds, NEW c \in Costs, RecordCost(r, c)
    PROVE  IInv'
<1>1. /\ spent' = [spent EXCEPT ![r] = c]
      /\ missed' = missed + AtLeastZero(c - Reservation(r[1]))
      /\ UNCHANGED <<status, assigned, runs, disp, launched, faults, claims, overlap>>
  BY DEF RecordCost
<1>2. missed' \in Nat
  <2>1. c \in Int /\ Reservation(r[1]) \in Int
    BY RunIdFacts, ReservationType, DispatchAssumption
  <2>2. AtLeastZero(c - Reservation(r[1])) \in Nat
    BY <2>1, AtLeastZeroType
  <2> QED
    BY <1>1, <2>2 DEF IInv, TypeOK
<1>3. TypeOK'
  BY <1>1, <1>2 DEF IInv, TypeOK
<1>4. RowsOK' /\ ClaimsOK'
  BY <1>1 DEF IInv, RowsOK, ClaimsOK
<1> QED
  BY <1>1, <1>3, <1>4, OthersStep

LEMMA FinishRunStep ==
    ASSUME IInv, NEW r \in RunIds, NEW ok \in BOOLEAN, FinishRun(r, ok)
    PROVE  IInv'
<1> DEFINE to == IF ok THEN "succeeded" ELSE "failed"
           taskTo == IF ok THEN "awaiting_verification" ELSE "failed"
<1>1. /\ runs[r] = "running" /\ (ok => spent[r] # -1)
      /\ runs' = [runs EXCEPT ![r] = to] /\ status' = [status EXCEPT ![r[1]] = taskTo]
      /\ missed' = missed + (IF spent[r] # -1 /\ \E d \in Dispatches : At(d, "runs")
                               THEN spent[r] ELSE 0)
      /\ UNCHANGED <<assigned, spent, disp, launched, faults, claims, overlap>>
  BY DEF FinishRun
<1>2. to \in RunStatus /\ taskTo \in TaskStatus /\ taskTo \in Allowed[to]
      /\ to \notin {"absent", "queued"}
  BY DEF RunStatus, TaskStatus, Allowed
<1> HIDE DEF to, taskTo
<1>3. assigned[r[1]] = r
  BY <1>1 DEF IInv, ClaimsOK
<1>4. status[r[1]] = "in_progress"
  <2>1. r[1] \in Tasks /\ r # NoRun
    BY RunIdFacts
  <2> QED
    BY <2>1, <1>1, <1>3 DEF IInv, RowsOK, Allowed
<1>5. /\ RowsOK'
      /\ \A s \in RunIds : s # r => runs'[s] = runs[s]
      /\ runs'[r] = to /\ status'[r[1]] = taskTo
      /\ \A t \in Tasks : t # r[1] => status'[t] = status[t]
  BY <1>1, <1>2, <1>3, RunMoves
<1>6. missed' \in Nat
  <2>1. spent[r] # -1 => spent[r] \in Nat
    BY DispatchAssumption DEF IInv, TypeOK
  <2> QED
    BY <1>1, <2>1 DEF IInv, TypeOK
<1>7. TypeOK'
  BY <1>1, <1>2, <1>6 DEF IInv, TypeOK
<1>8. ClaimsOK'
  BY <1>1, <1>2, <1>3, <1>5 DEF IInv, ClaimsOK
<1>9. \A t \in Tasks : status[t] = "completed" => status'[t] = "completed"
  BY <1>4, <1>5
<1> QED
  BY <1>1, <1>2, <1>3, <1>5, <1>7, <1>8, <1>9, OthersStep

-----------------------------------------------------------------------------
(* Money                                                                   *)

\* The dispatches of which CommittedWithinLimit speaks.
Careful == CodingBudgetGate /\ HardLimit # 0 /\ ~overlap

\* A cost is recorded by a running worker only.
SpentOK == \A r \in RunIds : runs[r] \in {"absent", "queued"} => spent[r] = -1

Busy(d) == disp[d].pc \notin {"new", "done"}

\* While dispatches do not overlap, none loses the race for a task, and the list of tasks
\* that it has read names the task of every active run.
AloneRow(d) ==
    /\ disp[d].pc \notin {"undo", "reread"}
    /\ At(d, "insert") =>
          \A t \in Tasks : IsNext(d, t) => assigned[t] = NoRun /\ status[t] = "pending"
    /\ disp[d].pc \in {"ledger", "runs"} =>
          \A r \in ActiveRuns : disp[d].seen.status[r[1]] # "absent"

AloneOK ==
    /\ \A c, d \in Dispatches : Busy(c) /\ Busy(d) => c = d
    /\ \A r \in ActiveRuns : assigned[r[1]] = r
    /\ \A d \in Dispatches : AloneRow(d)

\* What a dispatch between its two reads has to leave room for besides the reservations
\* of the active runs: the costs of the ended ones, and of the active ones what goes
\* beyond the reservation.
Uncounted(r) ==
    IF r \in ActiveRuns /\ spent[r] # -1
      THEN AtLeastZero(spent[r] - Reservation(r[1])) ELSE spent[r]

\* What a dispatch has left to assign fits into the limit with all that is committed.
RoomRow(d) ==
    /\ At(d, "runs") /\ disp[d].available # 0 =>
          disp[d].available + Total([r \in RunIds |-> Uncounted(r)]) <= HardLimit + missed
    /\ disp[d].pc \in {"assign", "insert"} =>
          Committed + Reserved(disp[d].todo) <= HardLimit + missed

RoomOK ==
    /\ Committed <= HardLimit + missed
    /\ \A d \in Dispatches : RoomRow(d)

MoneyInv ==
    /\ SpentOK
    /\ ~overlap => AloneOK
    /\ Careful => RoomOK

LEMMA TasksAreFinite == IsFiniteSet(Tasks)
BY DispatchAssumption

LEMMA RunIdsAreFinite == IsFiniteSet(RunIds)
BY DispatchAssumption, FS_Product DEF RunIds

\* What the sums are over, and that they are natural numbers.
LEMMA AmountTypes ==
    ASSUME TypeOK
    PROVE  /\ spent \in [RunIds -> Int] /\ RecordedSpend \in Nat
           /\ [r \in RunIds |-> Commitment(r)] \in [RunIds -> Int] /\ Committed \in Nat
           /\ [r \in RunIds |-> Uncounted(r)] \in [RunIds -> Int]
           /\ Total([r \in RunIds |-> Uncounted(r)]) \in Nat
<1>1. \A r \in RunIds : spent[r] \in Costs \cup {-1} /\ spent[r] \in Int /\ Reservation(r[1]) \in Nat
  BY RunIdFacts, ReservationType, DispatchAssumption DEF TypeOK
<1>2. spent \in [RunIds -> Int]
  BY <1>1 DEF TypeOK
<1>3. \A r \in RunIds : Commitment(r) \in Int
  BY <1>1 DEF Commitment
<1>4. \A r \in RunIds : Uncounted(r) \in Int
  BY <1>1, AtLeastZeroType DEF Uncounted
<1>5. /\ [r \in RunIds |-> Commitment(r)] \in [RunIds -> Int]
      /\ [r \in RunIds |-> Uncounted(r)] \in [RunIds -> Int]
  BY <1>3, <1>4
<1> QED
  BY <1>2, <1>5, RunIdsAreFinite, TotalType DEF RecordedSpend, Committed

LEMMA AmountTypesNext ==
    ASSUME TypeOK'
    PROVE  /\ [r \in RunIds |-> Commitment(r)'] \in [RunIds -> Int] /\ Committed' \in Nat
           /\ [r \in RunIds |-> Uncounted(r)'] \in [RunIds -> Int]
           /\ Total([r \in RunIds |-> Uncounted(r)])' \in Nat
<1>1. (/\ spent \in [RunIds -> Int] /\ RecordedSpend \in Nat
       /\ [r \in RunIds |-> Commitment(r)] \in [RunIds -> Int] /\ Committed \in Nat
       /\ [r \in RunIds |-> Uncounted(r)] \in [RunIds -> Int]
       /\ Total([r \in RunIds |-> Uncounted(r)]) \in Nat)'
  BY AmountTypes, PTL
<1> QED
  BY <1>1

LEMMA ReservedType ==
    ASSUME NEW S
    PROVE  /\ [t \in Tasks |-> IF t \in S THEN Reservation(t) ELSE 0] \in [Tasks -> Int]
           /\ Reserved(S) \in Nat
<1>1. [t \in Tasks |-> IF t \in S THEN Reservation(t) ELSE 0] \in [Tasks -> Int]
  BY ReservationType
<1> QED
  BY <1>1, TotalType, DispatchAssumption DEF Reserved

\* A reservation is never nothing.
LEMMA ReservationPositive ==
    ASSUME NEW t \in Tasks PROVE Reservation(t) \in Nat /\ Reservation(t) >= 1
BY DispatchAssumption DEF Reservation, SelectCodingModel

LEMMA ReservedNothing == Reserved({}) = 0
<1>1. [t \in Tasks |-> IF t \in {} THEN Reservation(t) ELSE 0] \in [Tasks -> Int]
  BY ReservedType
<1>2. Total([t \in Tasks |-> IF t \in {} THEN Reservation(t) ELSE 0]) = 0
  BY <1>1, TotalZero, TasksAreFinite
<1> QED
  BY <1>2 DEF Reserved

LEMMA ReservedMonotone ==
    ASSUME NEW S, NEW T, S \subseteq T
    PROVE  Reserved(S) <= Reserved(T)
<1> DEFINE f == [t \in Tasks |-> IF t \in S THEN Reservation(t) ELSE 0]
           g == [t \in Tasks |-> IF t \in T THEN Reservation(t) ELSE 0]
<1>1. f \in [Tasks -> Int] /\ g \in [Tasks -> Int]
  BY ReservedType
<1>2. \A t \in Tasks : f[t] <= g[t]
  BY ReservationType
<1>3. Reserved(S) = Total(f) /\ Reserved(T) = Total(g)
  BY DEF Reserved
<1> HIDE DEF f, g
<1> QED
  BY <1>1, <1>2, <1>3, TotalMonotone, TasksAreFinite

LEMMA ReservedWithout ==
    ASSUME NEW S, NEW t \in Tasks, t \in S
    PROVE  Reserved(S) = Reserved(S \ {t}) + Reservation(t)
<1> DEFINE f == [u \in Tasks |-> IF u \in S THEN Reservation(u) ELSE 0]
           g == [u \in Tasks |-> IF u \in S \ {t} THEN Reservation(u) ELSE 0]
<1>1. f \in [Tasks -> Int] /\ g \in [Tasks -> Int]
  BY ReservedType
<1>2. f[t] = Reservation(t) /\ g[t] = 0 /\ \A u \in Tasks \ {t} : g[u] = f[u]
  OBVIOUS
<1>3. Reserved(S) = Total(f) /\ Reserved(S \ {t}) = Total(g)
  BY DEF Reserved
<1>4. Total(f) \in Nat /\ Total(g) \in Nat
  BY <1>3, ReservedType
<1> HIDE DEF f, g
<1>5. Total(g) = Total(f) - Positive(f[t]) + Positive(g[t])
  BY <1>1, <1>2, TotalUpdate, TasksAreFinite
<1> QED
  BY <1>2, <1>3, <1>4, <1>5, ReservationPositive DEF Positive

\* The tasks before another one, in dispatch order.
LEMMA BeforeGrows ==
    ASSUME NEW S \in SUBSET Nat, NEW t \in S, NEW u \in S, t < u
    PROVE  Before(S, t) \subseteq Before(S, u) \ {t} /\ t \in Before(S, u)
<1>1. \A v : /\ v \in Before(S, t) <=> v \in S /\ v < t
             /\ v \in Before(S, u) <=> v \in S /\ v < u
  BY DEF Before
<1>2. \A v \in S : v \in Nat /\ (v < t => v < u /\ v # t)
  OBVIOUS
<1> QED
  BY <1>1, <1>2

LEMMA BeforeTheLast ==
    ASSUME NEW S \in SUBSET Nat, NEW t \in S, \A u \in S : ~(t < u)
    PROVE  S \ {t} = Before(S, t)
<1>1. \A v : v \in Before(S, t) <=> v \in S /\ v < t
  BY DEF Before
<1>2. \A v \in S : v # t <=> v < t
  OBVIOUS
<1>3. \A v : v \in S \ {t} <=> v \in Before(S, t)
  BY <1>1, <1>2
<1> QED
  BY <1>3

\* The tasks that fit into what is available one after the other fit into it together.
LEMMA SelectedFit ==
    ASSUME NEW todo \in SUBSET Tasks, NEW available \in Nat,
           NEW sel \in WithinBudget(todo, available)
    PROVE  Reserved(sel) <= available
<1>1. /\ sel \subseteq todo
      /\ \A t \in sel : available - Reserved(Before(sel, t)) >= Reservation(t)
  BY DEF WithinBudget
<1>2. CASE sel = {}
  BY <1>2, ReservedNothing
<1>3. CASE sel # {}
  <2> DEFINE left(t) == available - Reserved(Before(sel, t))
             lefts == {left(t) : t \in sel}
  <2>1. \A t \in sel : t \in Tasks /\ t \in Nat /\ left(t) \in Nat /\ left(t) >= Reservation(t)
    <3> SUFFICES ASSUME NEW t \in sel
                 PROVE  t \in Tasks /\ t \in Nat /\ left(t) \in Nat /\ left(t) >= Reservation(t)
      OBVIOUS
    <3>1. t \in Tasks /\ t \in Nat
      BY <1>1, DispatchAssumption
    <3>2. Reserved(Before(sel, t)) \in Nat /\ Reservation(t) \in Nat
      BY <3>1, ReservedType, ReservationType
    <3> QED
      BY <1>1, <3>1, <3>2
  <2>a. sel \in SUBSET Nat
    BY <1>1, DispatchAssumption
  <2>2. lefts \subseteq Nat /\ lefts # {}
    BY <1>3, <2>1
  \* the task that finds the least left is the last one
  <2>3. PICK n \in lefts : \A k \in lefts : n <= k
    <3> HIDE DEF lefts
    <3> QED
      BY <2>2, SmallestOf
  <2>4. PICK t \in sel : \A u \in sel : left(t) <= left(u)
    BY <2>3
  <2>5. ASSUME NEW u \in sel, t < u PROVE FALSE
    <3>1. Before(sel, t) \subseteq Before(sel, u) \ {t} /\ t \in Before(sel, u)
      BY <2>5, <2>a, BeforeGrows
    <3>2. Reserved(Before(sel, t)) <= Reserved(Before(sel, u) \ {t})
      BY <3>1, ReservedMonotone
    <3>3. Reserved(Before(sel, u)) = Reserved(Before(sel, u) \ {t}) + Reservation(t)
      BY <2>1, <3>1, ReservedWithout
    <3>4. left(t) <= left(u)
      BY <2>4
    <3>5. /\ Reserved(Before(sel, u)) \in Nat /\ Reserved(Before(sel, t)) \in Nat
          /\ Reserved(Before(sel, u) \ {t}) \in Nat
      BY ReservedType
    <3>6. Reservation(t) \in Nat /\ Reservation(t) >= 1
      BY <2>1, ReservationPositive
    <3> QED
      BY <3>2, <3>3, <3>4, <3>5, <3>6
  <2>6. sel \ {t} = Before(sel, t)
    <3>1. \A v \in sel : ~(t < v)
      BY <2>5
    <3> QED
      BY <3>1, <2>a, BeforeTheLast
  <2>7. Reserved(sel) = Reserved(Before(sel, t)) + Reservation(t)
    BY <2>1, <2>6, ReservedWithout
  <2>8. Reserved(Before(sel, t)) \in Nat /\ Reservation(t) \in Nat
    BY <2>1, ReservedType, ReservationType
  <2> QED
    BY <2>1, <2>7, <2>8
<1> QED
  BY <1>2, <1>3

-----------------------------------------------------------------------------
(* Money: the steps of a dispatch                                          *)

\* What a step of one dispatch does to the others.
OthersWait(d) == \A c \in Dispatches \ {d} : disp'[c] = disp[c]

LEMMA InitMoney == Init => MoneyInv
<1> SUFFICES ASSUME Init PROVE MoneyInv
  OBVIOUS
<1>1. TypeOK
  BY InitIInv DEF IInv
<1>2. SpentOK /\ ActiveRuns = {}
  BY DEF Init, SpentOK, ActiveRuns
<1>3. \A d \in Dispatches : disp[d].pc = "new"
  BY DEF Init
<1>4. AloneOK
  BY <1>2, <1>3 DEF AloneOK, AloneRow, Busy, At
<1>5. \A r \in RunIds : Commitment(r) = 0
  BY <1>2 DEF Init, Commitment
<1>6. Committed = 0
  <2>1. /\ [r \in RunIds |-> Commitment(r)] \in [RunIds -> Int]
        /\ \A r \in RunIds : [u \in RunIds |-> Commitment(u)][r] <= 0
    BY <1>1, <1>5, AmountTypes
  <2>2. Total([r \in RunIds |-> Commitment(r)]) = 0
    BY <2>1, RunIdsAreFinite, TotalZero
  <2> QED
    BY <2>2 DEF Committed
<1>7. RoomOK
  BY <1>3, <1>6, DispatchAssumption DEF Init, RoomOK, RoomRow, At
<1> QED
  BY <1>2, <1>4, <1>7 DEF MoneyInv

\* With the rows of tasks, runs and costs the sums stay as they are.
LEMMA SumsStay ==
    ASSUME UNCHANGED <<assigned, runs, spent>>
    PROVE  /\ ActiveRuns' = ActiveRuns /\ Committed' = Committed
           /\ Total([r \in RunIds |-> Uncounted(r)])' = Total([r \in RunIds |-> Uncounted(r)])
<1>1. ActiveRuns' = ActiveRuns
  BY DEF ActiveRuns
<1>2. \A r \in RunIds : Commitment(r)' = Commitment(r) /\ Uncounted(r)' = Uncounted(r)
  BY <1>1 DEF Commitment, Uncounted
<1>3. /\ [r \in RunIds |-> Commitment(r)'] = [r \in RunIds |-> Commitment(r)]
      /\ [r \in RunIds |-> Uncounted(r)'] = [r \in RunIds |-> Uncounted(r)]
  BY <1>2
<1> QED
  BY <1>1, <1>3 DEF Committed

\* A step of a dispatch that changes no row and leaves its own part in order.
LEMMA QuietMoney ==
    ASSUME IInv, MoneyInv, NEW d \in Dispatches,
           UNCHANGED <<status, assigned, runs, spent, missed, overlap>>, OthersWait(d),
           Busy(d) \/ Busy(d)' => Busy(d) \/ (~overlap => Idle),
           ~overlap => AloneRow(d)', Careful => RoomRow(d)'
    PROVE  MoneyInv'
<1>1. SpentOK'
  BY DEF MoneyInv, SpentOK
<1>2. /\ ActiveRuns' = ActiveRuns /\ Committed' = Committed
      /\ Total([r \in RunIds |-> Uncounted(r)])' = Total([r \in RunIds |-> Uncounted(r)])
  BY SumsStay
<1>3. \A c \in Dispatches \ {d} : disp'[c] = disp[c] /\ Busy(c)' = Busy(c)
  BY DEF OthersWait, Busy
<1>4. ASSUME ~overlap
      PROVE  AloneOK'
  <2>0. AloneOK
    BY <1>4 DEF MoneyInv
  <2>1. ASSUME NEW b \in Dispatches, NEW c \in Dispatches, Busy(b)', Busy(c)'
        PROVE  b = c
    BY <1>3, <1>4, <2>0, <2>1 DEF AloneOK, Busy, Idle
  <2>2. \A r \in ActiveRuns' : assigned'[r[1]] = r
    BY <1>2, <2>0 DEF AloneOK
  <2>3. ASSUME NEW c \in Dispatches PROVE AloneRow(c)'
    <3>1. CASE c = d
      BY <1>4, <3>1
    <3>2. CASE c # d
      <4>1. AloneRow(c) /\ disp'[c] = disp[c]
        BY <1>3, <2>0, <3>2 DEF AloneOK
      <4> QED
        BY <1>2, <4>1 DEF AloneRow, At, IsNext
    <3> QED
      BY <3>1, <3>2
  <2> QED
    BY <2>1, <2>2, <2>3 DEF AloneOK
<1>5. ASSUME Careful
      PROVE  RoomOK'
  <2>0. RoomOK
    BY <1>5 DEF MoneyInv
  <2>1. ASSUME NEW c \in Dispatches PROVE RoomRow(c)'
    <3>1. CASE c = d
      BY <1>5, <3>1
    <3>2. CASE c # d
      <4>1. RoomRow(c) /\ disp'[c] = disp[c]
        BY <1>3, <2>0, <3>2 DEF RoomOK
      <4> QED
        BY <1>2, <4>1 DEF RoomRow, At
    <3> QED
      BY <3>1, <3>2
  <2> QED
    BY <1>2, <2>0, <2>1 DEF RoomOK
<1> QED
  BY <1>1, <1>4, <1>5 DEF MoneyInv, Careful

\* Once it has nothing left to read or to insert, nothing is asked of a dispatch.
LEMMA AssignedMoney ==
    ASSUME IInv, MoneyInv, NEW d \in Dispatches,
           \/ Assigned(d) \/ Respond(d) \/ DispatchDies(d)
           \/ \E r \in RunIds, delivered \in BOOLEAN : Launch(d, r, delivered)
    PROVE  MoneyInv'
<1>1. /\ Busy(d) /\ UNCHANGED <<status, assigned, runs, spent, missed, overlap>>
      /\ OthersWait(d) /\ disp'[d].pc \in {"launch", "done"}
  BY DEF Assigned, Respond, DispatchDies, Launch, Goto, At, Busy, store, OthersWait, IInv,
         TypeOK, DispatchRow
<1>2. AloneRow(d)' /\ RoomRow(d)'
  BY <1>1 DEF AloneRow, RoomRow, At
<1> QED
  BY <1>1, <1>2, QuietMoney

\* The task of an active run exists.
LEMMA ActiveTaskExists ==
    ASSUME IInv, AloneOK, NEW r \in ActiveRuns
    PROVE  r[1] \in Tasks /\ status[r[1]] # "absent"
<1>1. r \in RunIds /\ runs[r] \in {"queued", "running"} /\ assigned[r[1]] = r
  BY DEF AloneOK, ActiveRuns
<1>2. r[1] \in Tasks /\ r # NoRun
  BY <1>1, RunIdFacts
<1> QED
  BY <1>1, <1>2 DEF IInv, RowsOK, Allowed

LEMMA ReadTasksMoney ==
    ASSUME IInv, MoneyInv, NEW d \in Dispatches, ReadTasks(d)
    PROVE  MoneyInv'
<1> DEFINE snap == [status |-> status, assigned |-> assigned]
<1>1. PICK launch \in Launching, sel \in SelectIndependent(Eligible(snap)) :
          disp' = [disp EXCEPT ![d] =
             [@ EXCEPT !.pc = IF CodingBudgetGate /\ sel # {} THEN "ledger" ELSE "assign",
                       !.launch = launch, !.seen = snap, !.todo = sel]]
  BY DEF ReadTasks
<1>2. /\ At(d, "new") /\ (overlap \/ Idle)
      /\ UNCHANGED <<status, assigned, runs, spent, launched, faults, claims, missed, overlap>>
  BY DEF ReadTasks, store
<1>3. /\ disp'[d].pc = (IF CodingBudgetGate /\ sel # {} THEN "ledger" ELSE "assign")
      /\ disp'[d].seen.status = status /\ disp'[d].todo = sel
      /\ OthersWait(d)
  BY <1>1 DEF IInv, TypeOK, DispatchRow, OthersWait
<1>4. ASSUME ~overlap PROVE AloneRow(d)'
  <2>1. ActiveRuns' = ActiveRuns
    BY <1>2 DEF ActiveRuns
  <2>2. \A r \in ActiveRuns : status[r[1]] # "absent"
    BY <1>4, ActiveTaskExists DEF MoneyInv
  <2> QED
    BY <1>3, <2>1, <2>2 DEF AloneRow, At
<1>5. ASSUME Careful PROVE RoomRow(d)'
  <2>1. Committed <= HardLimit + missed /\ Committed' = Committed
    BY <1>2, <1>5, SumsStay DEF MoneyInv, RoomOK
  <2>2. At(d, "assign")' => disp'[d].todo = {}
    BY <1>3, <1>5 DEF Careful, At
  <2>3. Committed \in Nat /\ missed \in Nat /\ HardLimit \in Nat
    BY AmountTypes, DispatchAssumption DEF IInv, TypeOK
  <2>4. disp'[d].pc \in {"ledger", "assign"}
    BY <1>3
  <2>5. ASSUME At(d, "assign")'
        PROVE  Committed' + Reserved(disp'[d].todo) <= HardLimit + missed'
    <3>1. Reserved(disp'[d].todo) = 0
      BY <2>2, <2>5, ReservedNothing
    <3>2. missed' = missed
      BY <1>2
    <3> QED
      BY <2>1, <2>3, <3>1, <3>2
  <2> QED
    BY <2>4, <2>5 DEF RoomRow, At
<1> QED
  BY <1>2, <1>3, <1>4, <1>5, QuietMoney

\* What ended runs have cost, and what active ones have cost beyond their reservation,
\* is part of what is in the ledger.
LEMMA UncountedIsRecorded ==
    ASSUME TypeOK
    PROVE  Total([r \in RunIds |-> Uncounted(r)]) <= RecordedSpend
<1> DEFINE f == [r \in RunIds |-> Uncounted(r)]
<1>1. f \in [RunIds -> Int] /\ spent \in [RunIds -> Int]
  BY AmountTypes
<1>2. \A r \in RunIds : f[r] <= spent[r]
  <2> SUFFICES ASSUME NEW r \in RunIds PROVE Uncounted(r) <= spent[r]
    OBVIOUS
  <2>1. Reservation(r[1]) \in Nat /\ spent[r] \in Int /\ (spent[r] # -1 => spent[r] \in Nat)
    BY RunIdFacts, ReservationType, DispatchAssumption DEF TypeOK
  <2> QED
    BY <2>1 DEF Uncounted, AtLeastZero
<1> HIDE DEF f
<1>3. Total(f) <= Total(spent)
  BY <1>1, <1>2, RunIdsAreFinite, TotalMonotone
<1> QED
  BY <1>3 DEF f, RecordedSpend

LEMMA ReadLedgerMoney ==
    ASSUME IInv, MoneyInv, NEW d \in Dispatches, ReadLedger(d)
    PROVE  MoneyInv'
<1>1. /\ At(d, "ledger") /\ Busy(d)
      /\ UNCHANGED <<status, assigned, runs, spent, launched, faults, claims, missed, overlap>>
  BY DEF ReadLedger, store, At, Busy
<1>2. disp \in [Dispatches -> DispatchRow] /\ TypeOK
  BY DEF IInv, TypeOK
<1>3. \/ /\ HardLimit = 0
         /\ disp' = [disp EXCEPT ![d].pc = "assign", ![d].todo = {}]
      \/ disp' = [disp EXCEPT ![d].pc = "runs",
                              ![d].available = AtLeastZero(HardLimit - RecordedSpend)]
  BY DEF ReadLedger
<1>4. /\ disp'[d].pc \in {"assign", "runs"} /\ disp'[d].seen = disp[d].seen /\ OthersWait(d)
      /\ HardLimit # 0 =>
            disp'[d].pc = "runs" /\ disp'[d].available = AtLeastZero(HardLimit - RecordedSpend)
  BY <1>2, <1>3 DEF DispatchRow, OthersWait
<1>5. ASSUME ~overlap PROVE AloneRow(d)'
  <2>1. ActiveRuns' = ActiveRuns
    BY <1>1 DEF ActiveRuns
  <2>2. AloneRow(d)
    BY <1>5 DEF MoneyInv, AloneOK
  <2> QED
    BY <1>1, <1>4, <2>1, <2>2 DEF AloneRow, At
<1>6. ASSUME Careful PROVE RoomRow(d)'
  <2>1. disp'[d].pc = "runs" /\ disp'[d].available = AtLeastZero(HardLimit - RecordedSpend)
    BY <1>4, <1>6 DEF Careful
  <2>2. Total([r \in RunIds |-> Uncounted(r)]) <= RecordedSpend
    BY <1>2, UncountedIsRecorded
  <2>3. /\ Total([r \in RunIds |-> Uncounted(r)]) \in Nat /\ RecordedSpend \in Nat
        /\ missed \in Nat /\ HardLimit \in Nat
    BY <1>2, AmountTypes, DispatchAssumption DEF TypeOK
  <2>4. disp'[d].available # 0 =>
            disp'[d].available + Total([r \in RunIds |-> Uncounted(r)])' <= HardLimit + missed'
    BY <1>1, <2>1, <2>2, <2>3, SumsStay DEF AtLeastZero
  <2> QED
    BY <2>1, <2>4 DEF RoomRow, At
<1> QED
  BY <1>1, <1>4, <1>5, <1>6, QuietMoney

\* All that is committed is what a dispatch has left out and what it takes off for the
\* active runs, whose tasks it has seen.
LEMMA CommittedIsCounted ==
    ASSUME IInv, AloneOK, NEW seen, \A r \in ActiveRuns : seen[r[1]] # "absent"
    PROVE  /\ ActiveReservations(seen) \in Nat
           /\ Committed <= Total([r \in RunIds |-> Uncounted(r)]) + ActiveReservations(seen)
<1> DEFINE f == [r \in RunIds |-> Uncounted(r)]
           g == [r \in RunIds |-> IF r \in ActiveRuns /\ seen[r[1]] # "absent"
                                    THEN Reservation(r[1]) ELSE 0]
           h == [r \in RunIds |-> Commitment(r)]
<1>1. \A r \in RunIds : /\ Reservation(r[1]) \in Nat /\ spent[r] \in Int
                        /\ spent[r] # -1 => spent[r] \in Nat
  BY RunIdFacts, ReservationType, DispatchAssumption DEF IInv, TypeOK
<1>2. f \in [RunIds -> Int] /\ g \in [RunIds -> Int] /\ h \in [RunIds -> Int]
  BY <1>1, AmountTypes DEF IInv
<1>3. \A r \in RunIds : h[r] <= Positive(f[r]) + Positive(g[r])
  <2> SUFFICES ASSUME NEW r \in RunIds
               PROVE  Commitment(r) <= Positive(Uncounted(r)) + Positive(g[r])
    OBVIOUS
  <2>1. g[r] = IF r \in ActiveRuns THEN Reservation(r[1]) ELSE 0
    OBVIOUS
  <2> HIDE DEF g
  <2> QED
    BY <1>1, <2>1 DEF Commitment, Uncounted, Positive, AtLeastZero
<1>4. Total(f) = Total([r \in RunIds |-> Uncounted(r)]) /\ Total(g) = ActiveReservations(seen)
      /\ Total(h) = Committed
  BY DEF ActiveReservations, Committed
<1> HIDE DEF f, g, h
<1>5. Total(h) <= Total(f) + Total(g) /\ Total(g) \in Nat
  BY <1>2, <1>3, RunIdsAreFinite, TotalAtMostBoth, TotalType
<1> QED
  BY <1>4, <1>5

LEMMA ReadRunsMoney ==
    ASSUME IInv, MoneyInv, NEW d \in Dispatches, ReadRuns(d)
    PROVE  MoneyInv'
<1>1. /\ At(d, "runs") /\ Busy(d)
      /\ UNCHANGED <<status, assigned, runs, spent, launched, faults, claims, missed, overlap>>
  BY DEF ReadRuns, store, At, Busy
<1>2. disp \in [Dispatches -> DispatchRow] /\ TypeOK
  BY DEF IInv, TypeOK
<1> DEFINE seen == disp[d].seen.status
<1>2a. PICK available \in 0 .. disp[d].available :
          /\ available = AtLeastZero(disp[d].available - ActiveReservations(seen))
          /\ \E sel \in WithinBudget(disp[d].todo, available) :
                disp' = [disp EXCEPT ![d].pc = "assign", ![d].available = available,
                                     ![d].todo = sel]
  BY DEF ReadRuns
<1>2b. PICK sel \in WithinBudget(disp[d].todo, available) :
          disp' = [disp EXCEPT ![d].pc = "assign", ![d].available = available, ![d].todo = sel]
  BY <1>2a
<1>3. /\ available = AtLeastZero(disp[d].available - ActiveReservations(seen))
      /\ disp' = [disp EXCEPT ![d].pc = "assign", ![d].available = available, ![d].todo = sel]
  BY <1>2a, <1>2b
<1>4. disp'[d].pc = "assign" /\ disp'[d].todo = sel /\ OthersWait(d)
  BY <1>2, <1>3 DEF DispatchRow, OthersWait
<1>5. AloneRow(d)'
  BY <1>4 DEF AloneRow, At
<1>6. ASSUME Careful PROVE RoomRow(d)'
  <2>1. AloneOK /\ RoomOK
    BY <1>6 DEF MoneyInv, Careful
  <2>2. \A r \in ActiveRuns : seen[r[1]] # "absent"
    BY <1>1, <2>1 DEF AloneOK, AloneRow, At
  <2>3. /\ ActiveReservations(seen) \in Nat
        /\ Committed <= Total([r \in RunIds |-> Uncounted(r)]) + ActiveReservations(seen)
    <3> HIDE DEF seen
    <3> QED
      BY <2>1, <2>2, CommittedIsCounted
  <2>4. /\ Total([r \in RunIds |-> Uncounted(r)]) \in Nat /\ Committed \in Nat
        /\ missed \in Nat /\ HardLimit \in Nat /\ disp[d].available \in Nat
        /\ disp[d].todo \in SUBSET Tasks
    BY <1>2, AmountTypes, DispatchAssumption DEF TypeOK, DispatchRow
  <2>5. available \in Nat /\ Reserved(sel) <= available /\ Reserved(sel) \in Nat
    BY <2>4, SelectedFit, ReservedType
  <2>6. Committed + Reserved(sel) <= HardLimit + missed
    <3>1. CASE available = 0
      BY <3>1, <2>1, <2>4, <2>5 DEF RoomOK
    <3>2. CASE available # 0
      <4>1. /\ available = disp[d].available - ActiveReservations(seen)
            /\ disp[d].available # 0
        BY <1>3, <2>3, <2>4, <3>2 DEF AtLeastZero
      <4>2. disp[d].available + Total([r \in RunIds |-> Uncounted(r)]) <= HardLimit + missed
        BY <1>1, <2>1, <4>1 DEF RoomOK, RoomRow
      <4> HIDE DEF seen
      <4> QED
        BY <2>3, <2>4, <2>5, <4>1, <4>2
    <3> QED
      BY <3>1, <3>2
  <2>7. Committed' = Committed
    BY <1>1, SumsStay
  <2> QED
    BY <1>1, <1>4, <2>6, <2>7 DEF RoomRow, At
<1> QED
  BY <1>1, <1>4, <1>5, <1>6, QuietMoney

LEMMA AssignMoney ==
    ASSUME IInv, MoneyInv, NEW d \in Dispatches, NEW t \in Tasks, Assign(d, t)
    PROVE  MoneyInv'
<1>1. /\ At(d, "assign") /\ Busy(d) /\ IsNext(d, t)
      /\ UNCHANGED <<status, assigned, runs, spent, launched, faults, claims, missed, overlap>>
  BY DEF Assign, store, At, Busy
<1>2. disp \in [Dispatches -> DispatchRow] /\ TypeOK
  BY DEF IInv, TypeOK
<1>3. Careful => Committed + Reserved(disp[d].todo) <= HardLimit + missed /\ Committed' = Committed
  BY <1>1, SumsStay DEF MoneyInv, RoomOK, RoomRow, At
<1>4. CASE assigned[t] = NoRun /\ status[t] = "pending"
  <2>1. disp' = [disp EXCEPT ![d].pc = "insert"]
    BY <1>4 DEF Assign, Goto
  <2>2. disp'[d].pc = "insert" /\ disp'[d].todo = disp[d].todo /\ OthersWait(d)
    BY <1>2, <2>1 DEF DispatchRow, OthersWait
  <2>3. AloneRow(d)'
    <3> SUFFICES ASSUME NEW u \in Tasks, IsNext(d, u)'
                 PROVE  assigned'[u] = NoRun /\ status'[u] = "pending"
      BY <2>2 DEF AloneRow, At
    <3>1. IsNext(d, u)
      BY <2>2 DEF IsNext
    <3>2. u = t
      BY <1>1, <1>2, <3>1, OneIsNext
    <3> QED
      BY <1>1, <1>4, <3>2
  <2>4. Careful => RoomRow(d)'
    BY <1>1, <1>3, <2>2 DEF RoomRow, At
  <2> QED
    BY <1>1, <2>2, <2>3, <2>4, QuietMoney
<1>5. CASE ~(assigned[t] = NoRun /\ status[t] = "pending")
  <2>1. disp'[d].pc = "assign" /\ disp'[d].todo = disp[d].todo \ {t} /\ OthersWait(d)
    BY <1>1, <1>2, <1>5 DEF Assign, DispatchRow, OthersWait, At
  <2>2. AloneRow(d)'
    BY <2>1 DEF AloneRow, At
  <2>3. ASSUME Careful PROVE RoomRow(d)'
    <3>1. Reserved(disp'[d].todo) <= Reserved(disp[d].todo)
      BY <2>1, ReservedMonotone
    <3>2. /\ Reserved(disp'[d].todo) \in Nat /\ Reserved(disp[d].todo) \in Nat
          /\ Committed \in Nat /\ missed \in Nat /\ HardLimit \in Nat
      BY <1>2, ReservedType, AmountTypes, DispatchAssumption DEF TypeOK
    <3>3. Committed' + Reserved(disp'[d].todo) <= HardLimit + missed
      BY <1>3, <2>3, <3>1, <3>2
    <3> QED
      BY <1>1, <2>1, <3>3 DEF RoomRow, At
  <2> QED
    BY <1>1, <2>1, <2>2, <2>3, QuietMoney
<1> QED
  BY <1>4, <1>5

\* Where dispatches overlap, only the costs matter.
LEMMA OverlappingMoney ==
    ASSUME IInv, MoneyInv, overlap, UNCHANGED overlap, SpentOK'
    PROVE  MoneyInv'
BY DEF MoneyInv, Careful

LEMMA UndoRunMoney ==
    ASSUME IInv, MoneyInv, NEW d \in Dispatches, NEW t \in Tasks, UndoRun(d, t)
    PROVE  MoneyInv'
<1>1. /\ At(d, "undo") /\ IsNext(d, t)
      /\ runs' = [runs EXCEPT ![<<t, d>>] = "absent"] /\ UNCHANGED <<spent, overlap>>
  BY DEF UndoRun
<1>2. overlap
  BY <1>1 DEF MoneyInv, AloneOK, AloneRow, At, IInv, TypeOK
<1>3. <<t, d>> \in RunIds /\ t \in disp[d].todo
  BY <1>1, RunIdFacts DEF IsNext
\* the run was never claimed
<1>4. runs[<<t, d>>] \in {"absent", "queued"}
  <2>1. assigned[t] # <<t, d>>
    BY <1>1, <1>3 DEF IInv, FreshOK, At
  <2> QED
    BY <1>3, <2>1, RunIdFacts DEF IInv, ClaimsOK
<1>5. SpentOK'
  BY <1>1, <1>3, <1>4 DEF MoneyInv, SpentOK, IInv, TypeOK
<1> QED
  BY <1>1, <1>2, <1>5, OverlappingMoney

LEMMA RereadTaskMoney ==
    ASSUME IInv, MoneyInv, NEW d \in Dispatches, NEW t \in Tasks, RereadTask(d, t)
    PROVE  MoneyInv'
<1>1. At(d, "reread") /\ UNCHANGED <<status, assigned, runs, spent, overlap>>
  BY DEF RereadTask, store
<1>2. overlap
  BY <1>1 DEF MoneyInv, AloneOK, AloneRow, At, IInv, TypeOK
<1>3. SpentOK'
  BY <1>1 DEF MoneyInv, SpentOK
<1> QED
  BY <1>1, <1>2, <1>3, OverlappingMoney

\* An inserted run takes over what the dispatch had set aside for its task.
LEMMA InsertRunMoney ==
    ASSUME IInv, MoneyInv, NEW d \in Dispatches, NEW t \in Tasks, InsertRun(d, t)
    PROVE  MoneyInv'
<1> DEFINE r == <<t, d>>
<1>1. /\ At(d, "insert") /\ IsNext(d, t) /\ Busy(d)
      /\ runs' = [runs EXCEPT ![r] = "queued"]
      /\ UNCHANGED <<spent, launched, faults, claims, missed, overlap>>
  BY DEF InsertRun, At, Busy
<1>2. /\ r \in RunIds /\ r[1] = t /\ r # NoRun /\ t \in disp[d].todo
      /\ TypeOK /\ disp \in [Dispatches -> DispatchRow] /\ runs \in [RunIds -> RunStatus]
      /\ status \in [Tasks -> TaskStatus] /\ assigned \in [Tasks -> RunIds \cup {NoRun}]
  BY <1>1, RunIdFacts DEF IsNext, IInv, TypeOK
<1>3. runs[r] = "absent"
  BY <1>1, <1>2 DEF IInv, FreshOK, At
<1>i. \A s \in RunIds : s[1] \in Tasks /\ s # NoRun
  BY RunIdFacts
<1>4. spent[r] = -1
  BY <1>2, <1>3 DEF MoneyInv, SpentOK
<1> HIDE DEF r
<1>5. /\ runs'[r] = "queued" /\ \A s \in RunIds \ {r} : runs'[s] = runs[s]
  BY <1>1, <1>2
<1>6. SpentOK'
  BY <1>1, <1>4, <1>5 DEF MoneyInv, SpentOK
<1>7. CASE overlap
  BY <1>1, <1>6, <1>7, OverlappingMoney
<1>8. CASE ~overlap
  <2>1. AloneOK
    BY <1>8 DEF MoneyInv
  <2>2. assigned[t] = NoRun /\ status[t] = "pending"
    BY <1>1, <2>1 DEF AloneOK, AloneRow, At
  <2>3. /\ assigned' = [assigned EXCEPT ![t] = r]
        /\ disp' = [disp EXCEPT ![d].pc = "assign", ![d].todo = @ \ {t}, ![d].got = @ \cup {r}]
    BY <2>2 DEF InsertRun, r
  <2>4. /\ disp'[d].pc = "assign" /\ disp'[d].todo = disp[d].todo \ {t} /\ OthersWait(d)
        /\ assigned'[t] = r /\ \A u \in Tasks \ {t} : assigned'[u] = assigned[u]
    BY <1>2, <2>3 DEF DispatchRow, OthersWait
  <2>5. \A c \in Dispatches \ {d} : disp'[c] = disp[c] /\ disp[c].pc \in {"new", "done"}
    BY <1>1, <2>1, <2>4 DEF OthersWait, AloneOK, Busy
  <2>6. ActiveRuns' = ActiveRuns \cup {r}
    BY <1>2, <1>5 DEF ActiveRuns
  <2>7. AloneOK'
    <3>1. \A b, c \in Dispatches : Busy(b)' /\ Busy(c)' => b = c
      BY <2>5 DEF Busy
    <3>2. ASSUME NEW s \in ActiveRuns' PROVE assigned'[s[1]] = s
      <4>1. CASE s = r
        BY <1>2, <2>4, <4>1
      <4>2. CASE s # r
        <5>1. s \in ActiveRuns /\ s \in RunIds /\ assigned[s[1]] = s
          BY <2>1, <2>6, <4>2 DEF AloneOK, ActiveRuns
        <5>2. s[1] # t
          BY <1>i, <2>2, <5>1
        <5> QED
          BY <1>i, <2>4, <5>1, <5>2
      <4> QED
        BY <4>1, <4>2
    <3>3. ASSUME NEW c \in Dispatches PROVE AloneRow(c)'
      BY <2>4, <2>5 DEF AloneRow, At
    <3> QED
      BY <3>1, <3>2, <3>3 DEF AloneOK
  <2>8. ASSUME Careful PROVE RoomOK'
    <3> DEFINE f == [s \in RunIds |-> Commitment(s)]
               g == [s \in RunIds |-> Commitment(s)']
    <3>1. f[r] = 0 /\ g[r] = Reservation(t)
      BY <1>1, <1>2, <1>3, <1>4, <2>2, <2>4, <2>6 DEF Commitment
    <3>2. ASSUME NEW s \in RunIds \ {r} PROVE Commitment(s)' = Commitment(s)
      <4>1. s \in ActiveRuns' <=> s \in ActiveRuns
        BY <2>6
      <4>2. assigned'[s[1]] = s <=> assigned[s[1]] = s
        <5>1. CASE s[1] = t
          BY <1>i, <2>2, <2>4, <5>1
        <5>2. CASE s[1] # t
          BY <1>i, <2>4, <5>2
        <5> QED
          BY <5>1, <5>2
      <4> QED
        BY <1>1, <4>1, <4>2 DEF Commitment
    <3>3. f \in [RunIds -> Int]
      BY <1>2, AmountTypes
    <3>4. g \in [RunIds -> Int]
      <4>1. \A s \in RunIds : g[s] \in Int
        <5>1. Reservation(t) \in Int
          BY ReservationType
        <5> QED
          BY <3>1, <3>2, <3>3, <5>1
      <4> QED
        BY <4>1
    <3>5. \A s \in RunIds \ {r} : g[s] = f[s]
      BY <3>2
    <3>6. Committed = Total(f) /\ Committed' = Total(g)
      BY DEF Committed
    <3> HIDE DEF f, g
    <3>7. Total(g) = Total(f) - Positive(f[r]) + Positive(g[r])
      BY <1>2, <3>3, <3>4, <3>5, RunIdsAreFinite, TotalUpdate
    <3>8. /\ Total(f) \in Nat /\ Reservation(t) \in Nat /\ HardLimit \in Nat /\ missed \in Nat
          /\ Reserved(disp[d].todo) \in Nat /\ Reserved(disp'[d].todo) \in Nat
      BY <1>2, <3>6, AmountTypes, ReservationType, ReservedType, DispatchAssumption DEF TypeOK
    <3>9. Total(g) = Total(f) + Reservation(t)
      BY <3>1, <3>7, <3>8 DEF Positive
    <3>10. Reserved(disp[d].todo) = Reserved(disp'[d].todo) + Reservation(t)
      BY <1>2, <2>4, ReservedWithout
    <3>11. Committed + Reserved(disp[d].todo) <= HardLimit + missed
      BY <1>1, <2>8 DEF MoneyInv, RoomOK, RoomRow, At
    <3>12. /\ Committed' + Reserved(disp'[d].todo) <= HardLimit + missed'
           /\ Committed' <= HardLimit + missed'
      BY <1>1, <3>6, <3>8, <3>9, <3>10, <3>11
    <3> QED
      BY <2>4, <2>5, <3>12 DEF RoomOK, RoomRow, At
  <2> QED
    BY <1>1, <1>6, <1>8, <2>7, <2>8 DEF MoneyInv, Careful
<1> QED
  BY <1>7, <1>8

-----------------------------------------------------------------------------
(* Money: the workers and the rest of the project                          *)

\* A step of others that commits no more than it counts as missed.
LEMMA OthersMoney ==
    ASSUME IInv, IInv', MoneyInv, UNCHANGED <<assigned, disp, overlap>>, SpentOK',
           ActiveRuns' \subseteq ActiveRuns,
           \A t \in Tasks : status[t] = "pending" /\ assigned[t] = NoRun => status'[t] = "pending",
           ~overlap => Committed' <= Committed + (missed' - missed),
           missed <= missed',
           (\E d \in Dispatches : At(d, "runs")) =>
               Total([r \in RunIds |-> Uncounted(r)])'
                   <= Total([r \in RunIds |-> Uncounted(r)]) + (missed' - missed)
    PROVE  MoneyInv'
<1>1. ASSUME ~overlap
      PROVE  AloneOK'
  <2>0. AloneOK
    BY <1>1 DEF MoneyInv
  <2>1. \A c, d \in Dispatches : Busy(c)' /\ Busy(d)' => c = d
    BY <2>0 DEF AloneOK, Busy
  <2>2. \A r \in ActiveRuns' : assigned'[r[1]] = r
    BY <2>0 DEF AloneOK
  <2>3. ASSUME NEW d \in Dispatches PROVE AloneRow(d)'
    <3>1. AloneRow(d)
      BY <2>0 DEF AloneOK
    <3>2. \A t \in Tasks : IsNext(d, t)' <=> IsNext(d, t)
      BY DEF IsNext
    <3> QED
      BY <3>1, <3>2 DEF AloneRow, At
  <2> QED
    BY <2>1, <2>2, <2>3 DEF AloneOK
<1>2. ASSUME Careful
      PROVE  RoomOK'
  <2>0. RoomOK /\ Committed' <= Committed + (missed' - missed)
    BY <1>2 DEF MoneyInv, Careful
  <2>1. /\ Committed \in Nat /\ Committed' \in Nat /\ missed \in Nat /\ missed' \in Nat
        /\ HardLimit \in Nat
        /\ Total([r \in RunIds |-> Uncounted(r)]) \in Nat
        /\ Total([r \in RunIds |-> Uncounted(r)])' \in Nat
    <3>1. TypeOK /\ TypeOK'
      BY DEF IInv
    <3>2. Committed \in Nat /\ Total([r \in RunIds |-> Uncounted(r)]) \in Nat
      BY <3>1, AmountTypes
    <3>3. Committed' \in Nat /\ Total([r \in RunIds |-> Uncounted(r)])' \in Nat
      BY <3>1, AmountTypesNext
    <3> QED
      BY <3>1, <3>2, <3>3, DispatchAssumption DEF TypeOK
  <2>2. ASSUME NEW d \in Dispatches PROVE RoomRow(d)'
    <3>1. RoomRow(d) /\ disp[d].available \in Nat /\ Reserved(disp[d].todo) \in Nat
      BY <2>0, ReservedType DEF RoomOK, IInv, TypeOK, DispatchRow
    <3>2. At(d, "runs") /\ disp[d].available # 0 =>
              disp[d].available + Total([r \in RunIds |-> Uncounted(r)])' <= HardLimit + missed'
      BY <2>1, <3>1 DEF RoomRow
    <3>3. disp[d].pc \in {"assign", "insert"} =>
              Committed' + Reserved(disp[d].todo) <= HardLimit + missed'
      BY <2>0, <2>1, <3>1 DEF RoomRow
    <3> QED
      BY <3>2, <3>3 DEF RoomRow, At
  <2>3. Committed' <= HardLimit + missed'
    <3>1. Committed <= HardLimit + missed
      BY <2>0 DEF RoomOK
    <3>2. Committed' <= Committed + (missed' - missed)
      BY <2>0
    <3>3. /\ Committed \in Int /\ Committed' \in Int /\ missed \in Int /\ missed' \in Int
          /\ HardLimit \in Int
      BY <2>1
    <3> QED
      BY <3>1, <3>2, <3>3
  <2> QED
    BY <2>2, <2>3 DEF RoomOK
<1> QED
  BY <1>1, <1>2 DEF MoneyInv, Careful

\* A step that leaves runs and costs alone.
LEMMA StatusMoney ==
    ASSUME IInv, IInv', MoneyInv, UNCHANGED <<assigned, runs, spent, disp, missed, overlap>>,
           \A t \in Tasks : status[t] = "pending" /\ assigned[t] = NoRun => status'[t] = "pending"
    PROVE  MoneyInv'
<1>1. /\ ActiveRuns' = ActiveRuns /\ Committed' = Committed
      /\ Total([r \in RunIds |-> Uncounted(r)])' = Total([r \in RunIds |-> Uncounted(r)])
  BY SumsStay
<1>2. SpentOK'
  BY DEF MoneyInv, SpentOK
<1>3. /\ Committed \in Nat /\ missed \in Nat /\ Total([r \in RunIds |-> Uncounted(r)]) \in Nat
  BY AmountTypes DEF IInv, TypeOK
<1>4. /\ Committed' <= Committed + (missed' - missed) /\ missed <= missed'
      /\ Total([r \in RunIds |-> Uncounted(r)])'
            <= Total([r \in RunIds |-> Uncounted(r)]) + (missed' - missed)
  BY <1>1, <1>3
<1> QED
  BY <1>1, <1>2, <1>4, OthersMoney

LEMMA CreateTaskMoney ==
    ASSUME IInv, IInv', MoneyInv, NEW t \in Tasks, CreateTask(t)
    PROVE  MoneyInv'
BY StatusMoney DEF CreateTask, IInv, TypeOK

LEMMA JudgeMoney ==
    ASSUME IInv, IInv', MoneyInv, NEW t \in Tasks, NEW v \in {"completed", "failed"}, Judge(t, v)
    PROVE  MoneyInv'
BY StatusMoney DEF Judge, IInv, TypeOK

LEMMA ClaimRunMoney ==
    ASSUME IInv, IInv', MoneyInv, NEW r \in RunIds, ClaimRun(r)
    PROVE  MoneyInv'
<1>1. UNCHANGED <<assigned, spent, disp, faults, missed, overlap>>
  BY DEF ClaimRun
<1>2. CASE runs[r] = "queued" /\ assigned[r[1]] = r /\ status[r[1]] = "assigned"
  <2>1. /\ runs' = [runs EXCEPT ![r] = "running"]
        /\ status' = [status EXCEPT ![r[1]] = "in_progress"]
    BY <1>2 DEF ClaimRun
  <2>2. ActiveRuns' = ActiveRuns
    BY <1>2, <2>1 DEF ActiveRuns, IInv, TypeOK
  <2>3. \A s \in RunIds : Commitment(s)' = Commitment(s) /\ Uncounted(s)' = Uncounted(s)
    BY <1>1, <2>2 DEF Commitment, Uncounted
  <2>4. /\ [s \in RunIds |-> Commitment(s)'] = [s \in RunIds |-> Commitment(s)]
        /\ [s \in RunIds |-> Uncounted(s)'] = [s \in RunIds |-> Uncounted(s)]
    BY <2>3
  <2>5. /\ Committed' = Committed
        /\ Total([s \in RunIds |-> Uncounted(s)])' = Total([s \in RunIds |-> Uncounted(s)])
    BY <2>4 DEF Committed
  <2>6. SpentOK'
    BY <1>1, <2>1 DEF MoneyInv, SpentOK, IInv, TypeOK
  <2>7. \A t \in Tasks : status[t] = "pending" /\ assigned[t] = NoRun => status'[t] = "pending"
    BY <1>2, <2>1 DEF IInv, TypeOK
  <2>8. /\ Committed \in Nat /\ missed \in Nat /\ Total([s \in RunIds |-> Uncounted(s)]) \in Nat
    BY AmountTypes DEF IInv, TypeOK
  <2>9. /\ Committed' <= Committed + (missed' - missed) /\ missed <= missed'
        /\ Total([s \in RunIds |-> Uncounted(s)])'
              <= Total([s \in RunIds |-> Uncounted(s)]) + (missed' - missed)
    BY <1>1, <2>5, <2>8
  <2> QED
    BY <1>1, <2>2, <2>6, <2>7, <2>9, OthersMoney
<1>3. CASE ~(runs[r] = "queued" /\ assigned[r[1]] = r /\ status[r[1]] = "assigned")
  BY <1>1, <1>3, StatusMoney DEF ClaimRun
<1> QED
  BY <1>2, <1>3

\* A step that changes what one run of a task commits, and what of it is not counted.
LEMMA OneRunMoney ==
    ASSUME IInv, IInv', MoneyInv, NEW r \in RunIds, UNCHANGED <<assigned, disp, overlap>>,
           runs[r] = "running", runs'[r] \notin {"absent", "queued"},
           \A s \in RunIds \ {r} : runs'[s] = runs[s] /\ spent'[s] = spent[s],
           \A t \in Tasks : status[t] = "pending" /\ assigned[t] = NoRun => status'[t] = "pending",
           missed <= missed',
           Positive(Commitment(r)') <= Positive(Commitment(r)) + (missed' - missed),
           (\E d \in Dispatches : At(d, "runs")) =>
               Positive(Uncounted(r)') <= Positive(Uncounted(r)) + (missed' - missed)
    PROVE  MoneyInv'
<1>1. SpentOK'
  BY DEF MoneyInv, SpentOK
<1>2. ActiveRuns' \subseteq ActiveRuns
  BY DEF ActiveRuns
<1>3. \A s \in RunIds \ {r} : s \in ActiveRuns' <=> s \in ActiveRuns
  BY DEF ActiveRuns
<1> DEFINE f == [s \in RunIds |-> Commitment(s)]
           g == [s \in RunIds |-> Commitment(s)']
           h == [s \in RunIds |-> Uncounted(s)]
           k == [s \in RunIds |-> Uncounted(s)']
<1>4. ASSUME NEW s \in RunIds \ {r}
      PROVE  Commitment(s)' = Commitment(s) /\ Uncounted(s)' = Uncounted(s)
  BY <1>3, <1>4 DEF Commitment, Uncounted
<1>5. /\ f \in [RunIds -> Int] /\ h \in [RunIds -> Int]
      /\ Total(f) \in Nat /\ Total(h) \in Nat
  BY AmountTypes DEF IInv, Committed
<1>6. /\ g \in [RunIds -> Int] /\ k \in [RunIds -> Int]
      /\ Total(g) \in Nat /\ Total(k) \in Nat
  <2>1. TypeOK'
    BY DEF IInv
  <2> QED
    BY <2>1, AmountTypesNext DEF Committed
<1>7. /\ \A s \in RunIds \ {r} : g[s] = f[s] /\ k[s] = h[s]
      /\ f[r] = Commitment(r) /\ g[r] = Commitment(r)'
      /\ h[r] = Uncounted(r) /\ k[r] = Uncounted(r)'
  BY <1>4
<1>8. /\ Committed = Total(f) /\ Committed' = Total(g)
      /\ Total([s \in RunIds |-> Uncounted(s)]) = Total(h)
      /\ Total([s \in RunIds |-> Uncounted(s)])' = Total(k)
  BY DEF Committed
<1> HIDE DEF f, g, h, k
<1>9. /\ Total(g) = Total(f) - Positive(f[r]) + Positive(g[r])
      /\ Total(k) = Total(h) - Positive(h[r]) + Positive(k[r])
  BY <1>5, <1>6, <1>7, RunIdsAreFinite, TotalUpdate
<1>10. /\ missed \in Nat /\ missed' \in Nat
       /\ Positive(f[r]) \in Nat /\ Positive(g[r]) \in Nat
       /\ Positive(h[r]) \in Nat /\ Positive(k[r]) \in Nat
  <2>1. f[r] \in Int /\ g[r] \in Int /\ h[r] \in Int /\ k[r] \in Int
    BY <1>5, <1>6
  <2> QED
    BY <2>1 DEF Positive, IInv, TypeOK
<1>11. Committed' <= Committed + (missed' - missed)
  BY <1>5, <1>6, <1>7, <1>8, <1>9, <1>10
<1>12. (\E d \in Dispatches : At(d, "runs")) =>
           Total([s \in RunIds |-> Uncounted(s)])'
              <= Total([s \in RunIds |-> Uncounted(s)]) + (missed' - missed)
  <2> SUFFICES ASSUME \E d \in Dispatches : At(d, "runs")
               PROVE  Total(k) <= Total(h) + (missed' - missed)
    BY <1>8
  <2>1. Positive(k[r]) <= Positive(h[r]) + (missed' - missed)
    BY <1>7
  <2> QED
    BY <1>5, <1>6, <1>9, <1>10, <2>1
<1> QED
  BY <1>1, <1>2, <1>11, <1>12, OthersMoney

\* An entry takes the place of the reservation; what exceeds it is counted as missed.
LEMMA RecordCostMoney ==
    ASSUME IInv, IInv', MoneyInv, NEW r \in RunIds, NEW c \in Costs, RecordCost(r, c)
    PROVE  MoneyInv'
<1>1. /\ runs[r] = "running" /\ spent[r] = -1 /\ spent' = [spent EXCEPT ![r] = c]
      /\ missed' = missed + AtLeastZero(c - Reservation(r[1]))
      /\ UNCHANGED <<status, assigned, runs, disp, overlap>>
  BY DEF RecordCost
<1>2. /\ c \in Nat /\ Reservation(r[1]) \in Nat /\ missed \in Nat /\ missed' \in Nat
      /\ spent'[r] = c /\ \A s \in RunIds \ {r} : spent'[s] = spent[s]
  BY <1>1, RunIdFacts, ReservationType, DispatchAssumption DEF IInv, TypeOK
<1>3. r \in ActiveRuns /\ ActiveRuns' = ActiveRuns /\ assigned[r[1]] = r
  BY <1>1 DEF ActiveRuns, IInv, ClaimsOK
<1>4. Commitment(r) = Reservation(r[1]) /\ Commitment(r)' = c
  BY <1>1, <1>2, <1>3 DEF Commitment
<1>5. Uncounted(r) = -1 /\ Uncounted(r)' = AtLeastZero(c - Reservation(r[1]))
  BY <1>1, <1>2, <1>3 DEF Uncounted
<1>6. /\ missed <= missed'
      /\ Positive(Commitment(r)') <= Positive(Commitment(r)) + (missed' - missed)
      /\ Positive(Uncounted(r)') <= Positive(Uncounted(r)) + (missed' - missed)
  BY <1>1, <1>2, <1>4, <1>5 DEF Positive, AtLeastZero
<1> QED
  BY <1>1, <1>2, <1>6, OneRunMoney

\* A run that ends keeps nothing back any more.
LEMMA FinishRunMoney ==
    ASSUME IInv, IInv', MoneyInv, NEW r \in RunIds, NEW ok \in BOOLEAN, FinishRun(r, ok)
    PROVE  MoneyInv'
<1> DEFINE to == IF ok THEN "succeeded" ELSE "failed"
<1>1. /\ runs[r] = "running" /\ runs' = [runs EXCEPT ![r] = to]
      /\ \E taskTo : status' = [status EXCEPT ![r[1]] = taskTo]
      /\ missed' = missed + (IF spent[r] # -1 /\ \E d \in Dispatches : At(d, "runs")
                               THEN spent[r] ELSE 0)
      /\ UNCHANGED <<assigned, spent, disp, overlap>>
  BY DEF FinishRun
<1>2. to \in {"succeeded", "failed"}
  OBVIOUS
<1> HIDE DEF to
<1>3. /\ runs'[r] = to /\ \A s \in RunIds \ {r} : runs'[s] = runs[s] /\ spent'[s] = spent[s]
  BY <1>1 DEF IInv, TypeOK
<1>4. /\ Reservation(r[1]) \in Nat /\ missed \in Nat /\ spent[r] \in Int
      /\ spent[r] # -1 => spent[r] \in Nat
  BY RunIdFacts, ReservationType, DispatchAssumption DEF IInv, TypeOK
<1>5. r \in ActiveRuns /\ r \notin ActiveRuns' /\ assigned[r[1]] = r /\ status[r[1]] # "pending"
  <2>1. assigned[r[1]] = r /\ r[1] \in Tasks /\ r # NoRun
    BY <1>1, RunIdFacts DEF IInv, ClaimsOK
  <2>2. status[r[1]] # "pending"
    BY <1>1, <2>1 DEF IInv, RowsOK, Allowed
  <2> QED
    BY <1>1, <1>2, <1>3, <2>1, <2>2 DEF ActiveRuns
<1>6. \A t \in Tasks : status[t] = "pending" /\ assigned[t] = NoRun => status'[t] = "pending"
  BY <1>1, <1>5 DEF IInv, TypeOK
<1>7. missed <= missed'
  BY <1>1, <1>4
<1>8. Positive(Commitment(r)') <= Positive(Commitment(r)) + (missed' - missed)
  <2>1. CASE spent[r] # -1
    <3>1. Commitment(r)' = Commitment(r)
      BY <1>1, <2>1 DEF Commitment
    <3>2. Commitment(r) \in Nat
      BY <1>4, <2>1 DEF Commitment
    <3> QED
      BY <1>1, <1>4, <1>7, <3>1, <3>2 DEF Positive
  <2>2. CASE spent[r] = -1
    <3>1. Commitment(r)' = 0 /\ Commitment(r) = Reservation(r[1])
      BY <1>1, <1>5, <2>2 DEF Commitment
    <3> QED
      BY <1>1, <1>4, <2>2, <3>1 DEF Positive
  <2> QED
    BY <2>1, <2>2
<1>9. ASSUME \E d \in Dispatches : At(d, "runs")
      PROVE  Positive(Uncounted(r)') <= Positive(Uncounted(r)) + (missed' - missed)
  <2>1. Uncounted(r)' = spent[r]
    BY <1>1, <1>5 DEF Uncounted
  <2>2. missed' = missed + (IF spent[r] # -1 THEN spent[r] ELSE 0)
    BY <1>1, <1>9
  <2>3. Uncounted(r) \in Int
    BY <1>4, AtLeastZeroType DEF Uncounted
  <2> QED
    BY <1>4, <2>1, <2>2, <2>3 DEF Positive
<1> QED
  BY <1>1, <1>2, <1>3, <1>6, <1>7, <1>8, <1>9, OneRunMoney

LEMMA NextMoney == IInv /\ IInv' /\ MoneyInv /\ [Next]_vars => MoneyInv'
<1> SUFFICES ASSUME IInv, IInv', MoneyInv, [Next]_vars PROVE MoneyInv'
  OBVIOUS
<1>1. ASSUME NEW d \in Dispatches, DispatchStep(d) PROVE MoneyInv'
  BY <1>1, ReadTasksMoney, ReadLedgerMoney, ReadRunsMoney, AssignedMoney, AssignMoney,
     InsertRunMoney, UndoRunMoney, RereadTaskMoney DEF DispatchStep
<1>2. ASSUME NEW d \in Dispatches, DispatchDies(d) PROVE MoneyInv'
  BY <1>2, AssignedMoney
<1>3. ASSUME NEW d \in Dispatches, NEW r \in RunIds, Launch(d, r, FALSE) PROVE MoneyInv'
  BY <1>3, AssignedMoney
<1>4. ASSUME NEW t \in Tasks, CreateTask(t) PROVE MoneyInv'
  BY <1>4, CreateTaskMoney
<1>5. ASSUME NEW t \in Tasks, NEW v \in {"completed", "failed"}, Judge(t, v) PROVE MoneyInv'
  BY <1>5, JudgeMoney
<1>6. ASSUME NEW r \in RunIds, ClaimRun(r) PROVE MoneyInv'
  BY <1>6, ClaimRunMoney
<1>7. ASSUME NEW r \in RunIds, NEW c \in Costs, RecordCost(r, c) PROVE MoneyInv'
  BY <1>7, RecordCostMoney
<1>8. ASSUME NEW r \in RunIds, NEW ok \in BOOLEAN, FinishRun(r, ok) PROVE MoneyInv'
  BY <1>8, FinishRunMoney
<1>9. CASE UNCHANGED vars
  BY <1>9, StatusMoney DEF vars, store
<1> QED
  BY <1>1, <1>2, <1>3, <1>4, <1>5, <1>6, <1>7, <1>8, <1>9 DEF Next

-----------------------------------------------------------------------------
(* The theorems                                                            *)

\* Every step keeps it.
LEMMA NextIInv == IInv /\ [Next]_vars => IInv'
<1> SUFFICES ASSUME IInv, [Next]_vars PROVE IInv'
  OBVIOUS
<1>1. ASSUME NEW d \in Dispatches, DispatchStep(d) PROVE IInv'
  BY <1>1, ReadTasksStep, ReadLedgerStep, ReadRunsStep, AssignedStep, AssignStep,
     InsertRunStep, UndoRunStep, RereadTaskStep, LaunchStep, RespondStep DEF DispatchStep
<1>2. ASSUME NEW d \in Dispatches, DispatchDies(d) PROVE IInv'
  BY <1>2, DispatchDiesStep
<1>3. ASSUME NEW d \in Dispatches, NEW r \in RunIds, Launch(d, r, FALSE) PROVE IInv'
  BY <1>3, LaunchStep
<1>4. ASSUME NEW t \in Tasks, CreateTask(t) PROVE IInv'
  BY <1>4, CreateTaskStep
<1>5. ASSUME NEW t \in Tasks, NEW v \in {"completed", "failed"}, Judge(t, v) PROVE IInv'
  BY <1>5, JudgeStep
<1>6. ASSUME NEW r \in RunIds, ClaimRun(r) PROVE IInv'
  BY <1>6, ClaimRunStep
<1>7. ASSUME NEW r \in RunIds, NEW c \in Costs, RecordCost(r, c) PROVE IInv'
  BY <1>7, RecordCostStep
<1>8. ASSUME NEW r \in RunIds, NEW ok \in BOOLEAN, FinishRun(r, ok) PROVE IInv'
  BY <1>8, FinishRunStep
<1>9. CASE UNCHANGED vars
  <2>1. /\ UNCHANGED <<status, assigned, runs, spent, launched, faults, claims, missed, overlap>>
        /\ disp' = disp
    BY <1>9 DEF vars, store
  <2>2. TypeOK'
    BY <2>1 DEF IInv, TypeOK
  <2>3. RowsOK' /\ ClaimsOK'
    BY <2>1 DEF IInv, RowsOK, ClaimsOK
  <2> QED
    BY <2>1, <2>2, <2>3, OthersStep
<1> QED
  BY <1>1, <1>2, <1>3, <1>4, <1>5, <1>6, <1>7, <1>8, <1>9 DEF Next

\* The inductive invariant holds throughout.
THEOREM Invariant == Spec => []IInv
<1> QED
  BY InitIInv, NextIInv, PTL DEF Spec

\* The rows, the dispatches and the counters keep their types.
THEOREM TypeCorrect == Spec => []TypeOK
<1>1. IInv => TypeOK
  BY DEF IInv
<1> QED
  BY Invariant, <1>1, PTL

\* No task is given to a worker before all it depends on is completed, although a
\* dispatch decides on a list that others make obsolete (eligibility.ts:48).
THEOREM DependenciesComeFirst == Spec => []DependenciesFirst
<1>1. IInv => DependenciesFirst
  BY DEF IInv
<1> QED
  BY Invariant, <1>1, PTL

\* However many dispatches and launches race for a task, one worker works on it
\* (assignTaskToWorkerRun, claimQueuedWorkerRun).
THEOREM OneWorkerWorks == Spec => []OneWorkerPerTask
<1>1. IInv => OneWorkerPerTask
  <2> SUFFICES ASSUME IInv, NEW t \in Tasks
               PROVE  /\ \A r \in RunsOf(t) :
                            claims[r] > 0 \/ runs[r] \notin {"absent", "queued"} => r = assigned[t]
                      /\ assigned[t] # NoRun => claims[assigned[t]] <= 1
    BY DEF OneWorkerPerTask
  <2>1. \A r \in RunsOf(t) : r \in RunIds /\ r[1] = t
    BY DEF RunsOf, RunIds
  <2>2. assigned[t] # NoRun => assigned[t] \in RunIds
    BY DEF IInv, TypeOK
  <2> QED
    BY <2>1, <2>2 DEF IInv, ClaimsOK
<1> QED
  BY Invariant, <1>1, PTL

\* The queued run of a task has a worker launched for it, or a dispatch that is about
\* to, as long as no dispatch dies and no launch is refused (dispatcher.ts:206).
THEOREM AssignedTasksAreLaunched == Spec => []AssignedIsLaunched
<1>1. IInv => AssignedIsLaunched
  BY DEF IInv
<1> QED
  BY Invariant, <1>1, PTL

\* Dispatches that do not overlap keep within the hard limit, spent and set aside money
\* together, but for costs above a reservation and costs of runs that end between the
\* two reads of a dispatch, for any tasks, reservations, costs and limits
\* (dispatcher.ts:134 and :146).
THEOREM LimitIsKept == Spec => []CommittedWithinLimit
<1>1. MoneyInv => CommittedWithinLimit
  BY DEF MoneyInv, RoomOK, Careful, CommittedWithinLimit
<1>2. Spec => []MoneyInv
  BY Invariant, InitMoney, NextMoney, PTL DEF Spec
<1> QED
  BY <1>1, <1>2, PTL
=============================================================================
