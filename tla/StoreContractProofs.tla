------------------------- MODULE StoreContractProofs -------------------------
(***************************************************************************)
(* Proofs about StoreContract, for any tasks, runs, tokens and bounds.     *)
(***************************************************************************)
EXTENDS StoreContract, FiniteSetTheorems, TLAPS

\* Every row belongs to a task.
RowsOK == \A r \in Run : run[r].status # "absent" => run[r].task \in Task

Typed == TypeOK /\ RowsOK

LEMMA MoveTypes ==
    ASSUME NEW m \in MoveName
    PROVE  /\ Move[m].from \in Active
           /\ Move[m].to \in Terminal
           /\ Move[m].taskTo \in TaskStatus
           /\ Move[m].taskTo \in Together[Move[m].to]
  <1>1. CASE m = "succeed" BY <1>1 DEF Move, Active, Terminal, TaskStatus, Together
  <1>2. CASE m = "fail" BY <1>2 DEF Move, Active, Terminal, TaskStatus, Together
  <1>3. CASE m = "cancelRunning"
    BY <1>3 DEF Move, Active, Terminal, TaskStatus, Together
  <1>4. CASE m = "cancelQueued"
    BY <1>4 DEF Move, Active, Terminal, TaskStatus, Together
  <1>5. CASE m = "timeout" BY <1>5 DEF Move, Active, Terminal, TaskStatus, Together
  <1> QED BY <1>1, <1>2, <1>3, <1>4, <1>5 DEF MoveName

LEMMA TogetherCases ==
    /\ Together["queued"] = {"assigned"}
    /\ Together["running"] = {"in_progress"}
    /\ {"completed", "failed"} \subseteq Together["succeeded"]
  BY DEF Together

LEMMA VerdictTypes ==
    \A v \in DOMAIN Verdict : Verdict[v] \in {"completed", "failed"}
  BY DEF Verdict

LEMMA RunCount == \A t \in Task : Cardinality(RunsOf(t)) \in Nat
  <1> TAKE t \in Task
  <1>1. IsFiniteSet(RunsOf(t)) BY RunAssumption, FS_Subset DEF RunsOf
  <1> QED BY <1>1, FS_CardinalityType

LEMMA QueuedType ==
    ASSUME NEW t \in Task, NEW i \in Nat
    PROVE  /\ Queued(t, i) \in RunRow
           /\ Queued(t, i).status = "queued" /\ Queued(t, i).task = t
  BY DEF Queued, RunRow, RunStatus, Active, NoLease

LEMMA ClosedType ==
    ASSUME NEW row \in RunRow, NEW to \in Terminal
    PROVE  /\ Closed(row, to) \in RunRow
           /\ Closed(row, to).status = to /\ Closed(row, to).task = row.task
  BY DEF Closed, RunRow, RunStatus, NoLease
-----------------------------------------------------------------------------
(***************************************************************************)
(* The inductive invariant.  A step of the contract either puts a fresh    *)
(* run on a task whose run, if it has one, is over, or changes an assigned *)
(* run and its task to a pair of statuses that go together.                *)
(***************************************************************************)
IInv == Typed /\ TaskFollowsRun /\ SingleNonterminalRun

LEMMA FreshKeeps ==
    ASSUME IInv, NEW t \in Task, NEW r \in Run, NEW i \in Nat,
           run[r].status = "absent",
           task[t].assigned # NoRun =>
              task[t].assigned \in Run /\ run[task[t].assigned].status \notin Active,
           run' = [run EXCEPT ![r] = Queued(t, i)],
           task' = [task EXCEPT ![t] = [status |-> "assigned", assigned |-> r]],
           UNCHANGED clock
    PROVE  IInv'
  <1> DEFINE row == Queued(t, i)
  <1>0. TypeOK /\ RowsOK /\ TaskFollowsRun /\ SingleNonterminalRun
    BY DEF IInv, Typed
  <1>1. row \in RunRow /\ row.status = "queued" /\ row.task = t BY QueuedType
  <1> HIDE DEF row
  <1>2. \A u \in Run : run'[u] = IF u = r THEN row ELSE run[u]
    BY <1>0 DEF TypeOK, row
  <1>3. \A s \in Task : task'[s] = IF s = t
                                   THEN [status |-> "assigned", assigned |-> r]
                                   ELSE task[s]
    BY <1>0 DEF TypeOK
  <1>4. \A s \in Task : task[s].assigned # r
    BY <1>0, NullAssumption DEF TaskFollowsRun
  <1>5. Typed'
    <2>1. task' \in [Task -> TaskRow] BY <1>0 DEF TypeOK, TaskRow, TaskStatus
    <2>2. run' \in [Run -> RunRow] BY <1>0, <1>1 DEF TypeOK, row
    <2>3. RowsOK' BY <1>0, <1>1, <1>2 DEF RowsOK
    <2> QED BY <1>0, <2>1, <2>2, <2>3 DEF Typed, TypeOK
  <1>6. TaskFollowsRun'
    BY <1>0, <1>1, <1>2, <1>3, <1>4, TogetherCases, NullAssumption
       DEF TaskFollowsRun, TypeOK, TaskRow
  <1>7. SingleNonterminalRun'
    <2> SUFFICES ASSUME NEW u \in Run, run'[u].status \in Active
                 PROVE  task'[run'[u].task].assigned = u
      BY DEF SingleNonterminalRun
    <2>1. CASE u = r BY <1>1, <1>2, <1>3, <2>1
    <2>2. CASE u # r
      <3>1. run'[u] = run[u] /\ task[run[u].task].assigned = u
        BY <1>0, <1>2, <2>2 DEF SingleNonterminalRun
      <3>2. run[u].task # t BY <3>1, NullAssumption
      <3>3. run[u].task \in Task BY <1>0, <3>1 DEF RowsOK, Active
      <3> QED BY <1>3, <3>1, <3>2, <3>3
    <2> QED BY <2>1, <2>2
  <1> QED BY <1>5, <1>6, <1>7 DEF IInv

LEMMA PairKeeps ==
    ASSUME IInv, NEW r \in Run, Owns(r), NEW row \in RunRow, NEW status \in TaskStatus,
           row.task = run[r].task, row.status # "absent",
           status \in Together[row.status],
           run' = [run EXCEPT ![r] = row],
           task' = [task EXCEPT ![run[r].task].status = status],
           UNCHANGED clock
    PROVE  IInv'
  <1> DEFINE t == run[r].task
  <1>0. /\ TypeOK /\ RowsOK /\ TaskFollowsRun /\ SingleNonterminalRun
        /\ t \in Task /\ task[t].assigned = r
    BY DEF IInv, Typed, Owns, RowsOK
  <1> HIDE DEF t
  <1>1. \A u \in Run : run'[u] = IF u = r THEN row ELSE run[u]
    BY <1>0 DEF TypeOK
  <1>2. /\ \A s \in Task : task'[s].assigned = task[s].assigned
        /\ \A s \in Task \ {t} : task'[s] = task[s]
        /\ task'[t].status = status
    BY <1>0 DEF TypeOK, TaskRow, t
  <1>3. Typed'
    <2>1. task' \in [Task -> TaskRow] BY <1>0 DEF TypeOK, TaskRow, t
    <2>2. run' \in [Run -> RunRow] BY <1>0 DEF TypeOK
    <2>3. RowsOK' BY <1>0, <1>1 DEF RowsOK, t
    <2> QED BY <1>0, <2>1, <2>2, <2>3 DEF Typed, TypeOK
  <1>4. TaskFollowsRun'
    <2>1. \A s \in Task \ {t} : task[s].assigned # r
      BY <1>0, NullAssumption DEF TaskFollowsRun, t
    <2>2. \A s \in Task : task[s].assigned \in Run \cup {NoRun}
      BY <1>0 DEF TypeOK, TaskRow
    <2>3. task'[t].assigned = r /\ run'[r] = row /\ row.task = t
      BY <1>0, <1>1, <1>2 DEF t
    <2> QED BY <1>0, <1>1, <1>2, <2>1, <2>2, <2>3, NullAssumption DEF TaskFollowsRun
  <1>5. SingleNonterminalRun'
    BY <1>0, <1>1, <1>2 DEF SingleNonterminalRun, RowsOK, Active, t
  <1> QED BY <1>3, <1>4, <1>5 DEF IInv
-----------------------------------------------------------------------------
LEMMA InvInit == Init => IInv
  <1> SUFFICES ASSUME Init PROVE IInv OBVIOUS
  <1>1. TypeOK
    BY DEF Init, TypeOK, TaskRow, TaskStatus, RunRow, RunStatus, Absent, NoLease
  <1> QED BY <1>1 DEF Init, IInv, Typed, RowsOK, TaskFollowsRun,
                      SingleNonterminalRun, Absent, Active

LEMMA InvStep == IInv /\ [Next]_vars => IInv'
  <1> SUFFICES ASSUME IInv, [Next]_vars PROVE IInv'
    OBVIOUS
  <1>0. TypeOK /\ RowsOK /\ TaskFollowsRun /\ SingleNonterminalRun
    BY DEF IInv, Typed
  <1>1. ASSUME NEW t \in Task, NEW r \in Run, Assign(t, r) PROVE IInv'
    <2> DEFINE i == Cardinality(RunsOf(t)) + 1
    <2>1. i \in Nat BY RunCount
    <2>2. /\ run' = [run EXCEPT ![r] = Queued(t, i)]
          /\ task' = [task EXCEPT ![t] = [status |-> "assigned", assigned |-> r]]
          /\ UNCHANGED clock
          /\ run[r].status = "absent" /\ task[t].assigned = NoRun
      BY <1>1 DEF Assign
    <2> HIDE DEF i
    <2> QED BY <2>1, <2>2, FreshKeeps
  <1>2. ASSUME NEW prev \in Run, NEW new \in Run, Requeue(prev, new) PROVE IInv'
    <2> DEFINE t == run[prev].task
    <2>1. run[prev].iter + 1 \in Nat BY <1>0 DEF TypeOK, RunRow
    <2>2. t \in Task BY <1>0, <1>2 DEF Requeue, Requeueable, RowsOK
    <2>3. task[t].assigned = prev /\ run[prev].status \notin Active
      BY <1>2 DEF Requeue, Requeueable, Active
    <2> HIDE DEF t
    <2> QED BY <1>2, <2>1, <2>2, <2>3, FreshKeeps DEF Requeue, t
  <1>3. ASSUME NEW r \in Run, NEW tok \in Token, NEW now \in 1..clock,
               Claim(r, tok, now)
        PROVE  IInv'
    <2> DEFINE e == now + LeaseDuration
               row == [run[r] EXCEPT !.status = "running", !.token = tok,
                                     !.expires = e]
    <2>1. e \in Nat BY <1>0, DurationAssumption DEF TypeOK
    <2>2. run' = [run EXCEPT ![r] = row] BY <1>0, <1>3 DEF Claim, TypeOK
    <2> HIDE DEF e
    <2>3. run[r] \in RunRow BY <1>0 DEF TypeOK
    <2>4. row \in RunRow /\ row.status = "running" /\ row.task = run[r].task
      BY <2>1, <2>3 DEF RunRow, RunStatus, Active
    <2> HIDE DEF row
    <2> QED BY <1>3, <2>2, <2>4, PairKeeps, TogetherCases DEF Claim, TaskStatus
  <1>4. ASSUME NEW r \in Run, NEW tok \in Token, NEW now \in 1..clock,
               Heartbeat(r, tok, now)
        PROVE  IInv'
    <2> DEFINE e == now + LeaseDuration
               row == [run[r] EXCEPT !.expires = e]
               t == run[r].task
    <2>1. e \in Nat BY <1>0, DurationAssumption DEF TypeOK
    <2>2. run' = [run EXCEPT ![r] = row] BY <1>0, <1>4 DEF Heartbeat, TypeOK
    <2> HIDE DEF e
    <2>3. run[r] \in RunRow /\ run[r].status = "running"
      BY <1>0, <1>4 DEF TypeOK, Heartbeat
    <2>4. row \in RunRow /\ row.status = "running" /\ row.task = t
      BY <2>1, <2>3 DEF RunRow
    <2>5. Owns(r) BY <1>0, <2>3 DEF SingleNonterminalRun, Owns, Active
    <2>6. t \in Task /\ task[t].assigned = r BY <1>0, <2>5 DEF Owns, RowsOK
    <2>7. task[t].status = "in_progress"
      BY <1>0, <2>3, <2>6, TogetherCases, NullAssumption DEF TaskFollowsRun
    <2>8. task' = [task EXCEPT ![t].status = "in_progress"]
      BY <1>0, <1>4, <2>6, <2>7 DEF Heartbeat, TypeOK, TaskRow
    <2> HIDE DEF row
    <2> QED BY <1>4, <2>2, <2>4, <2>5, <2>8, PairKeeps, TogetherCases
            DEF Heartbeat, TaskStatus
  <1>5. ASSUME NEW m \in MoveName, NEW r \in Run, NEW tok \in Token, NEW now,
               Transition(m, r, tok, now)
        PROVE  IInv'
    <2>1. run[r] \in RunRow BY <1>0 DEF TypeOK
    <2>2. /\ Move[m].to \in Terminal /\ Move[m].taskTo \in TaskStatus
          /\ Move[m].taskTo \in Together[Move[m].to]
      BY MoveTypes
    <2> DEFINE row == Closed(run[r], Move[m].to)
    <2>3. row \in RunRow /\ row.status = Move[m].to /\ row.task = run[r].task
      BY <2>1, <2>2, ClosedType
    <2>4. run' = [run EXCEPT ![r] = row]
      BY <1>0, <1>5 DEF Transition, TypeOK
    <2> HIDE DEF row
    <2> QED BY <1>5, <2>2, <2>3, <2>4, PairKeeps DEF Transition, Ready, Terminal
  <1>6. ASSUME NEW t \in Task, NEW v \in DOMAIN Verdict, Verify(t, v) PROVE IInv'
    <2>1. PICK r \in Run : task[t].assigned = r /\ run[r].status = "succeeded"
      BY <1>6 DEF Verify
    <2>2. run[r].task = t /\ Owns(r)
      BY <1>0, <2>1, NullAssumption DEF TaskFollowsRun, Owns
    <2>3. run' = [run EXCEPT ![r] = run[r]] /\ run[r] \in RunRow
      BY <1>0, <1>6 DEF Verify, TypeOK
    <2>4. Verdict[v] \in TaskStatus /\ Verdict[v] \in Together["succeeded"]
      BY VerdictTypes, TogetherCases DEF TaskStatus
    <2> QED BY <1>6, <2>1, <2>2, <2>3, <2>4, PairKeeps DEF Verify
  <1>7. CASE Tick \/ UNCHANGED vars
    <2>1. UNCHANGED <<task, run>> /\ clock' \in Nat
      BY <1>0, <1>7 DEF Tick, vars, TypeOK
    <2> QED BY <1>0, <2>1 DEF IInv, Typed, TypeOK, RowsOK, TaskFollowsRun,
                              SingleNonterminalRun
  <1> QED BY <1>1, <1>2, <1>3, <1>4, <1>5, <1>6, <1>7 DEF Next

(***************************************************************************)
(* The rows of the in-memory store keep to the statuses, leases and        *)
(* attempt numbers of the domain types.                                    *)
(***************************************************************************)
THEOREM TypeCorrect == Spec => []TypeOK
  <1>1. IInv => TypeOK BY DEF IInv, Typed
  <1> QED BY <1>1, InvInit, InvStep, PTL DEF Spec

(***************************************************************************)
(* In the in-memory store a task and its run move together, whatever the   *)
(* callers do.                                                             *)
(***************************************************************************)
THEOREM TogetherAlways == Spec => []TaskFollowsRun
  <1>1. IInv => TaskFollowsRun BY DEF IInv
  <1> QED BY <1>1, InvInit, InvStep, PTL DEF Spec

(***************************************************************************)
(* A task never has two runs that are queued or running.                   *)
(***************************************************************************)
THEOREM OneNonterminalRun == Spec => []SingleNonterminalRun
  <1>1. IInv => SingleNonterminalRun BY DEF IInv
  <1> QED BY <1>1, InvInit, InvStep, PTL DEF Spec
=============================================================================
