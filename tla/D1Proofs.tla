------------------------------- MODULE D1Proofs -------------------------------
(***************************************************************************)
(* Proofs about the D1 store, for any tasks, runs, tokens, handlers, lease *)
(* duration and bounds.  In three parts: what the tables and the calls in  *)
(* flight keep to, what the lifecycle tells the Master, and which contract *)
(* the store implements.                                                   *)
(***************************************************************************)
EXTENDS D1Refinement, FiniteSetTheorems, TLAPS


(***************************************************************************)
(* What a handler knows by the step it has reached: the kind of call it is *)
(* in, and which fields of its request that call has filled in.            *)
(***************************************************************************)
CallOK(q) ==
    /\ q.pc \in {"scan", "insert", "undo"} =>
          q.op \in {"assign", "retry"} /\ q.new \in Run /\ q.task \in Task
    /\ q.pc \in {"scan", "insert"} /\ q.op = "retry" => q.run \in Run
    /\ q.pc = "claim" => q.op = "claim" /\ q.tok \in Token
    /\ q.pc \in {"claim", "beat"} => q.run \in Run
    /\ q.pc = "next" => q.op = "timeout"
    /\ q.todo # {} => q.op = "timeout"
    /\ q.pc \in {"check", "batch", "reread"} => q.op \in MoveName /\ q.run \in Run
    /\ q.pc \in {"event", "addEvent"} =>
          q.op \in MoveName \cup {"claim", "retry"} /\ Subject(q) \in Run
    /\ q.pc \in {"report", "addReport", "inbox", "addInbox"} =>
          q.op \in {"succeed", "fail", "timeout"} /\ q.run \in Run
    /\ q.pc \in {"verdict", "notify"} =>
          q.op \in {"accept", "reject"} /\ q.task \in Task

Requests == req \in [Handler -> Request] /\ \A h \in Handler : CallOK(req[h])
\* Only a running run holds a token, and every row belongs to a task.
RowsOK ==
    \A r \in Run :
        /\ run[r].status # "running" => run[r].token = NoToken
        /\ run[r].status # "absent" => run[r].task \in Task

Typed == TypeOK /\ Requests /\ RowsOK

\* An id that was drawn for a run belongs to one handler and to no task.
NewRunsOK ==
    \A h \in Handler :
        /\ req[h].pc \in {"scan", "insert"} => run[req[h].new].status = "absent"
        /\ req[h].pc = "undo" => Orphan(req[h].new)
        /\ \A g \in Handler : g # h /\ req[h].new \in Run => req[g].new # req[h].new

\* A retry keeps the timed out run, a verdict the succeeded run, it began with.
BegunOK ==
    \A h \in Handler :
        LET q == req[h] IN
        /\ q.pc \in {"scan", "insert"} /\ q.op = "retry" =>
              run[q.run].status = "timed_out" /\ run[q.run].task = q.task
        /\ q.pc = "verdict" =>
              /\ task[q.task].assigned \in Run
              /\ run[task[q.task].assigned].status = "succeeded"

IInv == Typed /\ NewRunsOK /\ BegunOK /\ RunningOwns /\ TaskBacked
-----------------------------------------------------------------------------
(***************************************************************************)
(* The table of moves, read off move by move.                              *)
(***************************************************************************)
LEMMA MoveTypes ==
    ASSUME NEW m \in MoveName
    PROVE  /\ Move[m].from \in Active
           /\ Move[m].to \in Terminal
           /\ Move[m].leased \in BOOLEAN
           /\ Move[m].taskFrom \in {"assigned", "in_progress"}
           /\ Move[m].taskTo \in TaskStatus \ {"pending", "assigned", "in_progress"}
  <1>1. CASE m = "succeed" BY <1>1 DEF Move, Active, Terminal, TaskStatus
  <1>2. CASE m = "fail" BY <1>2 DEF Move, Active, Terminal, TaskStatus
  <1>3. CASE m = "cancelRunning" BY <1>3 DEF Move, Active, Terminal, TaskStatus
  <1>4. CASE m = "cancelQueued" BY <1>4 DEF Move, Active, Terminal, TaskStatus
  <1>5. CASE m = "timeout" BY <1>5 DEF Move, Active, Terminal, TaskStatus
  <1> QED BY <1>1, <1>2, <1>3, <1>4, <1>5 DEF MoveName

LEMMA IdleOK == Idle \in Request /\ CallOK(Idle) /\ Idle.new = NoRun /\ Idle.pc = "idle"
  BY DEF Idle, Request, Step, Call, CallOK

(***************************************************************************)
(* The four ways a step leaves its handler: at the start of a call, at     *)
(* another step of it, returned, or thrown out.                            *)
(***************************************************************************)
LEMMA BeginKeeps ==
    ASSUME Requests, NEW h \in Handler, NEW q \in Request, CallOK(q),
           req' = [req EXCEPT ![h] = q]
    PROVE  Requests'
  BY DEF Requests

LEMMA GotoKeeps ==
    ASSUME Requests, NEW h \in Handler, NEW step \in Step, Goto(h, step),
           CallOK([req[h] EXCEPT !.pc = step])
    PROVE  Requests'
  <1> DEFINE q == [req[h] EXCEPT !.pc = step]
  <1>1. req[h] \in Request BY DEF Requests
  <1>2. q \in Request BY <1>1 DEF Request
  <1>3. req' = [req EXCEPT ![h] = q] BY DEF Goto
  <1> QED BY <1>2, <1>3, BeginKeeps

LEMMA ThrowKeeps ==
    ASSUME Requests, NEW h \in Handler, Throw(h)
    PROVE  Requests'
  BY IdleOK, BeginKeeps DEF Throw

LEMMA ReturnKeeps ==
    ASSUME Requests, NEW h \in Handler, Return(h)
    PROVE  Requests'
  <1> DEFINE q == [req[h] EXCEPT !.pc = "next"]
  <1>1. req[h] \in Request /\ CallOK(req[h]) BY DEF Requests
  <1>2. CASE req[h].todo = {}
    <2>1. req' = [req EXCEPT ![h] = Idle] BY <1>2 DEF Return
    <2> QED BY <2>1, IdleOK, BeginKeeps
  <1>3. CASE req[h].todo # {}
    <2>1. req' = [req EXCEPT ![h] = q] BY <1>3 DEF Return
    <2>2. q \in Request BY <1>1 DEF Request, Step
    <2>3. CallOK(q) BY <1>1, <1>3 DEF CallOK, Request
    <2> QED BY <2>1, <2>2, <2>3, BeginKeeps
  <1> QED BY <1>2, <1>3
-----------------------------------------------------------------------------
(***************************************************************************)
(* Types.                                                                  *)
(***************************************************************************)
LEMMA RowTypes ==
    /\ Absent \in RunRow
    /\ \A t \in Task, i \in Nat : Queued(t, i) \in RunRow
    /\ \A row \in RunRow, to \in Terminal : Closed(row, to) \in RunRow
  <1>1. Absent \in RunRow BY DEF Absent, RunRow, RunStatus, NoLease
  <1>2. \A t \in Task, i \in Nat : Queued(t, i) \in RunRow
    BY DEF Queued, RunRow, RunStatus, Active, NoLease
  <1>3. ASSUME NEW row \in RunRow, NEW to \in Terminal
        PROVE  Closed(row, to) \in RunRow
    <2>1. to \in RunStatus BY <1>3 DEF RunStatus
    <2>2. (IF to = "timed_out" THEN row.expires ELSE NoLease) \in Nat
      BY <1>3 DEF RunRow, NoLease
    <2> QED BY <1>3, <2>1, <2>2 DEF Closed, RunRow
  <1> QED BY <1>1, <1>2, <1>3

LEMMA RunCount == \A t \in Task : Cardinality(RunsOf(t)) \in Nat
  <1> TAKE t \in Task
  <1>1. IsFiniteSet(RunsOf(t)) BY RunAssumption, FS_Subset DEF RunsOf
  <1> QED BY <1>1, FS_CardinalityType

LEMMA TypedInit == Init => Typed
  <1> SUFFICES ASSUME Init PROVE Typed OBVIOUS
  <1>1. task \in [Task -> TaskRow] BY DEF Init, TaskRow, TaskStatus
  <1>2. run \in [Run -> RunRow] BY RowTypes DEF Init
  <1>3. Requests BY IdleOK DEF Init, Requests
  <1>4. RowsOK BY DEF Init, RowsOK, Absent
  <1> QED BY <1>1, <1>2, <1>3, <1>4 DEF Init, Typed, TypeOK, Outcome, Requests

LEMMA QuietTyped ==
    ASSUME Typed, Requests', UNCHANGED <<tables, clock, records, crashes>>
    PROVE  Typed'
  BY DEF Typed, TypeOK, RowsOK, Requests, tables, records

\* The calls begin.
LEMMA TypedStart ==
    ASSUME Typed, NEW h \in Handler, Start(h)
    PROVE  Typed'
  <1>0. Requests /\ RowsOK /\ clock \in Nat /\ run \in [Run -> RunRow]
    BY DEF Typed, TypeOK
  <1>1. ASSUME NEW t \in Task, NEW r \in Run, StartAssign(h, t, r) PROVE Typed'
    <2> DEFINE q == [Idle EXCEPT !.pc = "scan", !.op = "assign", !.task = t, !.new = r]
    <2>1. q \in Request /\ CallOK(q) BY DEF Idle, Request, Step, Call, CallOK
    <2>2. req' = [req EXCEPT ![h] = q] BY <1>1 DEF StartAssign
    <2>3. Requests' BY <1>0, <2>1, <2>2, BeginKeeps
    <2> QED BY <1>1, <2>3, QuietTyped DEF StartAssign
  <1>2. ASSUME NEW prev \in Run, NEW new \in Run, StartRetry(h, prev, new) PROVE Typed'
    <2> DEFINE i == run[prev].iter + 1
               t == run[prev].task
               q == [Idle EXCEPT !.pc = "scan", !.op = "retry", !.run = prev,
                                 !.task = t, !.new = new, !.iter = i]
    <2>1. i \in Nat BY <1>0 DEF RunRow
    <2>2. t \in Task BY <1>0, <1>2 DEF StartRetry, RowsOK
    <2>3. req' = [req EXCEPT ![h] = q] BY <1>2 DEF StartRetry
    <2> HIDE DEF i, t
    <2>4. q \in Request /\ CallOK(q)
      BY <2>1, <2>2 DEF Idle, Request, Step, Call, CallOK
    <2>5. Requests' BY <1>0, <2>3, <2>4, BeginKeeps
    <2> QED BY <1>2, <2>5, QuietTyped DEF StartRetry
  <1>3. ASSUME NEW r \in Run, NEW tok \in Token, StartClaim(h, r, tok) PROVE Typed'
    <2> DEFINE q == [Idle EXCEPT !.pc = "claim", !.op = "claim", !.run = r,
                                 !.tok = tok, !.at = clock]
    <2>1. q \in Request /\ CallOK(q)
      BY <1>0 DEF Idle, Request, Step, Call, CallOK
    <2>2. req' = [req EXCEPT ![h] = q] BY <1>3 DEF StartClaim
    <2>3. Requests' BY <1>0, <2>1, <2>2, BeginKeeps
    <2> QED BY <1>3, <2>3, QuietTyped DEF StartClaim
  <1>4. ASSUME NEW r \in Run, NEW tok \in Token, StartHeartbeat(h, r, tok) PROVE Typed'
    <2> DEFINE q == [Idle EXCEPT !.pc = "beat", !.op = "heartbeat", !.run = r,
                                 !.tok = tok, !.at = clock]
    <2>1. q \in Request /\ CallOK(q)
      BY <1>0 DEF Idle, Request, Step, Call, CallOK
    <2>2. req' = [req EXCEPT ![h] = q] BY <1>4 DEF StartHeartbeat
    <2>3. Requests' BY <1>0, <2>1, <2>2, BeginKeeps
    <2> QED BY <1>4, <2>3, QuietTyped DEF StartHeartbeat
  <1>5. ASSUME NEW m \in MoveName, NEW r \in Run, NEW tok \in Token,
               StartMove(h, m, r, tok)
        PROVE  Typed'
    <2> DEFINE held == IF Move[m].leased THEN tok ELSE NoToken
               q == [Idle EXCEPT !.pc = "check", !.op = m, !.run = r, !.at = clock,
                                 !.tok = held]
    <2>1. held \in Token \cup {NoToken} OBVIOUS
    <2> HIDE DEF held
    <2>2. q \in Request /\ CallOK(q)
      BY <1>0, <2>1 DEF Idle, Request, Step, Call, CallOK
    <2>3. req' = [req EXCEPT ![h] = q] BY <1>5 DEF StartMove, held
    <2>4. Requests' BY <1>0, <2>2, <2>3, BeginKeeps
    <2> QED BY <1>5, <2>4, QuietTyped DEF StartMove
  <1>6. ASSUME NEW t \in Task, NEW v \in DOMAIN Verdict, StartVerdict(h, t, v)
        PROVE  Typed'
    <2> DEFINE q == [Idle EXCEPT !.pc = "verdict", !.op = v, !.task = t]
    <2>1. v \in {"accept", "reject"} BY DEF Verdict
    <2>2. q \in Request /\ CallOK(q)
      BY <2>1 DEF Idle, Request, Step, Call, CallOK
    <2>3. req' = [req EXCEPT ![h] = q] BY <1>6 DEF StartVerdict
    <2>4. Requests' BY <1>0, <2>2, <2>3, BeginKeeps
    <2> QED BY <1>6, <2>4, QuietTyped DEF StartVerdict
  <1>7. ASSUME StartRecover(h) PROVE Typed'
    <2> DEFINE q == [Idle EXCEPT !.pc = "next", !.op = "timeout", !.at = clock,
                                 !.todo = {r \in Run : Expired(r)}]
    <2>1. q \in Request /\ CallOK(q)
      BY <1>0 DEF Idle, Request, Step, Call, CallOK, MoveName
    <2>2. req' = [req EXCEPT ![h] = q] BY <1>7 DEF StartRecover
    <2>3. Requests' BY <1>0, <2>1, <2>2, BeginKeeps
    <2> QED BY <1>7, <2>3, QuietTyped DEF StartRecover
  <1> QED BY <1>1, <1>2, <1>3, <1>4, <1>5, <1>6, <1>7 DEF Start

LEMMA EventTypes ==
    /\ \A op \in MoveName \cup {"claim", "retry"} : EventOf[op] \in EventName
    /\ DOMAIN OutcomeOf = {"succeed", "fail", "timeout"}
    /\ \A op \in {"succeed", "fail", "timeout"} :
          OutcomeOf[op] \in {"success", "failure"}
  BY DEF EventOf, EventName, MoveName, OutcomeOf

LEMMA VerdictTypes ==
    /\ DOMAIN Verdict = {"accept", "reject"}
    /\ \A v \in {"accept", "reject"} : Verdict[v] \in {"completed", "failed"}
  BY DEF Verdict

LEMMA PutRow ==
    ASSUME Typed, NEW r \in Run, NEW row \in RunRow,
           row.status # "running" => row.token = NoToken,
           row.status # "absent" => row.task \in Task,
           run' = [run EXCEPT ![r] = row]
    PROVE  run' \in [Run -> RunRow] /\ RowsOK'
  BY DEF Typed, TypeOK, RowsOK

LEMMA TablesTyped ==
    ASSUME Typed, Requests', task' \in [Task -> TaskRow], run' \in [Run -> RunRow],
           RowsOK', UNCHANGED <<clock, records, crashes>>
    PROVE  Typed'
  BY DEF Typed, TypeOK, RowsOK, Requests, records

\* The calls go on.
LEMMA TypedContinue ==
    ASSUME Typed, NEW h \in Handler, Continue(h)
    PROVE  Typed'
  <1> DEFINE q == req[h]
  <1>0. /\ Requests /\ RowsOK /\ TypeOK
        /\ q \in Request /\ CallOK(q)
    BY DEF Typed, Requests
  <1>a. \A step \in Step : Goto(h, step) /\ CallOK([q EXCEPT !.pc = step]) => Requests'
    BY <1>0, GotoKeeps
  <1>b. Return(h) => Requests' BY <1>0, ReturnKeeps
  <1>c. Throw(h) => Requests' BY <1>0, ThrowKeeps
  <1> HIDE DEF q
  <1>1. CASE Scan(h)
    <2>1. CASE q.op = "assign"
      <3> DEFINE n == Cardinality(RunsOf(q.task)) + 1
                 p == [q EXCEPT !.pc = "insert", !.iter = n]
      <3>1. q.pc = "scan" /\ q.task \in Task BY <1>0, <1>1 DEF Scan, q, CallOK
      <3>2. n \in Nat BY <3>1, RunCount
      <3>3. req' = [req EXCEPT ![h] = p]
        BY <1>1, <2>1, <1>0 DEF Scan, q, Requests, Request
      <3> HIDE DEF n
      <3>4. p \in Request /\ CallOK(p)
        BY <1>0, <2>1, <3>1, <3>2 DEF Request, Step, CallOK
      <3>5. Requests' BY <1>0, <3>3, <3>4, BeginKeeps
      <3> QED BY <1>1, <3>5, QuietTyped DEF Scan
    <2>2. CASE q.op = "retry"
      <3>1. CallOK([q EXCEPT !.pc = "insert"])
        BY <1>0, <1>1, <2>2 DEF Scan, q, CallOK, Request
      <3>2. Requests' BY <1>1, <1>a, <1>b, <2>2, <3>1 DEF Scan, Step, q
      <3> QED BY <1>1, <3>2, QuietTyped DEF Scan
    <2> QED BY <1>0, <1>1, <2>1, <2>2 DEF CallOK, Scan, q
  <1>2. CASE Insert(h)
    <2>1. /\ q.pc = "insert" /\ q.new \in Run /\ q.task \in Task
          /\ q.op \in {"assign", "retry"} /\ q.iter \in Nat
      BY <1>0, <1>2 DEF Insert, q, CallOK, Request
    <2>2. CallOK([q EXCEPT !.pc = "event"]) \/ q.op # "retry"
      BY <1>0, <2>1 DEF CallOK, Request, Subject
    <2>3. CallOK([q EXCEPT !.pc = "undo"])
      BY <1>0, <2>1 DEF CallOK, Request
    <2>4. Requests' BY <1>2, <1>a, <1>b, <2>1, <2>2, <2>3 DEF Insert, Step, q
    <2>5. run' \in [Run -> RunRow] /\ RowsOK'
      <3> DEFINE row == Queued(q.task, q.iter)
      <3>1. row \in RunRow BY <2>1, RowTypes
      <3>2. row.status = "queued" /\ row.token = NoToken /\ row.task = q.task
        BY DEF Queued
      <3>3. run' = [run EXCEPT ![q.new] = row] BY <1>2 DEF Insert, q
      <3> HIDE DEF row
      <3> QED BY <2>1, <3>1, <3>2, <3>3, PutRow
    <2>6. task' \in [Task -> TaskRow]
      BY <1>0, <1>2, <2>1 DEF Insert, q, TypeOK, TaskRow, TaskStatus
    <2> QED BY <1>2, <2>4, <2>5, <2>6, TablesTyped DEF Insert
  <1>3. CASE Undo(h)
    <2>1. q.pc = "undo" /\ q.new \in Run BY <1>0, <1>3 DEF Undo, q, CallOK
    <2>2. Requests' BY <1>3, <1>b DEF Undo
    <2>3. run' \in [Run -> RunRow] /\ RowsOK'
      <3>1. Absent.status = "absent" /\ Absent.token = NoToken BY DEF Absent
      <3>2. run' = [run EXCEPT ![q.new] = Absent] BY <1>3 DEF Undo, q
      <3> QED BY <2>1, <3>1, <3>2, RowTypes, PutRow
    <2> QED BY <1>0, <1>3, <2>2, <2>3, TablesTyped DEF Undo, TypeOK
  <1>4. CASE Claim(h)
    <2>1. /\ q.pc = "claim" /\ q.op = "claim" /\ q.run \in Run
          /\ q.tok \in Token /\ q.at \in Nat
      BY <1>0, <1>4 DEF Claim, q, CallOK, Request
    <2>2. CallOK([q EXCEPT !.pc = "event"])
      BY <1>0, <2>1 DEF CallOK, Request, Subject
    <2>3. Requests' BY <1>4, <1>a, <1>b, <2>2 DEF Claim, Step, q
    <2>4. run' \in [Run -> RunRow] /\ RowsOK'
      <3>1. CASE Claimable(q.run)
        <4> DEFINE e == q.at + LeaseDuration
                   row == [run[q.run] EXCEPT !.status = "running",
                                             !.token = q.tok, !.expires = e]
        <4>1. e \in Nat BY <2>1, DurationAssumption
        <4>2. run' = [run EXCEPT ![q.run] = row] BY <1>0, <1>4, <2>1, <3>1 DEF Claim, q, TypeOK
        <4> HIDE DEF e
        <4>3. run[q.run] \in RunRow BY <1>0, <2>1 DEF TypeOK
        <4>4. row \in RunRow /\ row.status = "running" /\ row.task = run[q.run].task
          BY <2>1, <4>1, <4>3 DEF RunRow, RunStatus, Active
        <4>5. row.task \in Task
          BY <1>0, <2>1, <3>1, <4>4 DEF Claimable, Waiting, Owns, RowsOK
        <4> HIDE DEF row
        <4> QED BY <2>1, <4>2, <4>4, <4>5, PutRow
      <3>2. CASE ~Claimable(q.run)
        <4>1. run' = run BY <1>4, <3>2 DEF Claim, q
        <4> QED BY <1>0, <4>1 DEF TypeOK, RowsOK
      <3> QED BY <3>1, <3>2
    <2>5. task' \in [Task -> TaskRow]
      BY <1>0, <1>4, <2>1 DEF Claim, q, TypeOK, TaskRow, TaskStatus
    <2> QED BY <1>4, <2>3, <2>4, <2>5, TablesTyped DEF Claim
  <1>5. CASE Beat(h)
    <2>1. q.pc = "beat" /\ q.run \in Run /\ q.at \in Nat
      BY <1>0, <1>5 DEF Beat, q, CallOK, Request
    <2>2. Requests' BY <1>5, <1>b DEF Beat
    <2>3. q.at + LeaseDuration \in Nat BY <2>1, DurationAssumption
    <2>4. run' \in [Run -> RunRow]
      BY <1>0, <1>5, <2>1, <2>3 DEF Beat, q, TypeOK, RunRow
    <2>5. RowsOK'
      BY <1>0, <1>5, <2>1 DEF Beat, q, TypeOK, RunRow, RowsOK
    <2> QED BY <1>0, <1>5, <2>2, <2>4, <2>5, TablesTyped DEF Beat, TypeOK
  <1>6. CASE NextExpired(h)
    <2>1. q.pc = "next" /\ q.op = "timeout"
      BY <1>0, <1>6 DEF NextExpired, q, CallOK
    <2>2. PICK r \in q.todo :
            req' = [req EXCEPT ![h].pc = "check", ![h].run = r, ![h].todo = @ \ {r}]
      BY <1>6 DEF NextExpired, q
    <2>3. r \in Run BY <1>0, <2>2 DEF Request
    <2> DEFINE left == q.todo \ {r}
               p == [q EXCEPT !.pc = "check", !.run = r, !.todo = left]
    <2>4. req' = [req EXCEPT ![h] = p] BY <1>0, <2>2 DEF q, Requests, Request
    <2>5. left \in SUBSET Run BY <1>0 DEF Request
    <2> HIDE DEF left
    <2>6. p \in Request /\ CallOK(p)
      BY <1>0, <2>1, <2>3, <2>5 DEF Request, Step, CallOK, MoveName
    <2>7. Requests' BY <1>0, <2>4, <2>6, BeginKeeps
    <2> QED BY <1>6, <2>7, QuietTyped DEF NextExpired
  <1>7. CASE Check(h)
    <2>1. q.pc = "check" /\ q.op \in MoveName /\ q.run \in Run
      BY <1>0, <1>7 DEF Check, q, CallOK
    <2>2. CallOK([q EXCEPT !.pc = "event"]) /\ CallOK([q EXCEPT !.pc = "batch"])
      BY <1>0, <2>1 DEF CallOK, Request, Subject, MoveName
    <2>3. Requests' BY <1>7, <1>a, <1>b, <2>2 DEF Check, Step
    <2> QED BY <1>7, <2>3, QuietTyped DEF Check
  <1>8. CASE Batch(h)
    <2>1. q.pc = "batch" /\ q.op \in MoveName /\ q.run \in Run
      BY <1>0, <1>8 DEF Batch, q, CallOK
    <2>2. CallOK([q EXCEPT !.pc = "event"]) /\ CallOK([q EXCEPT !.pc = "reread"])
      BY <1>0, <2>1 DEF CallOK, Request, Subject, MoveName
    <2>3. Requests' BY <1>8, <1>a, <2>2 DEF Batch, Step
    <2>4. run' \in [Run -> RunRow] /\ RowsOK'
      <3>1. CASE RunMatches(q)
        <4> DEFINE row == Closed(run[q.run], Move[q.op].to)
        <4>1. run' = [run EXCEPT ![q.run] = row]
          BY <1>0, <1>8, <2>1, <3>1 DEF Batch, q, TypeOK
        <4>2. run[q.run] \in RunRow BY <1>0, <2>1 DEF TypeOK
        <4>3. Move[q.op].to \in Terminal BY <2>1, MoveTypes
        <4>4. row \in RunRow BY <4>2, <4>3, RowTypes
        <4>5. row.token = NoToken /\ row.task = run[q.run].task
          BY <4>2 DEF Closed, RunRow
        <4>6. row.task \in Task
          BY <1>0, <2>1, <3>1, <4>5 DEF RunMatches, TaskMatches, Owns, RowsOK
        <4> HIDE DEF row
        <4> QED BY <2>1, <4>1, <4>4, <4>5, <4>6, PutRow
      <3>2. CASE ~RunMatches(q)
        <4>1. run' = run BY <1>8, <3>2 DEF Batch, q
        <4> QED BY <1>0, <4>1 DEF TypeOK, RowsOK
      <3> QED BY <3>1, <3>2
    <2>5. task' \in [Task -> TaskRow]
      <3>1. Move[q.op].taskTo \in TaskStatus BY <2>1, MoveTypes
      <3> QED BY <1>0, <1>8, <3>1 DEF Batch, q, TypeOK, TaskRow
    <2> QED BY <1>8, <2>3, <2>4, <2>5, TablesTyped DEF Batch
  <1>9. CASE Reread(h)
    <2>1. q.pc = "reread" /\ q.op \in MoveName /\ q.run \in Run
      BY <1>0, <1>9 DEF Reread, q, CallOK
    <2>2. CallOK([q EXCEPT !.pc = "event"])
      BY <1>0, <2>1 DEF CallOK, Request, Subject, MoveName
    <2>3. Requests' BY <1>9, <1>a, <1>b, <2>2 DEF Reread, Step
    <2> QED BY <1>9, <2>3, QuietTyped DEF Reread
  <1>d. AfterEvent(h) /\ q.pc \in {"event", "addEvent"} => Requests'
    <2> SUFFICES ASSUME AfterEvent(h), q.pc \in {"event", "addEvent"}
                 PROVE  Requests'
      OBVIOUS
    <2>1. CASE q.op \in DOMAIN OutcomeOf
      <3>1. CallOK([q EXCEPT !.pc = "report"])
        BY <1>0, <2>1, EventTypes DEF CallOK, Request, Subject
      <3> QED BY <1>a, <2>1, <3>1 DEF AfterEvent, Step, q
    <2>2. CASE q.op \notin DOMAIN OutcomeOf
      BY <1>b, <2>2 DEF AfterEvent, q
    <2> QED BY <2>1, <2>2
  <1>10. CASE FindEvent(h)
    <2>1. q.pc = "event" BY <1>10 DEF FindEvent, q
    <2>2. CallOK([q EXCEPT !.pc = "addEvent"])
      BY <1>0, <2>1 DEF CallOK, Request, Subject
    <2>3. Requests' BY <1>10, <1>a, <1>d, <2>1, <2>2 DEF FindEvent, Step
    <2> QED BY <1>10, <2>3, QuietTyped DEF FindEvent
  <1>11. CASE AddEvent(h)
    <2>1. /\ q.pc = "addEvent" /\ Subject(q) \in Run
          /\ q.op \in MoveName \cup {"claim", "retry"}
      BY <1>0, <1>11 DEF AddEvent, q, CallOK
    <2>2. Requests' BY <1>11, <1>c, <1>d, <2>1 DEF AddEvent
    <2>3. events' \in [Run -> SUBSET EventName]
      <3>1. EventOf[q.op] \in EventName BY <2>1, EventTypes
      <3>2. events \in [Run -> SUBSET EventName] BY <1>0 DEF TypeOK
      <3>3. \/ events' = events
            \/ events' = [events EXCEPT ![Subject(q)] = @ \cup {EventOf[q.op]}]
        BY <1>11 DEF AddEvent, q
      <3> QED BY <2>1, <3>1, <3>2, <3>3
    <2> QED BY <1>0, <1>11, <2>2, <2>3
            DEF AddEvent, Typed, TypeOK, tables, RowsOK, Requests
  <1>12. CASE FindReport(h)
    <2>1. q.pc = "report" BY <1>12 DEF FindReport, q
    <2>2. CallOK([q EXCEPT !.pc = "addReport"]) /\ CallOK([q EXCEPT !.pc = "inbox"])
      BY <1>0, <2>1 DEF CallOK, Request, Subject
    <2>3. Requests' BY <1>12, <1>a, <2>2 DEF FindReport, Step
    <2> QED BY <1>12, <2>3, QuietTyped DEF FindReport
  <1>13. CASE AddReport(h)
    <2>1. /\ q.pc = "addReport" /\ q.run \in Run
          /\ q.op \in {"succeed", "fail", "timeout"}
      BY <1>0, <1>13 DEF AddReport, q, CallOK
    <2>2. CallOK([q EXCEPT !.pc = "inbox"])
      BY <1>0, <2>1 DEF CallOK, Request, Subject
    <2>3. Requests' BY <1>13, <1>a, <1>c, <2>2 DEF AddReport, Step, q
    <2>4. report' \in [Run -> Outcome]
      <3>1. OutcomeOf[q.op] \in Outcome BY <2>1, EventTypes DEF Outcome
      <3> QED BY <1>0, <1>13, <2>1, <3>1 DEF AddReport, q, TypeOK
    <2> QED BY <1>0, <1>13, <2>3, <2>4
            DEF AddReport, Typed, TypeOK, tables, RowsOK, Requests
  <1>14. CASE FindInbox(h)
    <2>1. q.pc = "inbox" BY <1>14 DEF FindInbox, q
    <2>2. CallOK([q EXCEPT !.pc = "addInbox"])
      BY <1>0, <2>1 DEF CallOK, Request, Subject
    <2>3. Requests' BY <1>14, <1>a, <1>b, <2>2 DEF FindInbox, Step
    <2> QED BY <1>14, <2>3, QuietTyped DEF FindInbox
  <1>15. CASE AddInbox(h)
    <2>1. Requests' BY <1>15, <1>b DEF AddInbox
    <2>2. q.run \in Run BY <1>0, <1>15 DEF AddInbox, q, CallOK
    <2>3. inbox' \in [Run -> Nat] BY <1>0, <1>15, <2>2 DEF AddInbox, q, TypeOK
    <2> QED BY <1>0, <1>15, <2>1, <2>3
            DEF AddInbox, Typed, TypeOK, tables, RowsOK, Requests
  <1>16. CASE WriteVerdict(h)
    <2>1. /\ q.pc = "verdict" /\ q.task \in Task /\ q.op \in {"accept", "reject"}
      BY <1>0, <1>16 DEF WriteVerdict, q, CallOK
    <2>2. CallOK([q EXCEPT !.pc = "notify"])
      BY <1>0, <2>1 DEF CallOK, Request, Subject
    <2>3. Requests' BY <1>16, <1>a, <2>2 DEF WriteVerdict, Step
    <2>4. Verdict[q.op] \in TaskStatus BY <2>1, VerdictTypes DEF TaskStatus
    <2>5. task' \in [Task -> TaskRow]
      BY <1>0, <1>16, <2>1, <2>4 DEF WriteVerdict, q, TypeOK, TaskRow
    <2> QED BY <1>0, <1>16, <2>3, <2>5
            DEF WriteVerdict, Typed, TypeOK, records, RowsOK, Requests
  <1>17. CASE Notify(h)
    <2>1. Requests' BY <1>17, <1>b DEF Notify
    <2>2. q.task \in Task BY <1>0, <1>17 DEF Notify, q, CallOK
    <2>3. verdicts' \in [Task -> Nat] BY <1>0, <1>17, <2>2 DEF Notify, q, TypeOK
    <2> QED BY <1>0, <1>17, <2>1, <2>3
            DEF Notify, Typed, TypeOK, tables, RowsOK, Requests
  <1> QED BY <1>1, <1>2, <1>3, <1>4, <1>5, <1>6, <1>7, <1>8, <1>9, <1>10, <1>11,
             <1>12, <1>13, <1>14, <1>15, <1>16, <1>17 DEF Continue

LEMMA TypedCrash ==
    ASSUME Typed, NEW h \in Handler, Crash(h)
    PROVE  Typed'
  <1>1. Requests' BY ThrowKeeps DEF Crash, Typed
  <1> QED BY <1>1 DEF Crash, Typed, TypeOK, tables, records, RowsOK, Requests

LEMMA TypedTick ==
    ASSUME Typed, Tick
    PROVE  Typed'
  BY DEF Tick, Typed, TypeOK, tables, records, RowsOK, Requests

LEMMA TypedStep == Typed /\ [Next]_vars => Typed'
  <1> SUFFICES ASSUME Typed, [Next]_vars PROVE Typed'
    OBVIOUS
  <1>1. CASE UNCHANGED vars
    BY <1>1, QuietTyped DEF vars, Typed, Requests
  <1>2. CASE Next
    BY <1>2, TypedStart, TypedContinue, TypedCrash, TypedTick DEF Next
  <1> QED BY <1>1, <1>2

(***************************************************************************)
(* Every row and every record keeps its shape: worker_runs only ever holds *)
(* the statuses, leases and attempt numbers that the domain types admit.   *)
(***************************************************************************)
THEOREM TypeCorrect == Spec => []TypeOK
  <1>1. Typed => TypeOK BY DEF Typed
  <1> QED BY <1>1, TypedInit, TypedStep, PTL DEF Spec
-----------------------------------------------------------------------------
(***************************************************************************)
(* The inductive invariant.  Most steps take their handler to a step at    *)
(* which nothing is asked of the tables, and change the tables forwards:   *)
(* no row comes or goes or changes its task, no task its run, an ended run *)
(* stays as it is, and so does a row that no task owns.                    *)
(***************************************************************************)
Asking == {"scan", "insert", "undo", "verdict"}

Leaves(h) ==
    \E p \in Request : /\ req' = [req EXCEPT ![h] = p]
                       /\ p.pc \notin Asking
                       /\ p.new \in {req[h].new, NoRun}

Forwards ==
    /\ \A t \in Task : task'[t].assigned = task[t].assigned
    /\ \A r \in Run : /\ run'[r].task = run[r].task
                      /\ run'[r].status = "absent" <=> run[r].status = "absent"
                      /\ run[r].status \in Terminal => run'[r] = run[r]
                      /\ ~Owns(r) => run'[r] = run[r]

LEMMA GotoLeaves ==
    ASSUME Requests, NEW h \in Handler, NEW step \in Step \ Asking, Goto(h, step)
    PROVE  Leaves(h)
  <1> DEFINE p == [req[h] EXCEPT !.pc = step]
  <1>1. req[h] \in Request BY DEF Requests
  <1>2. p \in Request /\ p.pc = step /\ p.new = req[h].new BY <1>1 DEF Request
  <1>3. req' = [req EXCEPT ![h] = p] BY DEF Goto
  <1> HIDE DEF p
  <1> QED BY <1>2, <1>3 DEF Leaves

LEMMA ThrowLeaves ==
    ASSUME Requests, NEW h \in Handler, Throw(h)
    PROVE  Leaves(h)
  <1>1. Idle.pc \notin Asking BY IdleOK DEF Asking
  <1> QED BY <1>1, IdleOK DEF Throw, Leaves

LEMMA ReturnLeaves ==
    ASSUME Requests, NEW h \in Handler, Return(h)
    PROVE  Leaves(h)
  <1>1. CASE req[h].todo = {}
    <2>1. Throw(h) BY <1>1 DEF Return, Throw
    <2> QED BY <2>1, ThrowLeaves
  <1>2. CASE req[h].todo # {}
    <2>1. Goto(h, "next") BY <1>2 DEF Return, Goto
    <2> QED BY <2>1, GotoLeaves DEF Step, Asking
  <1> QED BY <1>1, <1>2

LEMMA ForwardsOwns ==
    ASSUME Typed, Forwards
    PROVE  \A r \in Run : Owns(r)' <=> Owns(r)
  BY DEF Typed, TypeOK, RowsOK, Forwards, Owns

LEMMA LeavesKeeps ==
    ASSUME IInv, NEW h \in Handler, Leaves(h), Forwards
    PROVE  NewRunsOK' /\ BegunOK'
  <1>1. PICK p \in Request : /\ req' = [req EXCEPT ![h] = p]
                             /\ p.pc \notin Asking
                             /\ p.new \in {req[h].new, NoRun}
    BY DEF Leaves
  <1>2. \A g \in Handler : req'[g] = IF g = h THEN p ELSE req[g]
    BY <1>1 DEF IInv, Typed, Requests
  <1>3. NewRunsOK'
    <2>1. ASSUME NEW g \in Handler PROVE req'[g].pc \in {"scan", "insert"} =>
                                           run'[req'[g].new].status = "absent"
      BY <1>1, <1>2 DEF IInv, NewRunsOK, Forwards, Asking, Typed, Requests, CallOK
    <2>2. ASSUME NEW g \in Handler PROVE req'[g].pc = "undo" => Orphan(req[g].new)'
      <3> SUFFICES ASSUME req'[g].pc = "undo" PROVE Orphan(req[g].new)'
        OBVIOUS
      <3>1. g # h /\ req'[g] = req[g] BY <1>1, <1>2 DEF Asking
      <3>2. req[g].new \in Run BY <3>1 DEF IInv, Typed, Requests, CallOK
      <3>3. Orphan(req[g].new) BY <3>1 DEF IInv, NewRunsOK
      <3> QED BY <3>1, <3>2, <3>3, ForwardsOwns DEF IInv, Orphan, Forwards
    <2>3. ASSUME NEW g \in Handler, NEW f \in Handler, f # g, req'[g].new \in Run
          PROVE  req'[f].new # req'[g].new
      BY <1>1, <1>2, <2>3, NullAssumption DEF IInv, NewRunsOK
    <2> QED BY <2>1, <2>2, <2>3 DEF NewRunsOK
  <1>4. BegunOK'
    <2>1. ASSUME NEW g \in Handler, req'[g].pc \in {"scan", "insert"},
                 req'[g].op = "retry"
          PROVE  /\ run'[req'[g].run].status = "timed_out"
                 /\ run'[req'[g].run].task = req'[g].task
      <3>1. g # h /\ req'[g] = req[g] BY <1>1, <1>2, <2>1 DEF Asking
      <3> QED BY <2>1, <3>1
              DEF IInv, BegunOK, Typed, Requests, CallOK, Forwards, Terminal
    <2>2. ASSUME NEW g \in Handler, req'[g].pc = "verdict"
          PROVE  /\ task'[req'[g].task].assigned \in Run
                 /\ run'[task'[req'[g].task].assigned].status = "succeeded"
      <3>1. g # h /\ req'[g] = req[g] BY <1>1, <1>2, <2>2 DEF Asking
      <3> QED BY <2>2, <3>1
              DEF IInv, BegunOK, Typed, Requests, CallOK, Forwards, Terminal
    <2> QED BY <2>1, <2>2 DEF BegunOK
  <1> QED BY <1>3, <1>4

Safe == NewRunsOK /\ BegunOK /\ RunningOwns /\ TaskBacked

\* A step that leaves the tables alone, of a handler that asks nothing next.
LEMMA QuietSafe ==
    ASSUME IInv, NEW h \in Handler, Leaves(h), UNCHANGED tables
    PROVE  Safe'
  <1>1. Forwards BY DEF Forwards, tables
  <1>2. NewRunsOK' /\ BegunOK' BY <1>1, LeavesKeeps
  <1>3. RunningOwns' /\ TaskBacked'
    BY DEF IInv, tables, RunningOwns, TaskBacked, Owns
  <1> QED BY <1>2, <1>3 DEF Safe

\* The statuses that a run allows its task.
LEMMA TasksOfCases ==
    /\ TasksOf["queued"] = {"assigned"}
    /\ TasksOf["running"] = {"in_progress", "awaiting_verification", "failed",
                             "cancelled"}
    /\ TasksOf["succeeded"] = {"awaiting_verification", "completed", "failed"}
    /\ TasksOf["failed"] = {"failed"}
    /\ TasksOf["timed_out"] = {"failed"}
    /\ TasksOf["cancelled"] = {"cancelled"}
  BY DEF TasksOf

\* Only a queued run has an assigned task, and only a running one, one in progress.
LEMMA TaskTellsRun ==
    ASSUME Typed, TaskBacked, NEW r \in Run, Owns(r)
    PROVE  /\ task[run[r].task].status = "assigned" => run[r].status = "queued"
           /\ task[run[r].task].status = "in_progress" => run[r].status = "running"
           /\ task[run[r].task].status = "awaiting_verification"
                => run[r].status \in {"running", "succeeded"}
  <1>1. run[r].task \in Task /\ task[run[r].task].assigned = r
    BY DEF Typed, RowsOK, Owns
  <1>2. task[run[r].task].status \in TasksOf[run[r].status]
    BY <1>1, NullAssumption DEF TaskBacked
  <1>3. run[r].status \in Active \cup Terminal
    BY DEF Typed, TypeOK, RunRow, RunStatus, Owns
  <1> QED BY <1>2, <1>3, TasksOfCases DEF Active, Terminal

\* A step that changes an owned row and the status of the task that owns it.
LEMMA PairSafe ==
    ASSUME IInv, NEW h \in Handler, Leaves(h), NEW r \in Run, Owns(r),
           NEW row \in RunRow, NEW status \in TaskStatus,
           row.task = run[r].task, row.status # "absent",
           run[r].status \in Terminal => row = run[r],
           status \in TasksOf[row.status],
           run' = [run EXCEPT ![r] = row],
           task' = [task EXCEPT ![run[r].task].status = status]
    PROVE  Safe'
  <1> DEFINE t == run[r].task
  <1>0. /\ Typed /\ TypeOK /\ RowsOK /\ RunningOwns /\ TaskBacked
        /\ t \in Task /\ task[t].assigned = r /\ run[r].status # "absent"
    BY DEF IInv, Typed, Owns, RowsOK
  <1> HIDE DEF t
  <1>1. Forwards BY <1>0 DEF Forwards, TypeOK, TaskRow, t
  <1>2. NewRunsOK' /\ BegunOK' BY <1>1, LeavesKeeps
  <1>3. RunningOwns'
    BY <1>0, <1>1, ForwardsOwns DEF RunningOwns, TypeOK
  <1>4. TaskBacked'
    <2>1. \A s \in Task \ {t} : task[s].assigned # r
      BY <1>0, NullAssumption DEF TaskBacked, t
    <2>2. \A s \in Task \ {t} : task'[s] = task[s]
      BY <1>0 DEF TypeOK, t
    <2>3. \A u \in Run \ {r} : run'[u] = run[u]
      BY <1>0 DEF TypeOK
    <2>4. /\ task'[t].assigned = r /\ task'[t].status = status
          /\ run'[r] = row /\ row.task = t
      BY <1>0 DEF TypeOK, TaskRow, t
    <2>5. r # NoRun BY NullAssumption
    <2>6. \A s \in Task : task[s].assigned \in Run \cup {NoRun}
      BY <1>0 DEF TypeOK, TaskRow
    <2> QED BY <1>0, <2>1, <2>2, <2>3, <2>4, <2>5, <2>6 DEF TaskBacked
  <1> QED BY <1>2, <1>3, <1>4 DEF Safe

LEMMA ClaimSafe ==
    ASSUME IInv, NEW h \in Handler, Claim(h)
    PROVE  Safe'
  <1> DEFINE q == req[h]
  <1>0. /\ Typed /\ TypeOK /\ RowsOK /\ Requests /\ RunningOwns /\ TaskBacked
        /\ q.pc = "claim" /\ q.run \in Run /\ q.tok \in Token /\ q.at \in Nat
    BY DEF IInv, Typed, Requests, CallOK, Claim, Request
  <1>1. Leaves(h)
    BY <1>0, GotoLeaves, ReturnLeaves DEF Claim, Step, Asking
  <1>2. CASE ~Claimable(q.run)
    <2>1. ~Waiting(q.run) BY <1>0, <1>2, TaskTellsRun DEF Waiting, Claimable
    <2>2. UNCHANGED tables BY <1>2, <2>1 DEF Claim, tables
    <2> QED BY <1>1, <2>2, QuietSafe
  <1>3. CASE Claimable(q.run)
    <2> DEFINE e == q.at + LeaseDuration
               row == [run[q.run] EXCEPT !.status = "running", !.token = q.tok,
                                         !.expires = e]
    <2>1. e \in Nat BY <1>0, DurationAssumption
    <2>2. run' = [run EXCEPT ![q.run] = row]
      BY <1>0, <1>3 DEF Claim, TypeOK
    <2>3. task' = [task EXCEPT ![run[q.run].task].status = "in_progress"]
      BY <1>3 DEF Claim, Claimable
    <2>4. Owns(q.run) /\ run[q.run].status = "queued"
      BY <1>3 DEF Claimable, Waiting
    <2>5. run[q.run] \in RunRow BY <1>0 DEF TypeOK
    <2> HIDE DEF e
    <2>6. row \in RunRow /\ row.task = run[q.run].task /\ row.status = "running"
      BY <1>0, <2>1, <2>5 DEF RunRow, RunStatus, Active
    <2>7. "in_progress" \in TaskStatus BY DEF TaskStatus
    <2>8. run[q.run].status \notin Terminal BY <2>4 DEF Terminal
    <2> HIDE DEF row
    <2>9. "in_progress" \in TasksOf[row.status] BY <2>6, TasksOfCases
    <2>10. row.status # "absent" BY <2>6
    <2> HIDE DEF q
    <2> QED BY <1>0, <1>1, <2>2, <2>3, <2>4, <2>6, <2>7, <2>8, <2>9, <2>10, PairSafe
  <1> QED BY <1>2, <1>3

LEMMA BeatSafe ==
    ASSUME IInv, NEW h \in Handler, Beat(h)
    PROVE  Safe'
  <1> DEFINE q == req[h]
  <1>0. /\ Typed /\ TypeOK /\ RowsOK /\ Requests /\ RunningOwns /\ TaskBacked
        /\ q.run \in Run
    BY DEF IInv, Typed, Requests, CallOK, Beat
  <1>1. Leaves(h) BY <1>0, ReturnLeaves DEF Beat
  <1>2. \A r \in Run : run'[r].status = run[r].status /\ run'[r].task = run[r].task
    BY <1>0 DEF Beat, TypeOK, RunRow
  <1>3. \A r \in Run : run'[r] = run[r] \/ run[r].status = "running"
    BY <1>0 DEF Beat, TypeOK, RunRow
  <1>4. Forwards BY <1>0, <1>2, <1>3 DEF Beat, Forwards, RunningOwns, Terminal
  <1>5. NewRunsOK' /\ BegunOK' BY <1>1, <1>4, LeavesKeeps
  <1>6. RunningOwns' BY <1>0, <1>2, <1>4, ForwardsOwns DEF RunningOwns
  <1>7. TaskBacked'
    BY <1>0, <1>2 DEF Beat, TaskBacked, TypeOK, TaskRow
  <1> QED BY <1>5, <1>6, <1>7 DEF Safe

LEMMA MoveBacked ==
    ASSUME NEW m \in MoveName
    PROVE  /\ Move[m].taskTo \in TasksOf[Move[m].to]
           /\ \/ /\ Move[m].taskFrom = "in_progress"
                 /\ Move[m].from = "running"
                 /\ Move[m].taskTo \in TasksOf["running"]
              \/ /\ Move[m].taskFrom = "assigned"
                 /\ Move[m].from = "queued"
                 /\ ~Move[m].leased
  <1>1. CASE m = "succeed" BY <1>1 DEF Move, TasksOf
  <1>2. CASE m = "fail" BY <1>2 DEF Move, TasksOf
  <1>3. CASE m = "cancelRunning" BY <1>3 DEF Move, TasksOf
  <1>4. CASE m = "cancelQueued" BY <1>4 DEF Move, TasksOf
  <1>5. CASE m = "timeout" BY <1>5 DEF Move, TasksOf
  <1> QED BY <1>1, <1>2, <1>3, <1>4, <1>5 DEF MoveName

LEMMA BatchSafe ==
    ASSUME IInv, NEW h \in Handler, Batch(h)
    PROVE  Safe'
  <1> DEFINE q == req[h]
             m == Move[q.op]
  <1>0. /\ Typed /\ TypeOK /\ RowsOK /\ Requests /\ TaskBacked
        /\ q.run \in Run /\ q.op \in MoveName /\ run[q.run] \in RunRow
    BY DEF IInv, Typed, Requests, CallOK, Batch, TypeOK
  <1>1. Leaves(h) BY <1>0, GotoLeaves DEF Batch, Step, Asking
  <1>2. /\ m.from \in Active /\ m.to \in Terminal /\ m.taskTo \in TaskStatus
        /\ m.taskTo \in TasksOf[m.to]
        /\ \/ /\ m.taskFrom = "in_progress" /\ m.from = "running"
              /\ m.taskTo \in TasksOf["running"]
           \/ m.taskFrom = "assigned" /\ m.from = "queued" /\ ~m.leased
    BY <1>0, MoveTypes, MoveBacked
  <1>3. /\ run' = IF RunMatches(q)
                  THEN [run EXCEPT ![q.run] = Closed(run[q.run], m.to)]
                  ELSE run
        /\ task' = IF TaskMatches(q)
                   THEN [task EXCEPT ![run[q.run].task].status = m.taskTo]
                   ELSE task
    BY <1>0 DEF Batch, TypeOK
  <1>4. TaskMatches(q) <=> /\ Owns(q.run)
                           /\ task[run[q.run].task].status = m.taskFrom
    BY DEF TaskMatches
  <1>5. RunMatches(q) <=> /\ TaskMatches(q) /\ run[q.run].status = m.from
                          /\ m.leased => LeaseLive(run[q.run], q.tok, q.at)
    BY DEF RunMatches
  <1> HIDE DEF q, m
  <1>6. CASE RunMatches(q)
    <2> DEFINE row == Closed(run[q.run], m.to)
    <2>1. row \in RunRow BY <1>0, <1>2, RowTypes
    <2>2. row.task = run[q.run].task /\ row.status = m.to
      BY <1>0 DEF Closed, RunRow
    <2>3. run[q.run].status \notin Terminal /\ m.to # "absent"
      BY <1>2, <1>5, <1>6 DEF Active, Terminal
    <2>4. run' = [run EXCEPT ![q.run] = row] BY <1>3, <1>6
    <2>5. task' = [task EXCEPT ![run[q.run].task].status = m.taskTo]
      BY <1>3, <1>5, <1>6
    <2> HIDE DEF row
    <2> QED BY <1>0, <1>1, <1>2, <1>4, <1>5, <1>6, <2>1, <2>2, <2>3, <2>4, <2>5,
               PairSafe
  <1>7. CASE TaskMatches(q) /\ ~RunMatches(q)
    <2>1. Owns(q.run) BY <1>4, <1>7
    <2>2. run[q.run].status = m.from
      BY <1>0, <1>2, <1>4, <1>7, <2>1, TaskTellsRun
    <2>3. m.from = "running" /\ m.taskTo \in TasksOf["running"]
      BY <1>2, <1>5, <1>7, <2>2
    <2>4. run' = [run EXCEPT ![q.run] = run[q.run]]
      BY <1>0, <1>3, <1>7 DEF TypeOK
    <2>5. task' = [task EXCEPT ![run[q.run].task].status = m.taskTo]
      BY <1>3, <1>7
    <2> QED BY <1>0, <1>1, <1>2, <2>1, <2>2, <2>3, <2>4, <2>5, PairSafe
  <1>8. CASE ~TaskMatches(q)
    <2>1. UNCHANGED tables BY <1>3, <1>5, <1>8 DEF tables
    <2> QED BY <1>1, <2>1, QuietSafe
  <1> QED BY <1>6, <1>7, <1>8

LEMMA WriteVerdictSafe ==
    ASSUME IInv, NEW h \in Handler, WriteVerdict(h)
    PROVE  Safe'
  <1> DEFINE q == req[h]
             r == task[q.task].assigned
  <1>0. /\ Typed /\ TypeOK /\ Requests /\ TaskBacked /\ BegunOK
        /\ q.pc = "verdict" /\ q.task \in Task /\ q.op \in {"accept", "reject"}
    BY DEF IInv, Typed, Requests, CallOK, WriteVerdict
  <1>1. Leaves(h) BY <1>0, GotoLeaves DEF WriteVerdict, Step, Asking
  <1>2. r \in Run /\ run[r].status = "succeeded"
    BY <1>0 DEF BegunOK
  <1>3. run[r].task = q.task
    BY <1>0, <1>2, NullAssumption DEF TaskBacked
  <1>4. Owns(r) BY <1>2, <1>3 DEF Owns
  <1>5. Verdict[q.op] \in TasksOf["succeeded"] /\ Verdict[q.op] \in TaskStatus
    BY <1>0, VerdictTypes, TasksOfCases DEF TaskStatus
  <1>6. /\ run' = [run EXCEPT ![r] = run[r]]
        /\ task' = [task EXCEPT ![run[r].task].status = Verdict[q.op]]
    BY <1>0, <1>3 DEF WriteVerdict, TypeOK
  <1>7. run[r] \in RunRow BY <1>0, <1>2 DEF TypeOK
  <1> HIDE DEF r, q
  <1> QED BY <1>1, <1>2, <1>4, <1>5, <1>6, <1>7, PairSafe

\* The batch of an assignment or a retry: what becomes of the new row's owner.
LEMMA InsertSafe ==
    ASSUME IInv, NEW h \in Handler, Insert(h)
    PROVE  Safe'
  <1> DEFINE q == req[h]
             row == Queued(q.task, q.iter)
  <1>0. /\ Typed /\ TypeOK /\ RowsOK /\ Requests /\ TaskBacked /\ RunningOwns
        /\ NewRunsOK /\ BegunOK
        /\ q.pc = "insert" /\ q.new \in Run /\ q.task \in Task /\ q.iter \in Nat
        /\ q.op \in {"assign", "retry"} /\ q \in Request
        /\ q.op = "retry" => q.run \in Run
    BY DEF IInv, Typed, Requests, CallOK, Insert, Request
  <1>1. run[q.new].status = "absent" BY <1>0 DEF NewRunsOK
  <1>2. row \in RunRow /\ row.status = "queued" /\ row.task = q.task
    BY <1>0, RowTypes DEF Queued
  <1>3. run' = [run EXCEPT ![q.new] = row] BY DEF Insert
  <1>4. \A t \in Task : task[t].assigned # q.new
    BY <1>0, <1>1, NullAssumption DEF TaskBacked
  <1>5. \A r \in Run : run'[r] = IF r = q.new THEN row ELSE run[r]
    BY <1>0, <1>3 DEF TypeOK
  <1>6. \A g \in Handler \ {h} : req'[g] = req[g] /\ req[g].new # q.new
    BY <1>0 DEF Insert, Goto, Return, Requests, NewRunsOK
  <1>7. CASE Takes(q)
    <2>1. task' = [task EXCEPT ![q.task] =
                      [status |-> "assigned", assigned |-> q.new]]
      BY <1>7 DEF Insert
    <2>2. Leaves(h)
      BY <1>0, <1>7, GotoLeaves, ReturnLeaves DEF Insert, Step, Asking
    <2>3. PICK p \in Request : /\ req' = [req EXCEPT ![h] = p]
                               /\ p.pc \notin Asking
                               /\ p.new \in {q.new, NoRun}
      BY <2>2 DEF Leaves
    <2>4. \A g \in Handler : req'[g] = IF g = h THEN p ELSE req[g]
      BY <1>0, <2>3 DEF Requests
    <2>5. \A t \in Task : task'[t] = IF t = q.task
                                     THEN [status |-> "assigned", assigned |-> q.new]
                                     ELSE task[t]
      BY <1>0, <2>1 DEF TypeOK
    <2>6. task[q.task].assigned \in Run =>
             run[task[q.task].assigned].status = "timed_out"
      BY <1>0, <1>7, NullAssumption DEF Takes, BegunOK
    <2> HIDE DEF q, row
    <2>7. NewRunsOK'
      <3>1. ASSUME NEW g \in Handler, req'[g].pc \in {"scan", "insert"}
            PROVE  run'[req'[g].new].status = "absent"
        <4>1. g # h /\ req'[g] = req[g] BY <2>3, <2>4, <3>1 DEF Asking
        <4>2. req[g].new \in Run BY <1>0, <3>1, <4>1 DEF Requests, CallOK
        <4> QED BY <1>0, <1>5, <1>6, <3>1, <4>1, <4>2 DEF NewRunsOK
      <3>2. ASSUME NEW g \in Handler, req'[g].pc = "undo"
            PROVE  Orphan(req[g].new)'
        <4>1. g # h /\ req'[g] = req[g] BY <2>3, <2>4, <3>2 DEF Asking
        <4>2. req[g].new \in Run BY <1>0, <3>2, <4>1 DEF Requests, CallOK
        <4>3. Orphan(req[g].new) BY <1>0, <3>2, <4>1 DEF NewRunsOK
        <4>4. run[req[g].new].task \in Task
          BY <1>0, <4>2, <4>3 DEF Orphan, RowsOK
        <4> QED BY <1>5, <1>6, <2>5, <4>1, <4>2, <4>3, <4>4 DEF Orphan, Owns
      <3>3. ASSUME NEW g \in Handler, NEW f \in Handler, f # g, req'[g].new \in Run
            PROVE  req'[f].new # req'[g].new
        BY <1>0, <2>3, <2>4, <3>3, NullAssumption DEF NewRunsOK, q
      <3> QED BY <3>1, <3>2, <3>3 DEF NewRunsOK
    <2>8. BegunOK'
      <3>1. ASSUME NEW g \in Handler, req'[g].pc \in {"scan", "insert"},
                   req'[g].op = "retry"
            PROVE  /\ run'[req'[g].run].status = "timed_out"
                   /\ run'[req'[g].run].task = req'[g].task
        <4>1. g # h /\ req'[g] = req[g] BY <2>3, <2>4, <3>1 DEF Asking
        <4>2. req[g].run \in Run BY <1>0, <3>1, <4>1 DEF Requests, CallOK
        <4> QED BY <1>0, <1>1, <1>5, <3>1, <4>1, <4>2 DEF BegunOK
      <3>2. ASSUME NEW g \in Handler, req'[g].pc = "verdict"
            PROVE  /\ task'[req'[g].task].assigned \in Run
                   /\ run'[task'[req'[g].task].assigned].status = "succeeded"
        <4>1. g # h /\ req'[g] = req[g] BY <2>3, <2>4, <3>2 DEF Asking
        <4>2. req[g].task \in Task BY <1>0, <3>2, <4>1 DEF Requests, CallOK
        <4>3. /\ task[req[g].task].assigned \in Run
              /\ run[task[req[g].task].assigned].status = "succeeded"
          BY <1>0, <3>2, <4>1 DEF BegunOK
        <4>4. req[g].task # q.task BY <2>6, <4>3
        <4> QED BY <1>4, <1>5, <2>5, <4>1, <4>2, <4>3, <4>4
      <3> QED BY <3>1, <3>2 DEF BegunOK
    <2>9. RunningOwns'
      <3> SUFFICES ASSUME NEW r \in Run, run'[r].status = "running"
                   PROVE  Owns(r)'
        BY DEF RunningOwns
      <3>1. r # q.new /\ run'[r] = run[r] BY <1>2, <1>5
      <3>2. Owns(r) BY <1>0, <3>1 DEF RunningOwns
      <3>3. run[r].task # q.task BY <2>6, <3>1, <3>2 DEF Owns
      <3>4. run[r].task \in Task BY <1>0, <3>2 DEF Owns, RowsOK
      <3> QED BY <2>5, <3>1, <3>2, <3>3, <3>4 DEF Owns
    <2>10. TaskBacked'
      <3> SUFFICES ASSUME NEW t \in Task
                   PROVE  IF task'[t].assigned = NoRun
                          THEN task'[t].status = "pending"
                          ELSE /\ run'[task'[t].assigned].status # "absent"
                               /\ run'[task'[t].assigned].task = t
                               /\ task'[t].status \in
                                     TasksOf[run'[task'[t].assigned].status]
        BY DEF TaskBacked
      <3>1. CASE t = q.task
        <4>1. task'[t] = [status |-> "assigned", assigned |-> q.new]
          BY <2>5, <3>1
        <4>2. run'[q.new] = row BY <1>0, <1>5
        <4> QED BY <1>0, <1>2, <3>1, <4>1, <4>2, TasksOfCases, NullAssumption
      <3>2. CASE t # q.task
        <4>1. task'[t] = task[t] BY <2>5, <3>2
        <4>2. task[t].assigned \in Run \cup {NoRun} BY <1>0 DEF TypeOK, TaskRow
        <4> QED BY <1>0, <1>4, <1>5, <4>1, <4>2 DEF TaskBacked
      <3> QED BY <3>1, <3>2
    <2> QED BY <2>7, <2>8, <2>9, <2>10 DEF Safe
  <1>8. CASE ~Takes(q)
    <2> DEFINE p == [q EXCEPT !.pc = "undo"]
    <2>1. task' = task /\ req' = [req EXCEPT ![h] = p]
      BY <1>8 DEF Insert, Goto
    <2>2. p.pc = "undo" /\ p.new = q.new /\ p.task = q.task BY <1>0 DEF Request
    <2> HIDE DEF p, q, row
    <2>3. \A g \in Handler : req'[g] = IF g = h THEN p ELSE req[g]
      BY <1>0, <2>1 DEF Requests
    <2>4. task'[run'[q.new].task].assigned # q.new
      BY <1>0, <1>2, <1>4, <1>5, <2>1
    <2>5. NewRunsOK'
      <3>1. ASSUME NEW g \in Handler, req'[g].pc \in {"scan", "insert"}
            PROVE  run'[req'[g].new].status = "absent"
        <4>1. g # h /\ req'[g] = req[g] BY <2>2, <2>3, <3>1
        <4>2. req[g].new \in Run BY <1>0, <3>1, <4>1 DEF Requests, CallOK
        <4> QED BY <1>0, <1>5, <1>6, <3>1, <4>1, <4>2 DEF NewRunsOK
      <3>2. ASSUME NEW g \in Handler, req'[g].pc = "undo"
            PROVE  Orphan(req[g].new)'
        <4>1. CASE g = h
          BY <1>0, <1>2, <1>5, <2>2, <2>3, <2>4, <4>1 DEF Orphan, Owns
        <4>2. CASE g # h
          <5>1. req'[g] = req[g] BY <2>3, <4>2
          <5>2. req[g].new \in Run /\ Orphan(req[g].new)
            BY <1>0, <3>2, <5>1 DEF Requests, CallOK, NewRunsOK
          <5> QED BY <1>5, <1>6, <2>1, <4>2, <5>1, <5>2 DEF Orphan, Owns
        <4> QED BY <4>1, <4>2
      <3>3. ASSUME NEW g \in Handler, NEW f \in Handler, f # g, req'[g].new \in Run
            PROVE  req'[f].new # req'[g].new
        BY <1>0, <2>2, <2>3, <3>3 DEF NewRunsOK, q
      <3> QED BY <3>1, <3>2, <3>3 DEF NewRunsOK
    <2>6. BegunOK'
      BY <1>0, <1>1, <1>4, <1>5, <2>1, <2>2, <2>3 DEF BegunOK, Requests, CallOK
    <2>7. RunningOwns'
      BY <1>0, <1>2, <1>5, <2>1 DEF RunningOwns, Owns
    <2>8. TaskBacked'
      BY <1>0, <1>4, <1>5, <2>1 DEF TaskBacked, TypeOK, TaskRow
    <2> QED BY <2>5, <2>6, <2>7, <2>8 DEF Safe
  <1> QED BY <1>7, <1>8

\* Deleting the row that lost its race.
LEMMA UndoSafe ==
    ASSUME IInv, NEW h \in Handler, Undo(h)
    PROVE  Safe'
  <1> DEFINE q == req[h]
  <1>0. /\ Typed /\ TypeOK /\ RowsOK /\ Requests /\ TaskBacked /\ RunningOwns
        /\ NewRunsOK /\ BegunOK
        /\ q.pc = "undo" /\ q.new \in Run /\ Orphan(q.new)
    BY DEF IInv, Typed, Requests, CallOK, Undo, NewRunsOK
  <1>1. Leaves(h) BY <1>0, ReturnLeaves DEF Undo
  <1>2. PICK p \in Request : /\ req' = [req EXCEPT ![h] = p]
                             /\ p.pc \notin Asking
                             /\ p.new \in {q.new, NoRun}
    BY <1>1 DEF Leaves
  <1>3. \A g \in Handler : req'[g] = IF g = h THEN p ELSE req[g]
    BY <1>0, <1>2 DEF Requests
  <1>4. task' = task /\ \A r \in Run : run'[r] = IF r = q.new THEN Absent ELSE run[r]
    BY <1>0 DEF Undo, TypeOK
  <1>5. \A g \in Handler \ {h} : req[g].new # q.new BY <1>0 DEF NewRunsOK
  <1>6. \A t \in Task : task[t].assigned # q.new
    BY <1>0, NullAssumption DEF TaskBacked, Orphan, Owns
  <1>7. Absent.status = "absent" BY DEF Absent
  <1> HIDE DEF q
  <1>8. NewRunsOK'
    <2>1. ASSUME NEW g \in Handler, req'[g].pc \in {"scan", "insert"}
          PROVE  run'[req'[g].new].status = "absent"
      <3>1. g # h /\ req'[g] = req[g] BY <1>2, <1>3, <2>1 DEF Asking
      <3>2. req[g].new \in Run BY <1>0, <2>1, <3>1 DEF Requests, CallOK
      <3> QED BY <1>0, <1>4, <1>5, <2>1, <3>1, <3>2 DEF NewRunsOK
    <2>2. ASSUME NEW g \in Handler, req'[g].pc = "undo"
          PROVE  Orphan(req[g].new)'
      <3>1. g # h /\ req'[g] = req[g] BY <1>2, <1>3, <2>2 DEF Asking
      <3>2. req[g].new \in Run /\ Orphan(req[g].new)
        BY <1>0, <2>2, <3>1 DEF Requests, CallOK, NewRunsOK
      <3> QED BY <1>4, <1>5, <3>1, <3>2 DEF Orphan, Owns
    <2>3. ASSUME NEW g \in Handler, NEW f \in Handler, f # g, req'[g].new \in Run
          PROVE  req'[f].new # req'[g].new
      BY <1>0, <1>2, <1>3, <2>3, NullAssumption DEF NewRunsOK, q
    <2> QED BY <2>1, <2>2, <2>3 DEF NewRunsOK
  <1>9. BegunOK'
    <2>1. ASSUME NEW g \in Handler, req'[g].pc \in {"scan", "insert"},
                 req'[g].op = "retry"
          PROVE  /\ run'[req'[g].run].status = "timed_out"
                 /\ run'[req'[g].run].task = req'[g].task
      <3>1. g # h /\ req'[g] = req[g] BY <1>2, <1>3, <2>1 DEF Asking
      <3>2. req[g].run \in Run /\ run[req[g].run].status = "timed_out"
        BY <1>0, <2>1, <3>1 DEF Requests, CallOK, BegunOK
      <3>3. req[g].run # q.new BY <1>0, <3>2 DEF Orphan
      <3> QED BY <1>0, <1>4, <2>1, <3>1, <3>2, <3>3 DEF BegunOK
    <2>2. ASSUME NEW g \in Handler, req'[g].pc = "verdict"
          PROVE  /\ task'[req'[g].task].assigned \in Run
                 /\ run'[task'[req'[g].task].assigned].status = "succeeded"
      <3>1. g # h /\ req'[g] = req[g] BY <1>2, <1>3, <2>2 DEF Asking
      <3>2. req[g].task \in Task BY <1>0, <2>2, <3>1 DEF Requests, CallOK
      <3> QED BY <1>0, <1>4, <1>6, <2>2, <3>1, <3>2 DEF BegunOK
    <2> QED BY <2>1, <2>2 DEF BegunOK
  <1>10. RunningOwns'
    BY <1>0, <1>4, <1>7 DEF RunningOwns, Owns
  <1>11. TaskBacked'
    BY <1>0, <1>4, <1>6 DEF TaskBacked, TypeOK, TaskRow
  <1> QED BY <1>8, <1>9, <1>10, <1>11 DEF Safe

\* A handler that goes on to a step at which something is asked of the tables.
LEMMA AskSafe ==
    ASSUME IInv, NEW h \in Handler, NEW p \in Request, CallOK(p),
           req' = [req EXCEPT ![h] = p], UNCHANGED tables, p.pc # "undo",
           p.pc \in {"scan", "insert"} => run[p.new].status = "absent",
           p.new \in Run => \A g \in Handler \ {h} : req[g].new # p.new,
           p.pc \in {"scan", "insert"} /\ p.op = "retry" =>
              run[p.run].status = "timed_out" /\ run[p.run].task = p.task,
           p.pc = "verdict" =>
              /\ task[p.task].assigned \in Run
              /\ run[task[p.task].assigned].status = "succeeded"
    PROVE  Safe'
  <1>1. \A g \in Handler : req'[g] = IF g = h THEN p ELSE req[g]
    BY DEF IInv, Typed, Requests
  <1>2. task' = task /\ run' = run BY DEF tables
  <1>3. NewRunsOK'
    <2>1. \A g \in Handler : req'[g].pc \in {"scan", "insert"} =>
                                run'[req'[g].new].status = "absent"
      BY <1>1, <1>2 DEF IInv, NewRunsOK
    <2>2. \A g \in Handler : req'[g].pc = "undo" => Orphan(req[g].new)'
      BY <1>1, <1>2 DEF IInv, NewRunsOK, Orphan, Owns
    <2>3. \A g, f \in Handler : f # g /\ req'[g].new \in Run =>
                                   req'[f].new # req'[g].new
      BY <1>1 DEF IInv, NewRunsOK
    <2> QED BY <2>1, <2>2, <2>3 DEF NewRunsOK
  <1>4. BegunOK' BY <1>1, <1>2 DEF IInv, BegunOK
  <1>5. RunningOwns' /\ TaskBacked'
    BY <1>2 DEF IInv, RunningOwns, TaskBacked, Owns
  <1> QED BY <1>3, <1>4, <1>5 DEF Safe

LEMMA SafeStart ==
    ASSUME IInv, NEW h \in Handler, Start(h)
    PROVE  Safe'
  <1>0. /\ Typed /\ TypeOK /\ Requests /\ RowsOK /\ TaskBacked
        /\ clock \in Nat /\ run \in [Run -> RunRow]
    BY DEF IInv, Typed, TypeOK
  <1>a. ASSUME NEW p \in Request, p.pc \notin Asking, p.new = NoRun,
               req' = [req EXCEPT ![h] = p], UNCHANGED tables
        PROVE  Safe'
    <2>1. Leaves(h) BY <1>a DEF Leaves
    <2> QED BY <1>a, <2>1, QuietSafe
  <1>1. ASSUME NEW t \in Task, NEW r \in Run, StartAssign(h, t, r) PROVE Safe'
    <2> DEFINE p == [Idle EXCEPT !.pc = "scan", !.op = "assign", !.task = t, !.new = r]
    <2>1. p \in Request /\ CallOK(p) BY DEF Idle, Request, Step, Call, CallOK
    <2>2. req' = [req EXCEPT ![h] = p] /\ UNCHANGED tables BY <1>1 DEF StartAssign
    <2>3. p.pc = "scan" /\ p.op = "assign" /\ p.new = r BY DEF Idle
    <2>4. run[r].status = "absent" /\ \A g \in Handler : req[g].new # r
      BY <1>1 DEF StartAssign, Fresh
    <2> HIDE DEF p
    <2> QED BY <2>1, <2>2, <2>3, <2>4, AskSafe
  <1>2. ASSUME NEW prev \in Run, NEW new \in Run, StartRetry(h, prev, new)
        PROVE  Safe'
    <2> DEFINE i == run[prev].iter + 1
               t == run[prev].task
               p == [Idle EXCEPT !.pc = "scan", !.op = "retry", !.run = prev,
                                 !.task = t, !.new = new, !.iter = i]
    <2>1. i \in Nat BY <1>0 DEF RunRow
    <2>2. t \in Task BY <1>0, <1>2 DEF StartRetry, RowsOK
    <2>3. req' = [req EXCEPT ![h] = p] /\ UNCHANGED tables BY <1>2 DEF StartRetry
    <2>4. run[new].status = "absent" /\ \A g \in Handler : req[g].new # new
      BY <1>2 DEF StartRetry, Fresh
    <2>5. run[prev].status = "timed_out" BY <1>2 DEF StartRetry
    <2> HIDE DEF i
    <2>6. p.pc = "scan" /\ p.new = new /\ p.run = prev /\ p.task = t BY DEF Idle
    <2> HIDE DEF t
    <2>7. p \in Request /\ CallOK(p)
      BY <2>1, <2>2 DEF Idle, Request, Step, Call, CallOK
    <2> HIDE DEF p
    <2> QED BY <2>3, <2>4, <2>5, <2>6, <2>7, AskSafe DEF t
  <1>3. ASSUME NEW r \in Run, NEW tok \in Token, StartClaim(h, r, tok) PROVE Safe'
    <2> DEFINE p == [Idle EXCEPT !.pc = "claim", !.op = "claim", !.run = r,
                                 !.tok = tok, !.at = clock]
    <2>1. p \in Request BY <1>0 DEF Idle, Request, Step, Call
    <2>2. p.pc \notin Asking /\ p.new = NoRun BY DEF Idle, Asking
    <2> QED BY <1>3, <1>a, <2>1, <2>2 DEF StartClaim
  <1>4. ASSUME NEW r \in Run, NEW tok \in Token, StartHeartbeat(h, r, tok)
        PROVE  Safe'
    <2> DEFINE p == [Idle EXCEPT !.pc = "beat", !.op = "heartbeat", !.run = r,
                                 !.tok = tok, !.at = clock]
    <2>1. p \in Request BY <1>0 DEF Idle, Request, Step, Call
    <2>2. p.pc \notin Asking /\ p.new = NoRun BY DEF Idle, Asking
    <2> QED BY <1>4, <1>a, <2>1, <2>2 DEF StartHeartbeat
  <1>5. ASSUME NEW m \in MoveName, NEW r \in Run, NEW tok \in Token,
               StartMove(h, m, r, tok)
        PROVE  Safe'
    <2> DEFINE held == IF Move[m].leased THEN tok ELSE NoToken
               p == [Idle EXCEPT !.pc = "check", !.op = m, !.run = r, !.at = clock,
                                 !.tok = held]
    <2>1. held \in Token \cup {NoToken} OBVIOUS
    <2>2. req' = [req EXCEPT ![h] = p] /\ UNCHANGED tables BY <1>5 DEF StartMove
    <2> HIDE DEF held
    <2>3. p \in Request BY <1>0, <2>1 DEF Idle, Request, Step, Call
    <2>4. p.pc \notin Asking /\ p.new = NoRun BY DEF Idle, Asking
    <2> QED BY <1>a, <2>2, <2>3, <2>4
  <1>6. ASSUME NEW t \in Task, NEW v \in DOMAIN Verdict, StartVerdict(h, t, v)
        PROVE  Safe'
    <2> DEFINE p == [Idle EXCEPT !.pc = "verdict", !.op = v, !.task = t]
    <2>1. v \in {"accept", "reject"} BY VerdictTypes
    <2>2. p \in Request /\ CallOK(p)
      BY <2>1 DEF Idle, Request, Step, Call, CallOK
    <2>3. req' = [req EXCEPT ![h] = p] /\ UNCHANGED tables BY <1>6 DEF StartVerdict
    <2>4. p.pc = "verdict" /\ p.new = NoRun /\ p.task = t BY DEF Idle
    <2>5. task[t].assigned # NoRun BY <1>6 DEF StartVerdict, IInv, TaskBacked
    <2>6. task[t].assigned \in Run BY <1>0, <2>5 DEF TypeOK, TaskRow
    <2>7. run[task[t].assigned].status = "succeeded" BY <1>6, <2>5 DEF StartVerdict
    <2> HIDE DEF p
    <2> QED BY <2>2, <2>3, <2>4, <2>6, <2>7, AskSafe, NullAssumption
  <1>7. ASSUME StartRecover(h) PROVE Safe'
    <2> DEFINE p == [Idle EXCEPT !.pc = "next", !.op = "timeout", !.at = clock,
                                 !.todo = {r \in Run : Expired(r)}]
    <2>1. p \in Request BY <1>0 DEF Idle, Request, Step, Call, MoveName
    <2>2. p.pc \notin Asking /\ p.new = NoRun BY DEF Idle, Asking
    <2> QED BY <1>7, <1>a, <2>1, <2>2 DEF StartRecover
  <1> QED BY <1>1, <1>2, <1>3, <1>4, <1>5, <1>6, <1>7 DEF Start

LEMMA ScanSafe ==
    ASSUME IInv, NEW h \in Handler, Scan(h)
    PROVE  Safe'
  <1> DEFINE q == req[h]
  <1>0. /\ Typed /\ TypeOK /\ Requests /\ NewRunsOK /\ BegunOK
        /\ q \in Request /\ CallOK(q) /\ q.pc = "scan" /\ q.new \in Run
        /\ q.task \in Task /\ q.op \in {"assign", "retry"}
    BY DEF IInv, Typed, Requests, CallOK, Scan
  <1>1. CASE Return(h)
    <2>1. Leaves(h) BY <1>0, <1>1, ReturnLeaves
    <2> QED BY <2>1, QuietSafe DEF Scan
  <1>2. CASE ~Return(h)
    <2>1. PICK n \in Nat : req' = [req EXCEPT ![h].pc = "insert", ![h].iter = n]
      <3>1. CASE q.op = "assign"
        <4>1. Cardinality(RunsOf(q.task)) + 1 \in Nat BY <1>0, RunCount
        <4> QED BY <3>1, <4>1 DEF Scan
      <3>2. CASE q.op = "retry"
        <4>1. req' = [req EXCEPT ![h].pc = "insert"]
          BY <1>2, <3>2 DEF Scan, Goto
        <4>2. req' = [req EXCEPT ![h].pc = "insert", ![h].iter = q.iter]
          BY <1>0, <4>1 DEF Requests, Request
        <4>3. q.iter \in Nat BY <1>0 DEF Request
        <4> QED BY <4>2, <4>3
      <3> QED BY <1>0, <3>1, <3>2
    <2> DEFINE p == [q EXCEPT !.pc = "insert", !.iter = n]
    <2>2. req' = [req EXCEPT ![h] = p] BY <1>0, <2>1 DEF Requests, Request
    <2>3. p \in Request /\ CallOK(p)
      BY <1>0 DEF Request, Step, CallOK
    <2>4. /\ p.pc = "insert" /\ p.new = q.new /\ p.op = q.op /\ p.run = q.run
          /\ p.task = q.task
      BY <1>0 DEF Request
    <2>5. run[q.new].status = "absent" /\ \A g \in Handler \ {h} : req[g].new # q.new
      BY <1>0 DEF NewRunsOK
    <2>6. q.op = "retry" => run[q.run].status = "timed_out" /\ run[q.run].task = q.task
      BY <1>0 DEF BegunOK
    <2>7. UNCHANGED tables BY DEF Scan
    <2> HIDE DEF p, q
    <2> QED BY <2>2, <2>3, <2>4, <2>5, <2>6, <2>7, AskSafe
  <1> QED BY <1>1, <1>2

LEMMA NextExpiredSafe ==
    ASSUME IInv, NEW h \in Handler, NextExpired(h)
    PROVE  Safe'
  <1> DEFINE q == req[h]
  <1>0. Requests /\ q \in Request BY DEF IInv, Typed, Requests
  <1>1. PICK r \in q.todo :
          req' = [req EXCEPT ![h].pc = "check", ![h].run = r, ![h].todo = @ \ {r}]
    BY DEF NextExpired
  <1>2. r \in Run BY <1>0, <1>1 DEF Request
  <1> DEFINE left == q.todo \ {r}
             p == [q EXCEPT !.pc = "check", !.run = r, !.todo = left]
  <1>3. req' = [req EXCEPT ![h] = p] BY <1>0, <1>1 DEF Requests, Request
  <1>4. left \in SUBSET Run BY <1>0 DEF Request
  <1> HIDE DEF left
  <1>5. p \in Request /\ p.pc = "check" /\ p.new = q.new
    BY <1>0, <1>2, <1>4 DEF Request, Step
  <1> HIDE DEF p
  <1>6. Leaves(h) BY <1>3, <1>5 DEF Leaves, Asking
  <1> QED BY <1>6, QuietSafe DEF NextExpired

LEMMA SafeContinue ==
    ASSUME IInv, NEW h \in Handler, Continue(h)
    PROVE  Safe'
  <1>0. Requests BY DEF IInv, Typed
  <1>1. ASSUME UNCHANGED tables,
               \/ \E step \in Step \ Asking : Goto(h, step)
               \/ Return(h)
               \/ Throw(h)
        PROVE  Safe'
    <2>1. Leaves(h) BY <1>0, <1>1, GotoLeaves, ReturnLeaves, ThrowLeaves
    <2> QED BY <1>1, <2>1, QuietSafe
  <1>2. CASE Check(h) \/ Reread(h)
    BY <1>1, <1>2 DEF Check, Reread, Step, Asking
  <1>3. CASE FindEvent(h) \/ AddEvent(h)
    BY <1>1, <1>3 DEF FindEvent, AddEvent, AfterEvent, Step, Asking
  <1>4. CASE FindReport(h) \/ AddReport(h)
    BY <1>1, <1>4 DEF FindReport, AddReport, Step, Asking
  <1>5. CASE FindInbox(h) \/ AddInbox(h) \/ Notify(h)
    BY <1>1, <1>5 DEF FindInbox, AddInbox, Notify, Step, Asking
  <1> QED BY <1>2, <1>3, <1>4, <1>5, ScanSafe, InsertSafe, UndoSafe, ClaimSafe,
             BeatSafe, NextExpiredSafe, BatchSafe, WriteVerdictSafe DEF Continue

LEMMA InvInit == Init => IInv
  <1> SUFFICES ASSUME Init PROVE IInv OBVIOUS
  <1>1. Typed BY TypedInit
  <1>2. NewRunsOK /\ BegunOK BY IdleOK, NullAssumption DEF Init, NewRunsOK, BegunOK
  <1>3. RunningOwns BY DEF Init, RunningOwns, Absent
  <1>4. TaskBacked BY DEF Init, TaskBacked
  <1> QED BY <1>1, <1>2, <1>3, <1>4 DEF IInv

LEMMA InvStep == IInv /\ [Next]_vars => IInv'
  <1> SUFFICES ASSUME IInv, [Next]_vars PROVE IInv'
    OBVIOUS
  <1>1. Typed' BY TypedStep DEF IInv
  <1>2. Safe'
    <2>1. CASE \E h \in Handler : Start(h) \/ Continue(h)
      BY <2>1, SafeStart, SafeContinue
    <2>2. CASE \E h \in Handler : Crash(h)
      <3>1. PICK h \in Handler : Crash(h) BY <2>2
      <3>2. Leaves(h) BY <3>1, ThrowLeaves DEF Crash, IInv, Typed
      <3> QED BY <3>1, <3>2, QuietSafe DEF Crash
    <2>3. CASE Tick \/ UNCHANGED vars
      <3>1. UNCHANGED <<tables, req>> BY <2>3 DEF Tick, vars
      <3> QED BY <3>1
              DEF IInv, Safe, NewRunsOK, BegunOK, RunningOwns, TaskBacked,
                  Orphan, Owns, tables
    <2> QED BY <2>1, <2>2, <2>3 DEF Next
  <1> QED BY <1>1, <1>2 DEF IInv, Safe

THEOREM Invariant == Spec => []IInv
  BY InvInit, InvStep, PTL DEF Spec

(***************************************************************************)
(* Only the run that its task is assigned to executes: for any number of   *)
(* concurrent calls, retries and deaths, no task has two workers at once.  *)
(***************************************************************************)
THEOREM OnlyAssignedRuns == Spec => []RunningOwns
  <1>1. IInv => RunningOwns BY DEF IInv
  <1> QED BY <1>1, Invariant, PTL

(***************************************************************************)
(* No task is ahead of its run: in particular a task is completed only by  *)
(* a run that has succeeded.                                               *)
(***************************************************************************)
THEOREM TasksAreBacked == Spec => []TaskBacked
  <1>1. IInv => TaskBacked BY DEF IInv
  <1> QED BY <1>1, Invariant, PTL
-----------------------------------------------------------------------------
(***************************************************************************)
(* Leases.  A row is given a token only while it is queued, and loses it   *)
(* only when it ends.                                                      *)
(***************************************************************************)
LeaseKept ==
    \A r \in Run :
        /\ run[r].token # NoToken => run'[r].token \in {run[r].token, NoToken}
        /\ run[r].status \in Terminal =>
              run'[r].status = run[r].status /\ run'[r].token = NoToken

\* It is enough that one row changes at a time, and in one of these ways.
LEMMA LeaseKeptByRow ==
    ASSUME Typed, NEW r \in Run, NEW row,
           run' = [run EXCEPT ![r] = row],
           \/ run[r].status \in {"absent", "queued"}
           \/ run[r].status = "running" /\ row.token \in {run[r].token, NoToken}
    PROVE  LeaseKept
  <1>1. \A s \in Run : run'[s] = IF s = r THEN row ELSE run[s]
    BY DEF Typed, TypeOK
  <1>2. \A s \in Run : run[s].status # "running" => run[s].token = NoToken
    BY DEF Typed, RowsOK
  <1> QED BY <1>1, <1>2 DEF LeaseKept, Terminal

LEMMA LeaseKeptByMove ==
    ASSUME IInv, NEW h \in Handler, Batch(h)
    PROVE  LeaseKept
  <1> DEFINE q == req[h]
             row == Closed(run[q.run], Move[q.op].to)
  <1>1. Typed /\ TypeOK /\ RowsOK /\ q.run \in Run /\ q.op \in MoveName
    BY DEF IInv, Typed, Requests, CallOK, Batch
  <1>2. CASE RunMatches(q)
    <2>1. run' = [run EXCEPT ![q.run] = row] BY <1>1, <1>2 DEF Batch, TypeOK
    <2>2. run[q.run].status \in {"queued", "running"}
      BY <1>1, <1>2, MoveTypes DEF RunMatches, Active
    <2>3. row.token = NoToken BY <1>1 DEF Closed, TypeOK, RunRow
    <2> HIDE DEF row, q
    <2> QED BY <1>1, <2>1, <2>2, <2>3, LeaseKeptByRow
  <1>3. CASE ~RunMatches(q)
    <2>1. run' = run BY <1>3 DEF Batch
    <2> QED BY <1>1, <2>1 DEF LeaseKept, RowsOK, Terminal
  <1> QED BY <1>2, <1>3

LEMMA LeaseStep == IInv /\ [Next]_vars => [LeaseKept]_vars
  <1> SUFFICES ASSUME IInv, Next PROVE LeaseKept
    BY DEF vars
  <1>0. Typed /\ TypeOK /\ RowsOK BY DEF IInv, Typed
  <1>1. ASSUME run' = run PROVE LeaseKept
    BY <1>0, <1>1 DEF LeaseKept, RowsOK, Terminal
  <1>2. ASSUME NEW h \in Handler, Insert(h) PROVE LeaseKept
    <2>1. req[h].new \in Run /\ run[req[h].new].status = "absent"
      BY <1>2 DEF IInv, Typed, Requests, CallOK, NewRunsOK, Insert
    <2> QED BY <1>0, <1>2, <2>1, LeaseKeptByRow DEF Insert
  <1>3. ASSUME NEW h \in Handler, Undo(h) PROVE LeaseKept
    <2>1. req[h].new \in Run /\ run[req[h].new].status = "queued"
      BY <1>3 DEF IInv, Typed, Requests, CallOK, NewRunsOK, Undo, Orphan
    <2> QED BY <1>0, <1>3, <2>1, LeaseKeptByRow DEF Undo
  <1>4. ASSUME NEW h \in Handler, Claim(h) PROVE LeaseKept
    <2> DEFINE q == req[h]
               row == [run[q.run] EXCEPT !.status = "running", !.token = q.tok,
                                         !.expires = q.at + LeaseDuration]
    <2>1. q.run \in Run BY <1>4 DEF IInv, Typed, Requests, CallOK, Claim
    <2>2. CASE Claimable(q.run)
      <3>1. run' = [run EXCEPT ![q.run] = row]
        BY <1>0, <1>4, <2>1, <2>2 DEF Claim, TypeOK
      <3>2. run[q.run].status = "queued" BY <2>2 DEF Claimable
      <3> HIDE DEF row
      <3> QED BY <1>0, <2>1, <3>1, <3>2, LeaseKeptByRow
    <2>3. CASE ~Claimable(q.run)
      BY <1>1, <1>4, <2>3 DEF Claim
    <2> QED BY <2>2, <2>3
  <1>5. ASSUME NEW h \in Handler, Beat(h) PROVE LeaseKept
    <2>1. \A r \in Run : run'[r].token = run[r].token /\ run'[r].status = run[r].status
      BY <1>0, <1>5 DEF Beat, TypeOK, RunRow
    <2> QED BY <1>0, <2>1 DEF LeaseKept, RowsOK, Terminal
  <1>6. ASSUME NEW h \in Handler, Start(h) PROVE run' = run
    BY <1>6 DEF Start, StartAssign, StartRetry, StartClaim, StartHeartbeat,
                StartMove, StartVerdict, StartRecover, tables
  <1>7. ASSUME NEW h \in Handler,
               Scan(h) \/ NextExpired(h) \/ Check(h) \/ Reread(h)
        PROVE  run' = run
    BY <1>7 DEF Scan, NextExpired, Check, Reread, tables
  <1>8. ASSUME NEW h \in Handler,
               \/ FindEvent(h) \/ AddEvent(h) \/ FindReport(h) \/ AddReport(h)
               \/ FindInbox(h) \/ AddInbox(h) \/ WriteVerdict(h) \/ Notify(h)
        PROVE  run' = run
    BY <1>8 DEF FindEvent, AddEvent, FindReport, AddReport, FindInbox, AddInbox,
                WriteVerdict, Notify, tables
  <1>9. ASSUME Tick \/ \E h \in Handler : Crash(h) PROVE run' = run
    BY <1>9 DEF Tick, Crash, tables
  <1> QED BY <1>1, <1>2, <1>3, <1>4, <1>5, <1>6, <1>7, <1>8, <1>9, LeaseKeptByMove
          DEF Next, Continue

(***************************************************************************)
(* A lease never changes hands, and a run that has ended stays ended and   *)
(* can be finished by nobody's token.                                      *)
(***************************************************************************)
THEOREM LeasesStay == Spec => LeaseStays
  <1>1. Spec => [][LeaseKept]_vars BY Invariant, LeaseStep, PTL DEF Spec
  <1> QED BY <1>1 DEF LeaseStays, LeaseKept
-----------------------------------------------------------------------------
(***************************************************************************)
(* Proofs about what the lifecycle tells the Master over D1: that it is    *)
(* true, and that without deaths every outcome is told or about to be, for *)
(* any tasks, runs, tokens and handlers.                                   *)
(***************************************************************************)

Finish == {"succeed", "fail", "timeout"}
Ends == {"SUCCEEDED", "FAILED", "TIMED_OUT"}
EventSteps == {"event", "addEvent"}
ReportSteps == {"report", "addReport"}
InboxSteps == {"inbox", "addInbox"}
RecordSteps == EventSteps \cup ReportSteps \cup InboxSteps

\* A handler that records a finish has found it made, and what it has passed recorded.
RecorderOK(q) ==
    q.pc \in RecordSteps /\ q.op \in Finish =>
        /\ run[q.run].status = Move[q.op].to
        /\ q.pc \notin EventSteps => EventOf[q.op] \in events[q.run]
        /\ q.pc \in InboxSteps => report[q.run] # "none"

RecordersOK == \A h \in Handler : RecorderOK(req[h])

\* An event of a finish tells how its run has ended.
EventsAreTrue ==
    \A r \in Run, m \in Finish : EventOf[m] \in events[r] => run[r].status = Move[m].to

Told == IInv /\ RecordersOK /\ EventsAreTrue /\ ReportsAreTrue /\ ReportsAreOwed

\* What is left of Told when IInv is known.
Telling == RecordersOK /\ EventsAreTrue /\ ReportsAreTrue /\ ReportsAreOwed

\* The steps at which somebody must be, for the outcome of r to reach the inbox.
Due(r) ==
    IF report[r] # "none" THEN InboxSteps
    ELSE IF events[r] \cap Ends # {} THEN ReportSteps
    ELSE EventSteps

OwedFor(r) == Ended(r) /\ inbox[r] = 0 => Recording(r, Due(r))
-----------------------------------------------------------------------------
LEMMA Finishes ==
    /\ DOMAIN OutcomeOf = Finish
    /\ Finish \subseteq MoveName
    /\ Move["succeed"].to = "succeeded" /\ Move["fail"].to = "failed"
    /\ Move["timeout"].to = "timed_out"
    /\ EventOf["succeed"] = "SUCCEEDED" /\ EventOf["fail"] = "FAILED"
    /\ EventOf["timeout"] = "TIMED_OUT"
    /\ OutcomeOf["succeed"] = "success" /\ OutcomeOf["fail"] = "failure"
    /\ OutcomeOf["timeout"] = "failure"
    /\ \A m \in MoveName \cup {"claim", "retry"} : EventOf[m] \in Ends <=> m \in Finish
    /\ \A m \in MoveName : Move[m].to \in {"succeeded", "failed", "timed_out"} <=> m \in Finish
  BY DEF OutcomeOf, Finish, MoveName, Move, EventOf, Ends

\* Of the statuses that a finish leads to, each belongs to one finish.
LEMMA EndsDiffer ==
    \A m, n \in Finish : Move[m].to = Move[n].to \/ EventOf[m] = EventOf[n] => m = n
  BY Finishes DEF Finish

LEMMA OwedAll ==
    ReportsAreOwed <=> (crashes = 0 => \A r \in Run : OwedFor(r))
  BY DEF ReportsAreOwed, OwedFor, Due, Recording, InboxSteps, ReportSteps, EventSteps, Ends

LEMMA OwedAllNext ==
    ReportsAreOwed' <=> (crashes' = 0 => \A r \in Run : OwedFor(r)')
  BY DEF ReportsAreOwed, OwedFor, Due, Recording, InboxSteps, ReportSteps, EventSteps, Ends
-----------------------------------------------------------------------------
(***************************************************************************)
(* What a step does to the recorders and to what is owed.                  *)
(***************************************************************************)
\* Ended runs stay as they ended, and nothing that was recorded is withdrawn.
Lasting ==
    \A r \in Run :
        /\ run[r].status \in Terminal => run'[r].status = run[r].status
        /\ events[r] \subseteq events'[r]
        /\ report[r] # "none" => report'[r] # "none"

LEMMA RecordersStep ==
    ASSUME Told, Lasting, NEW h \in Handler, NEW p, req' = [req EXCEPT ![h] = p],
           p.pc \in RecordSteps /\ p.op \in Finish =>
              /\ run'[p.run].status = Move[p.op].to
              /\ p.pc \notin EventSteps => EventOf[p.op] \in events'[p.run]
              /\ p.pc \in InboxSteps => report'[p.run] # "none"
    PROVE  RecordersOK'
  <1>0. req \in [Handler -> Request] BY DEF Told, IInv, Typed, Requests
  <1> SUFFICES ASSUME NEW g \in Handler PROVE RecorderOK(req[g])'
    BY DEF RecordersOK
  <1>1. CASE g = h
    <2>1. req'[g] = p BY <1>0, <1>1
    <2> QED BY <2>1 DEF RecorderOK
  <1>2. CASE g # h
    <2>1. req'[g] = req[g] BY <1>0, <1>2
    <2>2. RecorderOK(req[g]) BY DEF Told, RecordersOK
    <2>3. req[g].pc \in RecordSteps /\ req[g].op \in Finish =>
             req[g].run \in Run /\ Move[req[g].op].to \in Terminal
      <3>1. CallOK(req[g]) BY DEF Told, IInv, Typed, Requests
      <3>2. req[g].op \in Finish => Subject(req[g]) = req[g].run
        BY DEF Subject, Finish
      <3> QED BY <3>1, <3>2, MoveTypes, Finishes
              DEF CallOK, RecordSteps, EventSteps, ReportSteps, InboxSteps
    <2> QED BY <2>1, <2>2, <2>3 DEF RecorderOK, Lasting
  <1> QED BY <1>1, <1>2

\* Whoever is due stays due, unless it is h and it leaves.
LEMMA OwedStep ==
    ASSUME Told, NEW h \in Handler, NEW p, req' = [req EXCEPT ![h] = p],
           NEW r \in Run, Recording(r, Due(r)), Due(r)' = Due(r),
           req[h].run = r /\ req[h].op \in Finish /\ req[h].pc \in Due(r) =>
              p.run = r /\ p.op \in Finish /\ p.pc \in Due(r)
    PROVE  Recording(r, Due(r))'
  <1>0. req \in [Handler -> Request] BY DEF Told, IInv, Typed, Requests
  <1>1. PICK g \in Handler : req[g].run = r /\ req[g].op \in Finish /\ req[g].pc \in Due(r)
    BY Finishes DEF Recording
  <1>2. req'[g].run = r /\ req'[g].op \in Finish /\ req'[g].pc \in Due(r)
    BY <1>0, <1>1
  <1> QED BY <1>2, Finishes DEF Recording

\* A step of a handler that records nothing, and that ends no run.
LEMMA UnrelatedStep ==
    ASSUME Told, NEW h \in Handler, NEW p, req' = [req EXCEPT ![h] = p],
           req[h].pc \notin RecordSteps, UNCHANGED <<events, report, inbox>>,
           crashes' = 0 => crashes = 0,
           \A r \in Run : run[r].status \in Terminal \/ run'[r].status \in Terminal
                            => run'[r].status = run[r].status,
           p.pc \in RecordSteps /\ p.op \in Finish =>
              p.pc \in EventSteps /\ run'[p.run].status = Move[p.op].to
    PROVE  Telling'
  <1>1. Lasting BY DEF Lasting
  <1>2. RecordersOK'
    <2>1. p.pc \in EventSteps => p.pc \notin InboxSteps BY DEF EventSteps, InboxSteps
    <2> QED BY <1>1, <2>1, RecordersStep
  <1>3. EventsAreTrue'
    <2>1. \A m \in Finish : Move[m].to \in Terminal BY Finishes, MoveTypes
    <2> QED BY <2>1 DEF Told, EventsAreTrue
  <1>4. ReportsAreTrue' BY DEF Told, ReportsAreTrue, Terminal
  <1>5. ReportsAreOwed'
    <2>1. SUFFICES ASSUME crashes = 0, NEW r \in Run, Ended(r)', inbox'[r] = 0
                   PROVE  Recording(r, Due(r))'
      BY OwedAllNext DEF OwedFor
    <2>2. Ended(r) /\ inbox[r] = 0 BY <2>1 DEF Ended, Terminal
    <2>3. Recording(r, Due(r)) BY <2>1, <2>2, OwedAll DEF Told, OwedFor
    <2>4. Due(r)' = Due(r) /\ Due(r) \subseteq RecordSteps
      BY DEF Due, RecordSteps
    <2> QED BY <2>3, <2>4, OwedStep
  <1> QED BY <1>2, <1>3, <1>4, <1>5 DEF Telling

\* A step of a handler that records, but adds nothing: it goes on, or nothing is due of it.
LEMMA RecordQuiet ==
    ASSUME Told, NEW h \in Handler, NEW p, req' = [req EXCEPT ![h] = p],
           UNCHANGED <<tables, records, crashes>>,
           p.pc \in RecordSteps /\ p.op \in Finish =>
              /\ run[p.run].status = Move[p.op].to
              /\ p.pc \notin EventSteps => EventOf[p.op] \in events[p.run]
              /\ p.pc \in InboxSteps => report[p.run] # "none",
           \A r \in Run :
              /\ inbox[r] = 0 /\ req[h].run = r /\ req[h].op \in Finish
              /\ req[h].pc \in Due(r)
              => p.run = r /\ p.op \in Finish /\ p.pc \in Due(r)
    PROVE  Telling'
  <1>0. UNCHANGED <<task, run, events, report, inbox>> BY DEF tables, records
  <1>1. RecordersOK'
    <2>1. Lasting BY <1>0 DEF Lasting
    <2> QED BY <1>0, <2>1, RecordersStep
  <1>2. EventsAreTrue' /\ ReportsAreTrue'
    BY <1>0 DEF Told, EventsAreTrue, ReportsAreTrue
  <1>3. ReportsAreOwed'
    <2>1. SUFFICES ASSUME crashes = 0, NEW r \in Run, Ended(r)', inbox'[r] = 0
                   PROVE  Recording(r, Due(r))'
      BY OwedAllNext DEF OwedFor
    <2>2. Ended(r) /\ inbox[r] = 0 BY <1>0, <2>1 DEF Ended
    <2>3. Recording(r, Due(r)) BY <2>1, <2>2, OwedAll DEF Told, OwedFor
    <2>4. Due(r)' = Due(r) BY <1>0 DEF Due
    <2> QED BY <2>2, <2>3, <2>4, OwedStep
  <1> QED BY <1>1, <1>2, <1>3 DEF Telling
-----------------------------------------------------------------------------
(***************************************************************************)
(* How a step leaves its handler.                                          *)
(***************************************************************************)
LEMMA GotoStep ==
    ASSUME Requests, NEW h \in Handler, NEW step \in Step, Goto(h, step)
    PROVE  \E p : /\ req' = [req EXCEPT ![h] = p]
                  /\ p.pc = step /\ p.op = req[h].op /\ p.run = req[h].run
  <1> DEFINE p == [req[h] EXCEPT !.pc = step]
  <1>1. req[h] \in Request BY DEF Requests
  <1>2. p.pc = step /\ p.op = req[h].op /\ p.run = req[h].run BY <1>1 DEF Request
  <1>3. req' = [req EXCEPT ![h] = p] BY DEF Goto
  <1> HIDE DEF p
  <1> QED BY <1>2, <1>3

LEMMA ThrowStep ==
    ASSUME NEW h \in Handler, Throw(h)
    PROVE  \E p : req' = [req EXCEPT ![h] = p] /\ p.pc \notin RecordSteps
  <1>1. Idle.pc \notin RecordSteps
    BY IdleOK DEF RecordSteps, EventSteps, ReportSteps, InboxSteps
  <1> QED BY <1>1 DEF Throw

LEMMA ReturnStep ==
    ASSUME Requests, NEW h \in Handler, Return(h)
    PROVE  \E p : req' = [req EXCEPT ![h] = p] /\ p.pc \notin RecordSteps
  <1>1. CASE req[h].todo = {}
    <2>1. Throw(h) BY <1>1 DEF Return, Throw
    <2> QED BY <2>1, ThrowStep
  <1>2. CASE req[h].todo # {}
    <2>1. Goto(h, "next") BY <1>2 DEF Return, Goto
    <2>2. "next" \notin RecordSteps
      BY DEF RecordSteps, EventSteps, ReportSteps, InboxSteps
    <2> QED BY <2>1, <2>2, GotoStep DEF Step
  <1> QED BY <1>1, <1>2

LEMMA StartStep ==
    ASSUME NEW h \in Handler, Start(h)
    PROVE  /\ \E p : req' = [req EXCEPT ![h] = p] /\ p.pc \notin RecordSteps
           /\ req[h].pc = "idle" /\ UNCHANGED <<tables, records, crashes>>
  <1>0. {"scan", "claim", "beat", "check", "next", "verdict"} \cap RecordSteps = {}
    BY DEF RecordSteps, EventSteps, ReportSteps, InboxSteps
  <1>1. ASSUME NEW t \in Task, NEW r \in Run, StartAssign(h, t, r)
        PROVE  \E p : req' = [req EXCEPT ![h] = p] /\ p.pc \notin RecordSteps
    <2> DEFINE p == [Idle EXCEPT !.pc = "scan", !.op = "assign", !.task = t, !.new = r]
    <2>1. req' = [req EXCEPT ![h] = p] BY <1>1 DEF StartAssign
    <2>2. p.pc \notin RecordSteps BY <1>0 DEF Idle
    <2> HIDE DEF p
    <2> QED BY <2>1, <2>2
  <1>2. ASSUME NEW prev \in Run, NEW new \in Run, StartRetry(h, prev, new)
        PROVE  \E p : req' = [req EXCEPT ![h] = p] /\ p.pc \notin RecordSteps
    <2> DEFINE p == [Idle EXCEPT !.pc = "scan", !.op = "retry", !.run = prev,
                                 !.task = run[prev].task, !.new = new,
                                 !.iter = run[prev].iter + 1]
    <2>1. req' = [req EXCEPT ![h] = p] BY <1>2 DEF StartRetry
    <2>2. p.pc \notin RecordSteps BY <1>0 DEF Idle
    <2> HIDE DEF p
    <2> QED BY <2>1, <2>2
  <1>3. ASSUME NEW r \in Run, NEW tok \in Token, StartClaim(h, r, tok)
        PROVE  \E p : req' = [req EXCEPT ![h] = p] /\ p.pc \notin RecordSteps
    <2> DEFINE p == [Idle EXCEPT !.pc = "claim", !.op = "claim", !.run = r,
                                 !.tok = tok, !.at = clock]
    <2>1. req' = [req EXCEPT ![h] = p] BY <1>3 DEF StartClaim
    <2>2. p.pc \notin RecordSteps BY <1>0 DEF Idle
    <2> HIDE DEF p
    <2> QED BY <2>1, <2>2
  <1>4. ASSUME NEW r \in Run, NEW tok \in Token, StartHeartbeat(h, r, tok)
        PROVE  \E p : req' = [req EXCEPT ![h] = p] /\ p.pc \notin RecordSteps
    <2> DEFINE p == [Idle EXCEPT !.pc = "beat", !.op = "heartbeat", !.run = r,
                                 !.tok = tok, !.at = clock]
    <2>1. req' = [req EXCEPT ![h] = p] BY <1>4 DEF StartHeartbeat
    <2>2. p.pc \notin RecordSteps BY <1>0 DEF Idle
    <2> HIDE DEF p
    <2> QED BY <2>1, <2>2
  <1>5. ASSUME NEW m \in MoveName, NEW r \in Run, NEW tok \in Token, StartMove(h, m, r, tok)
        PROVE  \E p : req' = [req EXCEPT ![h] = p] /\ p.pc \notin RecordSteps
    <2> DEFINE p == [Idle EXCEPT !.pc = "check", !.op = m, !.run = r, !.at = clock,
                                 !.tok = IF Move[m].leased THEN tok ELSE NoToken]
    <2>1. req' = [req EXCEPT ![h] = p] BY <1>5 DEF StartMove
    <2>2. p.pc \notin RecordSteps BY <1>0 DEF Idle
    <2> HIDE DEF p
    <2> QED BY <2>1, <2>2
  <1>6. ASSUME NEW t \in Task, NEW v \in DOMAIN Verdict, StartVerdict(h, t, v)
        PROVE  \E p : req' = [req EXCEPT ![h] = p] /\ p.pc \notin RecordSteps
    <2> DEFINE p == [Idle EXCEPT !.pc = "verdict", !.op = v, !.task = t]
    <2>1. req' = [req EXCEPT ![h] = p] BY <1>6 DEF StartVerdict
    <2>2. p.pc \notin RecordSteps BY <1>0 DEF Idle
    <2> HIDE DEF p
    <2> QED BY <2>1, <2>2
  <1>7. ASSUME StartRecover(h)
        PROVE  \E p : req' = [req EXCEPT ![h] = p] /\ p.pc \notin RecordSteps
    <2> DEFINE p == [Idle EXCEPT !.pc = "next", !.op = "timeout", !.at = clock,
                                 !.todo = {r \in Run : Expired(r)}]
    <2>1. req' = [req EXCEPT ![h] = p] BY <1>7 DEF StartRecover
    <2>2. p.pc \notin RecordSteps BY <1>0 DEF Idle
    <2> HIDE DEF p
    <2> QED BY <2>1, <2>2
  <1>8. req[h].pc = "idle" /\ UNCHANGED <<tables, records, crashes>>
    BY DEF Start, StartAssign, StartRetry, StartClaim, StartHeartbeat, StartMove,
           StartVerdict, StartRecover
  <1> QED BY <1>1, <1>2, <1>3, <1>4, <1>5, <1>6, <1>7, <1>8 DEF Start
-----------------------------------------------------------------------------
(***************************************************************************)
(* Each step keeps what is told true, and what is owed owed.               *)
(***************************************************************************)
\* Insert, Undo, Claim and Beat neither end a run nor change one that has ended.
LEMMA EndsStay ==
    ASSUME Told, NEW h \in Handler, Insert(h) \/ Undo(h) \/ Claim(h) \/ Beat(h)
    PROVE  \A r \in Run : run[r].status \in Terminal \/ run'[r].status \in Terminal
                            => run'[r].status = run[r].status
  <1>0. /\ run \in [Run -> RunRow] /\ CallOK(req[h])
        /\ req[h].pc \in {"scan", "insert"} => run[req[h].new].status = "absent"
        /\ req[h].pc = "undo" => Orphan(req[h].new)
    BY DEF Told, IInv, Typed, TypeOK, Requests, NewRunsOK
  <1>1. CASE Insert(h)
    <2>1. run' = [run EXCEPT ![req[h].new] = Queued(req[h].task, req[h].iter)]
      BY <1>1 DEF Insert
    <2>2. Queued(req[h].task, req[h].iter).status = "queued" BY DEF Queued
    <2>3. req[h].new \in Run /\ run[req[h].new].status = "absent"
      BY <1>0, <1>1 DEF Insert, CallOK
    <2> QED BY <1>0, <2>1, <2>2, <2>3 DEF Terminal
  <1>2. CASE Undo(h)
    <2>1. run' = [run EXCEPT ![req[h].new] = Absent] /\ Absent.status = "absent"
      BY <1>2 DEF Undo, Absent
    <2>2. req[h].new \in Run /\ run[req[h].new].status = "queued"
      BY <1>0, <1>2 DEF Undo, CallOK, Orphan
    <2> QED BY <1>0, <2>1, <2>2 DEF Terminal
  <1>3. CASE Claim(h)
    <2>1. req[h].run \in Run BY <1>0, <1>3 DEF Claim, CallOK
    <2>2. \A r \in Run : \/ run'[r].status = run[r].status
                         \/ run[r].status = "queued" /\ run'[r].status = "running"
      BY <1>0, <1>3, <2>1 DEF Claim, Claimable, RunRow
    <2> QED BY <2>2 DEF Terminal
  <1>4. CASE Beat(h)
    BY <1>0, <1>4 DEF Beat, RunRow
  <1> QED BY <1>1, <1>2, <1>3, <1>4

\* The steps before a finish and the steps of the calls that report nothing.
LEMMA UnrelatedSteps ==
    ASSUME Told, NEW h \in Handler,
           \/ Start(h) \/ Scan(h) \/ Undo(h) \/ Beat(h) \/ NextExpired(h)
           \/ WriteVerdict(h) \/ Notify(h)
    PROVE  Telling'
  <1> USE DEF RecordSteps, EventSteps, ReportSteps, InboxSteps
  <1>0. Requests /\ req \in [Handler -> Request] BY DEF Told, IInv, Typed, Requests
  <1>1. /\ UNCHANGED <<events, report, inbox, crashes>>
        /\ req[h].pc \notin RecordSteps
    BY StartStep DEF Scan, Undo, Beat, NextExpired, WriteVerdict, Notify, records
  <1>2. \A r \in Run : run[r].status \in Terminal \/ run'[r].status \in Terminal
                         => run'[r].status = run[r].status
    BY StartStep, EndsStay DEF Scan, NextExpired, WriteVerdict, Notify, tables
  <1>3. \E p : req' = [req EXCEPT ![h] = p] /\ p.pc \notin RecordSteps
    <2>1. CASE Start(h) BY <2>1, StartStep
    <2>2. CASE Undo(h) \/ Beat(h) \/ Notify(h)
      BY <1>0, <2>2, ReturnStep DEF Undo, Beat, Notify
    <2>3. CASE WriteVerdict(h)
      BY <1>0, <2>3, GotoStep DEF WriteVerdict, Step
    <2>4. CASE NextExpired(h)
      <3>1. PICK r \in req[h].todo :
              req' = [req EXCEPT ![h].pc = "check", ![h].run = r, ![h].todo = @ \ {r}]
        BY <2>4 DEF NextExpired
      <3> DEFINE p == [req[h] EXCEPT !.pc = "check", !.run = r, !.todo = @ \ {r}]
      <3>2. req' = [req EXCEPT ![h] = p] /\ p.pc = "check"
        BY <1>0, <3>1 DEF Request
      <3> HIDE DEF p
      <3> QED BY <3>2
    <2>5. CASE Scan(h)
      <3>1. CASE Return(h) BY <1>0, <3>1, ReturnStep
      <3>2. CASE Goto(h, "insert") BY <1>0, <3>2, GotoStep DEF Step
      <3>3. CASE req[h].op = "assign"
        <4> DEFINE n == Cardinality(RunsOf(req[h].task)) + 1
                   p == [req[h] EXCEPT !.pc = "insert", !.iter = n]
        <4>1. req' = [req EXCEPT ![h] = p] /\ p.pc = "insert"
          BY <1>0, <2>5, <3>3 DEF Scan, Request
        <4> HIDE DEF p
        <4> QED BY <4>1
      <3>4. req[h].op \in {"assign", "retry"}
        BY <2>5 DEF Scan, Told, IInv, Typed, Requests, CallOK
      <3> QED BY <2>5, <3>1, <3>2, <3>3, <3>4 DEF Scan
    <2> QED BY <2>1, <2>2, <2>3, <2>4, <2>5
  <1>4. PICK p : req' = [req EXCEPT ![h] = p] /\ p.pc \notin RecordSteps
    BY <1>3
  <1> QED BY <1>1, <1>2, <1>4, UnrelatedStep

\* The steps after which a call may record something other than a finish.
LEMMA OtherEvents ==
    ASSUME Told, NEW h \in Handler, Insert(h) \/ Claim(h)
    PROVE  Telling'
  <1> USE DEF RecordSteps, EventSteps, ReportSteps, InboxSteps
  <1>0. Requests /\ CallOK(req[h]) BY DEF Told, IInv, Typed, Requests
  <1>1. /\ UNCHANGED <<events, report, inbox, crashes>>
        /\ req[h].pc \notin RecordSteps
    BY DEF Insert, Claim, records
  <1>2. \A r \in Run : run[r].status \in Terminal \/ run'[r].status \in Terminal
                         => run'[r].status = run[r].status
    BY EndsStay
  <1>3. req[h].op \notin Finish BY <1>0 DEF Insert, Claim, CallOK, Finish
  <1>4. \E p : req' = [req EXCEPT ![h] = p] /\ ~(p.pc \in RecordSteps /\ p.op \in Finish)
    <2>1. \/ Return(h) \/ Goto(h, "event") \/ Goto(h, "undo") BY DEF Insert, Claim
    <2> QED BY <1>0, <1>3, <2>1, ReturnStep, GotoStep DEF Step
  <1>5. PICK p : req' = [req EXCEPT ![h] = p] /\ ~(p.pc \in RecordSteps /\ p.op \in Finish)
    BY <1>4
  <1> QED BY <1>1, <1>2, <1>5, UnrelatedStep

\* A move finds that it was made already, that it cannot be made, or that it is due.
LEMMA MoveLooksUp ==
    ASSUME Told, NEW h \in Handler,
           Check(h) \/ Reread(h) \/ (Batch(h) /\ ~RunMatches(req[h]))
    PROVE  Telling'
  <1> USE DEF RecordSteps, EventSteps, ReportSteps, InboxSteps
  <1>0. Requests BY DEF Told, IInv, Typed
  <1>1. /\ UNCHANGED <<run, events, report, inbox, crashes>>
        /\ req[h].pc \notin RecordSteps
    BY DEF Check, Reread, Batch, records, tables
  <1>2. \/ Goto(h, "event") /\ Moved(req[h])
        \/ Goto(h, "batch") \/ Goto(h, "reread") \/ Return(h)
    BY DEF Check, Reread, Batch
  <1>3. \E p : /\ req' = [req EXCEPT ![h] = p]
               /\ p.pc \in RecordSteps =>
                     /\ p.pc = "event" /\ p.op = req[h].op /\ p.run = req[h].run
                     /\ run[req[h].run].status = Move[req[h].op].to
    BY <1>0, <1>2, GotoStep, ReturnStep DEF Step, Moved
  <1>4. PICK p : /\ req' = [req EXCEPT ![h] = p]
                 /\ p.pc \in RecordSteps =>
                       /\ p.pc = "event" /\ p.op = req[h].op /\ p.run = req[h].run
                       /\ run[req[h].run].status = Move[req[h].op].to
    BY <1>3
  <1> QED BY <1>1, <1>4, UnrelatedStep

\* The batch ends the run: nothing has been recorded of it, and h is to begin.
LEMMA BatchEnds ==
    ASSUME Told, NEW h \in Handler, Batch(h), RunMatches(req[h])
    PROVE  Telling'
  <1> DEFINE q == req[h]
             to == Move[q.op].to
  <1>0. /\ q.run \in Run /\ q.op \in MoveName /\ Requests /\ TypeOK /\ q.pc = "batch"
    BY DEF Told, IInv, Typed, Requests, CallOK, Batch
  <1>1. UNCHANGED <<events, report, inbox, crashes>> BY DEF Batch, records
  <1>2. PICK p : /\ req' = [req EXCEPT ![h] = p]
                 /\ p.pc = "event" /\ p.op = q.op /\ p.run = q.run
    BY <1>0, GotoStep DEF Batch, Step
  <1>3. run' = [run EXCEPT ![q.run] = Closed(run[q.run], to)]
    BY <1>0 DEF Batch, TypeOK
  <1>4. Closed(run[q.run], to).status = to BY <1>0 DEF Closed, TypeOK, RunRow
  <1>5. \A r \in Run : run'[r].status = IF r = q.run THEN to ELSE run[r].status
    BY <1>0, <1>3, <1>4 DEF TypeOK
  <1>6. run[q.run].status \notin Terminal
    BY <1>0, MoveTypes DEF RunMatches, Active, Terminal
  <1> HIDE DEF to, q
  <1>7. Lasting BY <1>1, <1>5, <1>6 DEF Lasting
  <1>8. RecordersOK'
    BY <1>0, <1>2, <1>5, <1>7, RecordersStep DEF EventSteps, InboxSteps, to
  <1>9. events[q.run] \cap Ends = {} /\ report[q.run] = "none"
    <2>1. \A m \in Finish : EventOf[m] \notin events[q.run]
      <3>1. \A m \in Finish : Move[m].to \in Terminal BY Finishes, MoveTypes
      <3> QED BY <1>0, <1>6, <3>1 DEF Told, EventsAreTrue
    <2>2. \A e \in Ends : \E m \in Finish : e = EventOf[m]
      BY Finishes DEF Ends, Finish
    <2>3. report[q.run] \in Outcome BY <1>0 DEF TypeOK
    <2> QED BY <1>0, <1>6, <2>1, <2>2, <2>3
            DEF Told, ReportsAreTrue, Outcome, Terminal
  <1>10. EventsAreTrue'
    <2>1. \A m \in Finish : EventOf[m] \in Ends BY Finishes DEF Ends, Finish
    <2> QED BY <1>1, <1>5, <1>9, <2>1 DEF Told, EventsAreTrue
  <1>11. ReportsAreTrue'
    BY <1>1, <1>5, <1>9 DEF Told, ReportsAreTrue
  <1>12. ReportsAreOwed'
    <2>1. SUFFICES ASSUME crashes = 0, NEW r \in Run, Ended(r)', inbox'[r] = 0
                   PROVE  Recording(r, Due(r))'
      BY <1>1, OwedAllNext DEF OwedFor
    <2>2. Due(r)' = Due(r) BY <1>1 DEF Due
    <2>3. CASE r # q.run
      <3>1. Recording(r, Due(r))
        BY <1>1, <1>5, <2>1, <2>3, OwedAll DEF Told, OwedFor, Ended
      <3> QED BY <1>2, <2>2, <2>3, <3>1, OwedStep DEF q
    <2>4. CASE r = q.run
      <3>1. q.op \in Finish BY <1>0, <1>5, <2>1, <2>4, Finishes DEF Ended, to
      <3>2. Due(r)' = EventSteps BY <1>9, <2>2, <2>4 DEF Due
      <3>3. req'[h] = p BY <1>0, <1>2 DEF Requests
      <3> QED BY <1>2, <2>4, <3>1, <3>2, <3>3, Finishes DEF Recording, EventSteps
    <2> QED BY <2>3, <2>4
  <1> QED BY <1>8, <1>10, <1>11, <1>12 DEF Telling
-----------------------------------------------------------------------------
(***************************************************************************)
(* Recording: event, report, inbox item.                                   *)
(***************************************************************************)
\* What a recorder of a finish knows of its request.
LEMMA RecorderKnows ==
    ASSUME Told, NEW h \in Handler, req[h].pc \in RecordSteps
    PROVE  /\ req[h].op \in Finish =>
                 /\ Subject(req[h]) = req[h].run /\ req[h].run \in Run
                 /\ run[req[h].run].status = Move[req[h].op].to
                 /\ EventOf[req[h].op] \in Ends
           /\ req[h].pc \in ReportSteps \cup InboxSteps =>
                 req[h].op \in Finish /\ EventOf[req[h].op] \in events[req[h].run]
           /\ req[h].pc \in InboxSteps => report[req[h].run] # "none"
           /\ req[h].pc \in EventSteps =>
                 /\ req[h].op \in MoveName \cup {"claim", "retry"}
                 /\ Subject(req[h]) \in Run
  <1> USE DEF RecordSteps, EventSteps, ReportSteps, InboxSteps
  <1>1. CallOK(req[h]) /\ RecorderOK(req[h])
    BY DEF Told, IInv, Typed, Requests, RecordersOK
  <1>2. req[h].op \in Finish => Subject(req[h]) = req[h].run /\ EventOf[req[h].op] \in Ends
    BY Finishes DEF Subject, Finish
  <1> QED BY <1>1, <1>2 DEF CallOK, RecorderOK, Finish

LEMMA AfterEventStep ==
    ASSUME Told, NEW h \in Handler, AfterEvent(h)
    PROVE  \E p : /\ req' = [req EXCEPT ![h] = p]
                  /\ IF req[h].op \in Finish
                     THEN p.pc = "report" /\ p.op = req[h].op /\ p.run = req[h].run
                     ELSE p.pc \notin RecordSteps
  <1>0. Requests BY DEF Told, IInv, Typed
  <1>1. CASE req[h].op \in Finish
    BY <1>0, <1>1, GotoStep, Finishes DEF AfterEvent, Step
  <1>2. CASE req[h].op \notin Finish
    BY <1>0, <1>2, ReturnStep, Finishes DEF AfterEvent
  <1> QED BY <1>1, <1>2

LEMMA FindEventTells ==
    ASSUME Told, NEW h \in Handler, FindEvent(h)
    PROVE  Telling'
  <1> USE DEF RecordSteps, EventSteps, ReportSteps, InboxSteps
  <1>0. /\ Requests /\ req[h].pc = "event"
        /\ UNCHANGED <<tables, records, crashes>>
    BY DEF Told, IInv, Typed, FindEvent
  <1>1. CASE Recorded(req[h])
    <2>1. PICK p : /\ req' = [req EXCEPT ![h] = p]
                   /\ IF req[h].op \in Finish
                      THEN p.pc = "report" /\ p.op = req[h].op /\ p.run = req[h].run
                      ELSE p.pc \notin RecordSteps
      BY <1>1, AfterEventStep DEF FindEvent
    <2>2. \A r \in Run : ~(req[h].run = r /\ req[h].op \in Finish /\ req[h].pc \in Due(r))
      BY <1>0, <1>1, RecorderKnows DEF Recorded, Due
    <2> QED BY <1>0, <1>1, <2>1, <2>2, RecorderKnows, RecordQuiet DEF Recorded
  <1>2. CASE ~Recorded(req[h])
    <2>1. PICK p : /\ req' = [req EXCEPT ![h] = p]
                   /\ p.pc = "addEvent" /\ p.op = req[h].op /\ p.run = req[h].run
      BY <1>0, <1>2, GotoStep DEF FindEvent, Step
    <2>2. \A r \in Run : "event" \in Due(r) => "addEvent" \in Due(r) BY DEF Due
    <2>3. req[h].op \in Finish => run[req[h].run].status = Move[req[h].op].to
      BY <1>0, RecorderKnows
    <2>4. p.pc \in EventSteps /\ p.pc \notin InboxSteps BY <2>1
    <2> HIDE DEF RecordSteps, EventSteps, ReportSteps, InboxSteps
    <2>5. p.op \in Finish => run[p.run].status = Move[p.op].to BY <2>1, <2>3
    <2>6. \A r \in Run : /\ req[h].run = r /\ req[h].op \in Finish
                          /\ req[h].pc \in Due(r)
                         => p.run = r /\ p.op \in Finish /\ p.pc \in Due(r)
      BY <1>0, <2>1, <2>2
    <2> QED BY <1>0, <2>1, <2>4, <2>5, <2>6, RecordQuiet
  <1> QED BY <1>1, <1>2

LEMMA AddEventTells ==
    ASSUME Told, NEW h \in Handler, AddEvent(h)
    PROVE  Telling'
  <1> DEFINE q == req[h]
             s == Subject(q)
             e == EventOf[q.op]
  <1>0. /\ Requests /\ TypeOK /\ q.pc = "addEvent" /\ UNCHANGED <<tables, crashes>>
        /\ UNCHANGED <<run, report, inbox>>
    BY DEF Told, IInv, Typed, AddEvent, tables
  <1>k. /\ s \in Run /\ q.op \in MoveName \cup {"claim", "retry"}
        /\ q.op \in Finish => /\ s = q.run /\ run[s].status = Move[q.op].to
                              /\ e \in Ends
    BY <1>0, RecorderKnows DEF RecordSteps, EventSteps
  <1>1. CASE Recorded(q)
    <2>1. PICK p : req' = [req EXCEPT ![h] = p] /\ p.pc \notin RecordSteps
      BY <1>1, ThrowStep DEF AddEvent
    <2>2. \A r \in Run : ~(req[h].run = r /\ req[h].op \in Finish /\ req[h].pc \in Due(r))
      BY <1>0, <1>1, <1>k DEF Recorded, Due, ReportSteps, InboxSteps
    <2>3. UNCHANGED records BY <1>1 DEF AddEvent, records
    <2> QED BY <1>0, <2>1, <2>2, <2>3, RecordQuiet
  <1>2. CASE ~Recorded(q)
    <2>1. PICK p : /\ req' = [req EXCEPT ![h] = p]
                   /\ IF q.op \in Finish
                      THEN p.pc = "report" /\ p.op = q.op /\ p.run = q.run
                      ELSE p.pc \notin RecordSteps
      BY <1>2, AfterEventStep DEF AddEvent
    <2>2. \A r \in Run : events'[r] = IF r = s THEN events[r] \cup {e} ELSE events[r]
      BY <1>0, <1>2, <1>k DEF AddEvent, TypeOK
    <2> HIDE DEF q, s, e
    <2>3. Lasting BY <1>0, <2>2 DEF Lasting
    <2>4. RecordersOK'
      BY <1>0, <1>k, <2>1, <2>2, <2>3, RecordersStep
         DEF EventSteps, ReportSteps, InboxSteps, RecordSteps, e
    <2>5. EventsAreTrue'
      <3>1. \A m \in Finish : EventOf[m] = e => m = q.op
        BY <1>k, Finishes, EndsDiffer DEF e
      <3> QED BY <1>0, <1>k, <2>2, <3>1 DEF Told, EventsAreTrue
    <2>6. ReportsAreTrue' BY <1>0, <2>2 DEF Told, ReportsAreTrue
    <2>7. ReportsAreOwed'
      <3>1. SUFFICES ASSUME crashes = 0, NEW r \in Run, Ended(r), inbox[r] = 0
                     PROVE  Recording(r, Due(r))'
        BY <1>0, OwedAllNext DEF OwedFor, Ended
      <3>2. Recording(r, Due(r)) BY <3>1, OwedAll DEF Told, OwedFor
      <3>3. req'[h] = p BY <1>0, <2>1 DEF Requests
      <3>4. CASE r = s /\ e \in Ends /\ report[r] = "none"
        <4>1. q.op \in Finish BY <1>k, <3>4, Finishes DEF e
        <4>2. Due(r)' = ReportSteps BY <1>0, <2>2, <3>4 DEF Due
        <4> QED BY <1>k, <2>1, <3>3, <3>4, <4>1, <4>2, Finishes DEF Recording, ReportSteps
      <3>5. CASE ~(r = s /\ e \in Ends /\ report[r] = "none")
        <4>1. Due(r)' = Due(r) BY <1>0, <2>2, <3>5 DEF Due
        <4>2. ~(q.run = r /\ q.op \in Finish /\ q.pc \in Due(r))
          BY <1>0, <1>k, <3>5 DEF Due, InboxSteps
        <4> QED BY <2>1, <3>2, <4>1, <4>2, OwedStep DEF q
      <3> QED BY <3>4, <3>5
    <2> QED BY <2>4, <2>5, <2>6, <2>7 DEF Telling
  <1> QED BY <1>1, <1>2

LEMMA FindReportTells ==
    ASSUME Told, NEW h \in Handler, FindReport(h)
    PROVE  Telling'
  <1> USE DEF RecordSteps, EventSteps, ReportSteps, InboxSteps
  <1>0. /\ Requests /\ req[h].pc = "report"
        /\ UNCHANGED <<tables, records, crashes>>
    BY DEF Told, IInv, Typed, FindReport
  <1>1. PICK p : /\ req' = [req EXCEPT ![h] = p]
                 /\ p.pc = IF report[req[h].run] = "none" THEN "addReport" ELSE "inbox"
                 /\ p.op = req[h].op /\ p.run = req[h].run
    BY <1>0, GotoStep DEF FindReport, Step
  <1>2. \A r \in Run : "report" \in Due(r) => "addReport" \in Due(r) /\ report[r] = "none"
    BY DEF Due
  <1>3. /\ req[h].op \in Finish
        /\ run[req[h].run].status = Move[req[h].op].to
        /\ EventOf[req[h].op] \in events[req[h].run]
    BY <1>0, RecorderKnows
  <1>4. p.pc \in InboxSteps => report[req[h].run] # "none" BY <1>1
  <1> HIDE DEF RecordSteps, EventSteps, ReportSteps, InboxSteps
  <1>5. /\ run[p.run].status = Move[p.op].to /\ EventOf[p.op] \in events[p.run]
        /\ p.pc \in InboxSteps => report[p.run] # "none"
    BY <1>1, <1>3, <1>4
  <1>6. \A r \in Run : req[h].run = r /\ req[h].pc \in Due(r)
                         => p.run = r /\ p.op \in Finish /\ p.pc \in Due(r)
    BY <1>0, <1>1, <1>2, <1>3
  <1> QED BY <1>0, <1>1, <1>5, <1>6, RecordQuiet

LEMMA AddReportTells ==
    ASSUME Told, NEW h \in Handler, AddReport(h)
    PROVE  Telling'
  <1> DEFINE q == req[h]
  <1>0. /\ Requests /\ TypeOK /\ q.pc = "addReport" /\ UNCHANGED <<tables, crashes>>
        /\ UNCHANGED <<run, events, inbox>>
    BY DEF Told, IInv, Typed, AddReport, tables
  <1>k. /\ q.op \in Finish /\ q.run \in Run /\ run[q.run].status = Move[q.op].to
        /\ EventOf[q.op] \in events[q.run]
    BY <1>0, RecorderKnows DEF RecordSteps, ReportSteps
  <1>1. CASE report[q.run] # "none"
    <2>1. PICK p : req' = [req EXCEPT ![h] = p] /\ p.pc \notin RecordSteps
      BY <1>1, ThrowStep DEF AddReport
    <2>2. \A r \in Run : ~(req[h].run = r /\ req[h].op \in Finish /\ req[h].pc \in Due(r))
      BY <1>0, <1>1 DEF Due, InboxSteps
    <2>3. UNCHANGED records BY <1>1 DEF AddReport, records
    <2> QED BY <1>0, <2>1, <2>2, <2>3, RecordQuiet
  <1>2. CASE report[q.run] = "none"
    <2>1. PICK p : /\ req' = [req EXCEPT ![h] = p]
                   /\ p.pc = "inbox" /\ p.op = q.op /\ p.run = q.run
      BY <1>0, <1>2, GotoStep DEF AddReport, Step
    <2>2. \A r \in Run : report'[r] = IF r = q.run THEN OutcomeOf[q.op] ELSE report[r]
      BY <1>0, <1>2, <1>k DEF AddReport, TypeOK
    <2>3. OutcomeOf[q.op] # "none" BY <1>k, Finishes DEF Finish
    <2> HIDE DEF q
    <2>4. Lasting BY <1>0, <1>2, <2>2, <2>3 DEF Lasting
    <2>5. RecordersOK'
      BY <1>0, <1>k, <2>1, <2>2, <2>3, <2>4, RecordersStep
    <2>6. EventsAreTrue' BY <1>0 DEF Told, EventsAreTrue
    <2>7. ReportsAreTrue'
      <3>1. /\ OutcomeOf[q.op] = "success" =>
                  run[q.run].status = "succeeded" /\ "SUCCEEDED" \in events[q.run]
            /\ OutcomeOf[q.op] = "failure" =>
                  \/ run[q.run].status = "failed" /\ "FAILED" \in events[q.run]
                  \/ run[q.run].status = "timed_out" /\ "TIMED_OUT" \in events[q.run]
        <4>1. CASE q.op = "succeed" BY <1>k, <4>1, Finishes
        <4>2. CASE q.op = "fail" BY <1>k, <4>2, Finishes
        <4>3. CASE q.op = "timeout" BY <1>k, <4>3, Finishes
        <4> QED BY <1>k, <4>1, <4>2, <4>3 DEF Finish
      <3> QED BY <1>0, <1>2, <2>2, <2>3, <3>1 DEF Told, ReportsAreTrue
    <2>8. ReportsAreOwed'
      <3>1. SUFFICES ASSUME crashes = 0, NEW r \in Run, Ended(r), inbox[r] = 0
                     PROVE  Recording(r, Due(r))'
        BY <1>0, OwedAllNext DEF OwedFor, Ended
      <3>2. CASE r = q.run
        <4>1. Due(r)' = InboxSteps BY <2>2, <2>3, <3>2 DEF Due
        <4>2. req'[h] = p BY <1>0, <2>1 DEF Requests
        <4> QED BY <1>k, <2>1, <3>2, <4>1, <4>2, Finishes DEF Recording, InboxSteps
      <3>3. CASE r # q.run
        <4>1. Recording(r, Due(r)) BY <3>1, OwedAll DEF Told, OwedFor
        <4>2. Due(r)' = Due(r) BY <1>0, <2>2, <3>3 DEF Due
        <4> QED BY <2>1, <3>3, <4>1, <4>2, OwedStep DEF q
      <3> QED BY <3>2, <3>3
    <2> QED BY <2>5, <2>6, <2>7, <2>8 DEF Telling
  <1> QED BY <1>1, <1>2

LEMMA FindInboxTells ==
    ASSUME Told, NEW h \in Handler, FindInbox(h)
    PROVE  Telling'
  <1> USE DEF RecordSteps, EventSteps, ReportSteps, InboxSteps
  <1>0. /\ Requests /\ req[h].pc = "inbox"
        /\ UNCHANGED <<tables, records, crashes>>
    BY DEF Told, IInv, Typed, FindInbox
  <1>1. CASE inbox[req[h].run] = 0
    <2>1. PICK p : /\ req' = [req EXCEPT ![h] = p]
                   /\ p.pc = "addInbox" /\ p.op = req[h].op /\ p.run = req[h].run
      BY <1>0, <1>1, GotoStep DEF FindInbox, Step
    <2>2. \A r \in Run : "inbox" \in Due(r) => "addInbox" \in Due(r) BY DEF Due
    <2>3. /\ req[h].op \in Finish /\ report[req[h].run] # "none"
          /\ run[req[h].run].status = Move[req[h].op].to
          /\ EventOf[req[h].op] \in events[req[h].run]
      BY <1>0, RecorderKnows
    <2> HIDE DEF RecordSteps, EventSteps, ReportSteps, InboxSteps
    <2>4. /\ run[p.run].status = Move[p.op].to /\ EventOf[p.op] \in events[p.run]
          /\ report[p.run] # "none"
      BY <2>1, <2>3
    <2>5. \A r \in Run : req[h].run = r /\ req[h].pc \in Due(r)
                           => p.run = r /\ p.op \in Finish /\ p.pc \in Due(r)
      BY <1>0, <2>1, <2>2, <2>3
    <2> QED BY <1>0, <2>1, <2>4, <2>5, RecordQuiet
  <1>2. CASE inbox[req[h].run] # 0
    <2>1. PICK p : req' = [req EXCEPT ![h] = p] /\ p.pc \notin RecordSteps
      BY <1>0, <1>2, ReturnStep DEF FindInbox
    <2> QED BY <1>0, <1>2, <2>1, RecordQuiet
  <1> QED BY <1>1, <1>2

LEMMA AddInboxTells ==
    ASSUME Told, NEW h \in Handler, AddInbox(h)
    PROVE  Telling'
  <1> DEFINE q == req[h]
  <1>0. /\ Requests /\ TypeOK /\ q.pc = "addInbox"
        /\ UNCHANGED <<run, events, report, crashes>>
    BY DEF Told, IInv, Typed, AddInbox, tables
  <1>k. q.run \in Run /\ report[q.run] # "none"
    BY <1>0, RecorderKnows DEF RecordSteps, InboxSteps
  <1>1. PICK p : req' = [req EXCEPT ![h] = p] /\ p.pc \notin RecordSteps
    BY <1>0, ReturnStep DEF AddInbox
  <1>2. \A r \in Run : inbox'[r] = IF r = q.run THEN inbox[r] + 1 ELSE inbox[r]
    BY <1>0, <1>k DEF AddInbox, TypeOK
  <1>3. \A r \in Run : inbox[r] \in Nat BY <1>0 DEF TypeOK
  <1> HIDE DEF q
  <1>4. Lasting BY <1>0 DEF Lasting
  <1>5. RecordersOK' BY <1>1, <1>4, RecordersStep
  <1>6. EventsAreTrue' BY <1>0 DEF Told, EventsAreTrue
  <1>7. ReportsAreTrue' BY <1>0, <1>k, <1>2 DEF Told, ReportsAreTrue
  <1>8. ReportsAreOwed'
    <2>1. SUFFICES ASSUME crashes = 0, NEW r \in Run, Ended(r), inbox'[r] = 0
                   PROVE  Recording(r, Due(r))'
      BY <1>0, OwedAllNext DEF OwedFor, Ended
    <2>2. r # q.run /\ inbox[r] = 0 BY <1>2, <1>3, <2>1
    <2>3. Recording(r, Due(r)) BY <2>1, <2>2, OwedAll DEF Told, OwedFor
    <2>4. Due(r)' = Due(r) BY <1>0 DEF Due
    <2> QED BY <1>1, <2>2, <2>3, <2>4, OwedStep DEF q
  <1> QED BY <1>5, <1>6, <1>7, <1>8 DEF Telling
-----------------------------------------------------------------------------
\* Once an invocation has died, nothing is owed any more.
LEMMA CrashTells ==
    ASSUME Told, NEW h \in Handler, Crash(h)
    PROVE  Telling'
  <1>0. /\ UNCHANGED <<run, events, report, inbox>>
        /\ crashes \in Nat /\ crashes' = crashes + 1
    BY DEF Told, IInv, Typed, TypeOK, Crash, tables, records
  <1>1. PICK p : req' = [req EXCEPT ![h] = p] /\ p.pc \notin RecordSteps
    BY ThrowStep DEF Crash
  <1>2. Lasting BY <1>0 DEF Lasting
  <1>3. RecordersOK' BY <1>1, <1>2, RecordersStep
  <1>4. EventsAreTrue' /\ ReportsAreTrue'
    BY <1>0 DEF Told, EventsAreTrue, ReportsAreTrue
  <1>5. ReportsAreOwed' BY <1>0 DEF ReportsAreOwed
  <1> QED BY <1>3, <1>4, <1>5 DEF Telling

LEMMA StillTells ==
    ASSUME Told, UNCHANGED <<tables, req, records, crashes>>
    PROVE  Telling'
  BY DEF Told, Telling, RecordersOK, RecorderOK, EventsAreTrue, ReportsAreTrue,
         ReportsAreOwed, Recording, Ended, tables, records

LEMMA ToldInit == Init => Told
  <1> SUFFICES ASSUME Init PROVE Told OBVIOUS
  <1>1. IInv BY InvInit
  <1>2. RecordersOK /\ EventsAreTrue
    BY DEF Init, RecordersOK, RecorderOK, EventsAreTrue, Idle, RecordSteps,
           EventSteps, ReportSteps, InboxSteps
  <1>3. ReportsAreTrue /\ ReportsAreOwed
    BY DEF Init, ReportsAreTrue, ReportsAreOwed, Ended, Absent
  <1> QED BY <1>1, <1>2, <1>3 DEF Told

LEMMA ToldStep == Told /\ [Next]_vars => Told'
  <1> SUFFICES ASSUME Told, [Next]_vars PROVE Told'
    OBVIOUS
  <1>1. IInv' BY InvStep DEF Told
  <1>2. Telling'
    <2>1. CASE \E h \in Handler : Start(h) \/ Continue(h)
      BY <2>1, UnrelatedSteps, OtherEvents, MoveLooksUp, BatchEnds, FindEventTells,
         AddEventTells, FindReportTells, AddReportTells, FindInboxTells, AddInboxTells
         DEF Continue
    <2>2. CASE \E h \in Handler : Crash(h) BY <2>2, CrashTells
    <2>3. CASE Tick \/ UNCHANGED vars
      BY <2>3, StillTells DEF Tick, vars
    <2> QED BY <2>1, <2>2, <2>3 DEF Next
  <1> QED BY <1>1, <1>2 DEF Told, Telling

(***************************************************************************)
(* What the Master reads is true: no race of finishes, timeouts and        *)
(* retries, and no death between two records, reports an outcome that its  *)
(* run did not have, or announces a report that does not exist.            *)
(***************************************************************************)
THEOREM ReportsTellTheTruth == Spec => []ReportsAreTrue
  <1>1. Told => ReportsAreTrue BY DEF Told
  <1> QED BY <1>1, ToldInit, ToldStep, PTL DEF Spec

(***************************************************************************)
(* While no invocation dies, an outcome that is not in the Master's inbox  *)
(* is on its way: somebody has exactly the records before it that are      *)
(* still missing, although calls are thrown out in the middle of theirs.   *)
(***************************************************************************)
THEOREM OutcomesAreOwed == Spec => []ReportsAreOwed
  <1>1. Told => ReportsAreOwed BY DEF Told
  <1> QED BY <1>1, ToldInit, ToldStep, PTL DEF Spec
-----------------------------------------------------------------------------
(***************************************************************************)
(* The proof that the D1 store implements the contract of the in-memory    *)
(* store but for refused finishes: every statement and every batch has the *)
(* effect of one atomic call, or of none, for any tasks, runs, tokens and  *)
(* handlers.                                                               *)
(***************************************************************************)

(***************************************************************************)
(* What the mapping needs beyond IInv.  A missing row holds nothing and a  *)
(* running one a token; a task that was never assigned has no runs, so the *)
(* number that an assignment has counted is still 1 when its batch takes   *)
(* the task; a retry tries only what may be tried again; a call that was   *)
(* begun at some time read that time.                                      *)
(***************************************************************************)
RowsExact ==
    \A r \in Run :
        /\ run[r].status = "absent" => run[r] = Absent
        /\ run[r].status = "running" => run[r].token \in Token

Unassigned == \A t \in Task : task[t].assigned = NoRun => \A r \in Run : run[r].task # t

Timed == MoveName \cup {"claim"}

RequestFits(q) ==
    /\ q.op \in MoveName => Token # {}
    /\ q.op \in Timed \/ q.pc = "beat" => q.at \in 1..clock
    /\ q.pc = "insert" /\ q.op = "assign" /\ task[q.task].assigned = NoRun => q.iter = 1
    /\ q.pc \in {"scan", "insert"} /\ q.op = "retry" =>
          q.iter = run[q.run].iter + 1 /\ AttemptLeft(run[q.run])

Fitting == \A h \in Handler : RequestFits(req[h])

Exact == IInv /\ RowsExact /\ Unassigned /\ clock \in Nat \ {0} /\ Fitting
-----------------------------------------------------------------------------
(***************************************************************************)
(* What the steps do to a request.                                         *)
(***************************************************************************)
\* How the tables may change without disturbing the requests that look at them.
Steady ==
    /\ clock' \in Nat \ {0} /\ clock' >= clock
    /\ \A t \in Task : task'[t].assigned = NoRun => task[t].assigned = NoRun
    /\ \A r \in Run : run[r].status = "timed_out" => run'[r] = run[r]

\* A step that gives its handler the request p.
LEMMA FittingStep ==
    ASSUME Exact, Steady, NEW h \in Handler, NEW p, req' = [req EXCEPT ![h] = p],
           p.op \in MoveName => Token # {},
           p.op \in Timed \/ p.pc = "beat" => p.at \in 1..clock,
           p.pc = "insert" /\ p.op = "assign" =>
              p.task \in Task /\ (task[p.task].assigned = NoRun => p.iter = 1),
           p.pc \in {"scan", "insert"} /\ p.op = "retry" =>
              /\ p.run \in Run /\ run[p.run].status = "timed_out"
              /\ p.iter = run[p.run].iter + 1 /\ AttemptLeft(run[p.run])
    PROVE  Fitting'
  <1>0. req \in [Handler -> Request] /\ clock \in Nat \ {0}
    BY DEF Exact, IInv, Typed, Requests
  <1> SUFFICES ASSUME NEW g \in Handler PROVE RequestFits(req[g])'
    BY DEF Fitting
  <1>1. CASE g = h
    <2>1. req'[g] = p BY <1>0, <1>1
    <2> QED BY <1>0, <2>1 DEF RequestFits, Steady
  <1>2. CASE g # h
    <2>1. req'[g] = req[g] BY <1>0, <1>2
    <2>2. RequestFits(req[g]) BY DEF Exact, Fitting
    <2>3. req[g].pc = "insert" /\ req[g].op = "assign" => req[g].task \in Task
      BY DEF Exact, IInv, Typed, Requests, CallOK
    <2>4. req[g].pc \in {"scan", "insert"} /\ req[g].op = "retry" =>
             req[g].run \in Run /\ run[req[g].run].status = "timed_out"
      BY DEF Exact, IInv, Typed, Requests, CallOK, BegunOK
    <2> QED BY <1>0, <2>1, <2>2, <2>3, <2>4 DEF RequestFits, Steady
  <1> QED BY <1>1, <1>2

\* A step within a call, or at its end: the call and its time stay.
Passes(h) ==
    \E p \in Request :
        /\ req' = [req EXCEPT ![h] = p]
        /\ p.pc \notin {"beat", "scan", "insert"}
        /\ p.op = "none" \/ (p.op = req[h].op /\ p.at = req[h].at)

LEMMA PassesFits ==
    ASSUME Exact, Steady, NEW h \in Handler, Passes(h)
    PROVE  Fitting'
  <1>1. PICK p \in Request :
           /\ req' = [req EXCEPT ![h] = p]
           /\ p.pc \notin {"beat", "scan", "insert"}
           /\ p.op = "none" \/ (p.op = req[h].op /\ p.at = req[h].at)
    BY DEF Passes
  <1>2. RequestFits(req[h]) BY DEF Exact, Fitting
  <1>3. "none" \notin MoveName /\ "none" \notin Timed BY DEF MoveName, Timed
  <1>4. /\ p.op \in MoveName => Token # {}
        /\ p.op \in Timed => p.at \in 1..clock
    BY <1>1, <1>2, <1>3 DEF RequestFits
  <1> QED BY <1>1, <1>4, FittingStep

LEMMA GotoPasses ==
    ASSUME Requests, NEW h \in Handler, NEW step \in Step \ {"beat", "scan", "insert"},
           Goto(h, step)
    PROVE  Passes(h)
  <1> DEFINE p == [req[h] EXCEPT !.pc = step]
  <1>1. req[h] \in Request BY DEF Requests
  <1>2. p \in Request /\ p.pc = step /\ p.op = req[h].op /\ p.at = req[h].at
    BY <1>1 DEF Request
  <1>3. req' = [req EXCEPT ![h] = p] BY DEF Goto
  <1> HIDE DEF p
  <1> QED BY <1>2, <1>3 DEF Passes

LEMMA ThrowPasses ==
    ASSUME NEW h \in Handler, Throw(h)
    PROVE  Passes(h)
  <1>1. Idle \in Request /\ Idle.pc = "idle" /\ Idle.op = "none"
    BY IdleOK DEF Idle
  <1> QED BY <1>1 DEF Throw, Passes

LEMMA ReturnPasses ==
    ASSUME Requests, NEW h \in Handler, Return(h)
    PROVE  Passes(h)
  <1>1. CASE req[h].todo = {}
    <2>1. Throw(h) BY <1>1 DEF Return, Throw
    <2> QED BY <2>1, ThrowPasses
  <1>2. CASE req[h].todo # {}
    <2>1. Goto(h, "next") BY <1>2 DEF Return, Goto
    <2> QED BY <2>1, GotoPasses DEF Step
  <1> QED BY <1>1, <1>2

LEMMA NextExpiredPasses ==
    ASSUME Requests, NEW h \in Handler, NextExpired(h)
    PROVE  Passes(h)
  <1>0. req[h] \in Request BY DEF Requests
  <1>1. PICK r \in req[h].todo :
          req' = [req EXCEPT ![h].pc = "check", ![h].run = r, ![h].todo = @ \ {r}]
    BY DEF NextExpired
  <1>2. r \in Run BY <1>0, <1>1 DEF Request
  <1> DEFINE left == req[h].todo \ {r}
             p == [req[h] EXCEPT !.pc = "check", !.run = r, !.todo = left]
  <1>3. req' = [req EXCEPT ![h] = p] BY <1>0, <1>1 DEF Requests, Request
  <1>4. left \in SUBSET Run BY <1>0 DEF Request
  <1> HIDE DEF left
  <1>5. p \in Request /\ p.pc = "check" /\ p.op = req[h].op /\ p.at = req[h].at
    BY <1>0, <1>2, <1>4 DEF Request, Step
  <1> HIDE DEF p
  <1> QED BY <1>3, <1>5 DEF Passes
-----------------------------------------------------------------------------
(***************************************************************************)
(* What the steps do to the tables, seen through the mapping.              *)
(***************************************************************************)
\* A running run, or any run that is neither queued nor absent, is seen as it is.
LEMMA SeenAsItIs ==
    ASSUME NEW r \in Run
    PROVE  /\ Owns(r) => Visible[r] = run[r]
           /\ run[r].status # "queued" => Visible[r] = run[r]
  BY DEF Visible, Orphan

\* An owned row changes, and no task changes its run.
LEMMA PairSeen ==
    ASSUME Exact, NEW r \in Run, Owns(r), NEW row \in RunRow,
           row.task = run[r].task, row.status # "absent",
           run' = [run EXCEPT ![r] = row],
           \A t \in Task : task'[t].assigned = task[t].assigned
    PROVE  /\ Visible[r] = run[r]
           /\ Visible' = [Visible EXCEPT ![r] = row]
  <1>0. run \in [Run -> RunRow] /\ \A s \in Run : run[s].status # "absent" => run[s].task \in Task
    BY DEF Exact, IInv, Typed, TypeOK, RowsOK
  <1>1. ~Orphan(r) /\ ~Orphan(r)' /\ run'[r] = row
    BY <1>0 DEF Orphan, Owns
  <1>2. \A s \in Run \ {r} : run'[s] = run[s] /\ (Orphan(s)' <=> Orphan(s))
    BY <1>0 DEF Orphan, Owns
  <1> QED BY <1>1, <1>2 DEF Visible

\* Nothing changes in what is seen as long as the tables do not change.
LEMMA NothingSeen ==
    ASSUME UNCHANGED tables
    PROVE  UNCHANGED <<task, Visible>>
  BY DEF tables, Visible, Orphan, Owns
-----------------------------------------------------------------------------
(***************************************************************************)
(* Exact is invariant.                                                     *)
(***************************************************************************)
LEMMA ExactInit == Init => Exact
  <1> SUFFICES ASSUME Init PROVE Exact OBVIOUS
  <1>1. IInv BY InvInit
  <1>2. RowsExact BY DEF Init, RowsExact, Absent
  <1>3. Unassigned BY NullAssumption DEF Init, Unassigned, Absent
  <1>4. clock \in Nat \ {0} BY DEF Init
  <1>5. Fitting
    BY DEF Init, Fitting, RequestFits, Idle, MoveName, Timed
  <1> QED BY <1>1, <1>2, <1>3, <1>4, <1>5 DEF Exact

\* The rows and the clock, when a step leaves the tables alone.
LEMMA QuietRows ==
    ASSUME Exact, UNCHANGED <<tables, clock>>
    PROVE  Steady /\ RowsExact' /\ Unassigned'
  BY DEF Exact, Steady, RowsExact, Unassigned, tables

LEMMA FittingStart ==
    ASSUME Exact, NEW h \in Handler, Start(h)
    PROVE  Fitting' /\ UNCHANGED <<tables, clock>>
  <1>0. UNCHANGED <<tables, clock>>
    BY DEF Start, StartAssign, StartRetry, StartClaim, StartHeartbeat, StartMove,
           StartVerdict, StartRecover
  <1>1. Steady BY <1>0, QuietRows
  <1>2. clock \in 1..clock BY DEF Exact
  <1>3. ASSUME NEW t \in Task, NEW r \in Run, StartAssign(h, t, r) PROVE Fitting'
    <2> DEFINE p == [Idle EXCEPT !.pc = "scan", !.op = "assign", !.task = t, !.new = r]
    <2>1. req' = [req EXCEPT ![h] = p] BY <1>3 DEF StartAssign
    <2>2. p.pc = "scan" /\ p.op = "assign" BY DEF Idle
    <2>3. p.op \notin MoveName /\ p.op \notin Timed BY <2>2 DEF MoveName, Timed
    <2> HIDE DEF p
    <2> QED BY <1>1, <2>1, <2>2, <2>3, FittingStep
  <1>4. ASSUME NEW prev \in Run, NEW new \in Run, StartRetry(h, prev, new) PROVE Fitting'
    <2> DEFINE p == [Idle EXCEPT !.pc = "scan", !.op = "retry", !.run = prev,
                                 !.task = run[prev].task, !.new = new,
                                 !.iter = run[prev].iter + 1]
    <2>1. req' = [req EXCEPT ![h] = p] /\ run[prev].status = "timed_out" /\ AttemptLeft(run[prev])
      BY <1>4 DEF StartRetry
    <2>2. /\ p.pc = "scan" /\ p.op = "retry" /\ p.run = prev
          /\ p.iter = run[prev].iter + 1
      BY DEF Idle
    <2>3. p.op \notin MoveName /\ p.op \notin Timed BY <2>2 DEF MoveName, Timed
    <2> HIDE DEF p
    <2> QED BY <1>1, <2>1, <2>2, <2>3, FittingStep
  <1>5. ASSUME NEW r \in Run, NEW tok \in Token, StartClaim(h, r, tok) PROVE Fitting'
    <2> DEFINE p == [Idle EXCEPT !.pc = "claim", !.op = "claim", !.run = r,
                                 !.tok = tok, !.at = clock]
    <2>1. req' = [req EXCEPT ![h] = p] BY <1>5 DEF StartClaim
    <2>2. p.pc = "claim" /\ p.op = "claim" /\ p.at = clock BY DEF Idle
    <2> HIDE DEF p
    <2> QED BY <1>1, <1>2, <2>1, <2>2, FittingStep DEF MoveName
  <1>6. ASSUME NEW r \in Run, NEW tok \in Token, StartHeartbeat(h, r, tok) PROVE Fitting'
    <2> DEFINE p == [Idle EXCEPT !.pc = "beat", !.op = "heartbeat", !.run = r,
                                 !.tok = tok, !.at = clock]
    <2>1. req' = [req EXCEPT ![h] = p] BY <1>6 DEF StartHeartbeat
    <2>2. p.pc = "beat" /\ p.op = "heartbeat" /\ p.at = clock BY DEF Idle
    <2> HIDE DEF p
    <2> QED BY <1>1, <1>2, <2>1, <2>2, FittingStep DEF MoveName
  <1>7. ASSUME NEW m \in MoveName, NEW r \in Run, NEW tok \in Token, StartMove(h, m, r, tok)
        PROVE  Fitting'
    <2> DEFINE held == IF Move[m].leased THEN tok ELSE NoToken
               p == [Idle EXCEPT !.pc = "check", !.op = m, !.run = r, !.at = clock,
                                 !.tok = held]
    <2>1. req' = [req EXCEPT ![h] = p] BY <1>7 DEF StartMove
    <2> HIDE DEF held
    <2>2. p.pc = "check" /\ p.op = m /\ p.at = clock BY DEF Idle
    <2>3. Token # {} OBVIOUS
    <2> HIDE DEF p
    <2> QED BY <1>1, <1>2, <2>1, <2>2, <2>3, FittingStep DEF MoveName
  <1>8. ASSUME NEW t \in Task, NEW v \in DOMAIN Verdict, StartVerdict(h, t, v)
        PROVE  Fitting'
    <2> DEFINE p == [Idle EXCEPT !.pc = "verdict", !.op = v, !.task = t]
    <2>1. req' = [req EXCEPT ![h] = p] BY <1>8 DEF StartVerdict
    <2>2. p.pc = "verdict" /\ p.op = v BY DEF Idle
    <2>3. v \in {"accept", "reject"} BY VerdictTypes
    <2>4. p.op \notin MoveName /\ p.op \notin Timed BY <2>2, <2>3 DEF MoveName, Timed
    <2> HIDE DEF p
    <2> QED BY <1>1, <2>1, <2>2, <2>3, <2>4, FittingStep
  <1>9. ASSUME StartRecover(h) PROVE Fitting'
    <2> DEFINE p == [Idle EXCEPT !.pc = "next", !.op = "timeout", !.at = clock,
                                 !.todo = {r \in Run : Expired(r)}]
    <2>1. req' = [req EXCEPT ![h] = p] /\ \E r \in Run : Expired(r)
      BY <1>9 DEF StartRecover
    <2>2. p.pc = "next" /\ p.op = "timeout" /\ p.at = clock BY DEF Idle
    <2>3. Token # {} BY <2>1 DEF Expired, Exact, RowsExact
    <2> HIDE DEF p
    <2> QED BY <1>1, <1>2, <2>1, <2>2, <2>3, FittingStep
  <1> QED BY <1>0, <1>3, <1>4, <1>5, <1>6, <1>7, <1>8, <1>9 DEF Start

\* The number that an assignment counts is 1 as long as the task is unassigned.
LEMMA FirstRun ==
    ASSUME Exact, NEW t \in Task, task[t].assigned = NoRun
    PROVE  Cardinality(RunsOf(t)) + 1 = 1
  <1>1. RunsOf(t) = {} BY DEF Exact, Unassigned, RunsOf
  <1> QED BY <1>1, FS_EmptySet

LEMMA ScanFits ==
    ASSUME Exact, NEW h \in Handler, Scan(h)
    PROVE  Fitting'
  <1> DEFINE q == req[h]
  <1>0. /\ q \in Request /\ q.pc = "scan" /\ q.op \in {"assign", "retry"}
        /\ q.task \in Task /\ Requests /\ BegunOK /\ RequestFits(q)
        /\ q.op = "retry" => q.run \in Run
    BY DEF Exact, IInv, Typed, Requests, CallOK, Scan, Fitting
  <1>1. Steady BY QuietRows DEF Scan
  <1>2. q.op \notin MoveName /\ q.op \notin Timed BY <1>0 DEF MoveName, Timed
  <1>3. CASE q.op = "assign"
    <2> DEFINE n == Cardinality(RunsOf(q.task)) + 1
               p == [q EXCEPT !.pc = "insert", !.iter = n]
    <2>1. req' = [req EXCEPT ![h] = p] BY <1>0, <1>3 DEF Scan, Requests, Request
    <2>2. task[q.task].assigned = NoRun => n = 1 BY <1>0, FirstRun
    <2> HIDE DEF n
    <2>3. /\ p.pc = "insert" /\ p.op = q.op /\ p.task = q.task /\ p.iter = n
      BY <1>0 DEF Request
    <2> HIDE DEF p, q
    <2> QED BY <1>0, <1>1, <1>2, <1>3, <2>1, <2>2, <2>3, FittingStep
  <1>4. CASE q.op = "retry"
    <2>1. CASE Return(h) BY <1>0, <1>1, <2>1, ReturnPasses, PassesFits
    <2>2. CASE Goto(h, "insert")
      <3> DEFINE p == [q EXCEPT !.pc = "insert"]
      <3>1. req' = [req EXCEPT ![h] = p] BY <2>2 DEF Goto
      <3>2. /\ p.pc = "insert" /\ p.op = q.op /\ p.run = q.run /\ p.iter = q.iter
        BY <1>0 DEF Request
      <3>3. /\ run[q.run].status = "timed_out" /\ q.iter = run[q.run].iter + 1
            /\ AttemptLeft(run[q.run])
        BY <1>0, <1>4 DEF BegunOK, RequestFits
      <3> HIDE DEF p, q
      <3> QED BY <1>0, <1>1, <1>2, <1>4, <3>1, <3>2, <3>3, FittingStep
    <2> QED BY <1>4, <2>1, <2>2 DEF Scan
  <1> QED BY <1>0, <1>3, <1>4
-----------------------------------------------------------------------------
(***************************************************************************)
(* The steps that change the tables: each keeps Exact, and is a call of    *)
(* the contract, a refused finish, or nothing that the contract can see.   *)
(***************************************************************************)
Kept == RowsExact' /\ Unassigned' /\ clock' \in Nat \ {0} /\ Fitting'

Allowed == Contract!Next \/ \E h \in Handler : RefusedFinish(h)

LEMMA PairKept ==
    ASSUME Exact, NEW h \in Handler, Passes(h), UNCHANGED clock,
           NEW r \in Run, Owns(r), NEW row \in RunRow,
           row.task = run[r].task, row.status # "absent",
           row.status = "running" => row.token \in Token,
           run[r].status = "timed_out" => row = run[r],
           run' = [run EXCEPT ![r] = row],
           \A t \in Task : task'[t].assigned = task[t].assigned
    PROVE  Kept
  <1>0. run \in [Run -> RunRow] /\ clock \in Nat \ {0}
    BY DEF Exact, IInv, Typed, TypeOK
  <1>1. \A s \in Run : run'[s] = IF s = r THEN row ELSE run[s]
    BY <1>0
  <1>2. Steady BY <1>0, <1>1 DEF Steady
  <1>3. Fitting' BY <1>2, PassesFits
  <1>4. RowsExact' BY <1>1 DEF Exact, RowsExact
  <1>5. Unassigned' BY <1>1 DEF Exact, Unassigned
  <1> QED BY <1>0, <1>3, <1>4, <1>5 DEF Kept

LEMMA ClaimStep ==
    ASSUME Exact, NEW h \in Handler, Claim(h)
    PROVE  Kept /\ (Allowed \/ UNCHANGED <<task, Visible, clock>>)
  <1> DEFINE q == req[h]
  <1>0. /\ Typed /\ TypeOK /\ RowsOK /\ Requests /\ TaskBacked
        /\ q.pc = "claim" /\ q.run \in Run /\ q.tok \in Token /\ q.at \in Nat
        /\ q.op = "claim" /\ q.at \in 1..clock
    BY DEF Exact, IInv, Typed, Requests, CallOK, Claim, Request, Fitting, RequestFits, Timed
  <1>1. Passes(h)
    BY <1>0, GotoPasses, ReturnPasses DEF Claim, Step
  <1>2. CASE ~Claimable(q.run)
    <2>1. ~Waiting(q.run) BY <1>0, <1>2, TaskTellsRun DEF Waiting, Claimable
    <2>2. UNCHANGED <<tables, clock>> BY <1>2, <2>1 DEF Claim, tables
    <2> QED BY <1>1, <2>2, QuietRows, PassesFits, NothingSeen DEF Kept, Exact
  <1>3. CASE Claimable(q.run)
    <2> DEFINE e == q.at + LeaseDuration
               row == [run[q.run] EXCEPT !.status = "running", !.token = q.tok,
                                         !.expires = e]
    <2>1. e \in Nat BY <1>0, DurationAssumption
    <2>2. run' = [run EXCEPT ![q.run] = row]
      BY <1>0, <1>3 DEF Claim, TypeOK
    <2>3. task' = [task EXCEPT ![run[q.run].task].status = "in_progress"]
      BY <1>3 DEF Claim, Claimable
    <2>4. /\ Owns(q.run) /\ run[q.run].status = "queued"
          /\ task[run[q.run].task].status = "assigned"
      BY <1>3 DEF Claimable, Waiting
    <2>5. run[q.run] \in RunRow BY <1>0 DEF TypeOK
    <2> HIDE DEF e
    <2>6. /\ row \in RunRow /\ row.task = run[q.run].task /\ row.status = "running"
          /\ row.token = q.tok
      BY <1>0, <2>1, <2>5 DEF RunRow, RunStatus, Active
    <2>7. \A t \in Task : task'[t].assigned = task[t].assigned
      BY <1>0, <2>3 DEF TypeOK, TaskRow
    <2>8. UNCHANGED clock BY DEF Claim
    <2> HIDE DEF row
    <2>9. Kept BY <1>0, <1>1, <2>2, <2>4, <2>6, <2>7, <2>8, PairKept
    <2>10. Visible[q.run] = run[q.run] /\ Visible' = [Visible EXCEPT ![q.run] = row]
      BY <1>0, <2>2, <2>4, <2>6, <2>7, PairSeen
    <2>11. row = [Visible[q.run] EXCEPT !.status = "running", !.token = q.tok,
                                        !.expires = q.at + LeaseDuration]
      BY <2>10 DEF row, e
    <2>12. Visible' = [Visible EXCEPT ![q.run].status = "running", ![q.run].token = q.tok,
                                      ![q.run].expires = q.at + LeaseDuration]
      <3>1. Visible = [u \in Run |-> Visible[u]] BY DEF Visible
      <3>2. q.run \in DOMAIN Visible BY <1>0, <3>1
      <3> HIDE DEF q
      <3> QED BY <2>10, <2>11, <3>1, <3>2
    <2>13. Contract!Claim(q.run, q.tok, q.at)
      BY <2>3, <2>4, <2>8, <2>10, <2>12 DEF Contract!Claim, Contract!Owns, Owns
    <2>14. Contract!Next BY <1>0, <2>13 DEF Contract!Next
    <2> QED BY <2>9, <2>14 DEF Allowed
  <1> QED BY <1>2, <1>3

LEMMA BeatStep ==
    ASSUME Exact, NEW h \in Handler, Beat(h)
    PROVE  Kept /\ (Allowed \/ UNCHANGED <<task, Visible, clock>>)
  <1> DEFINE q == req[h]
             e == q.at + LeaseDuration
             row == [run[q.run] EXCEPT !.expires = e]
  <1>0. /\ TypeOK /\ Requests /\ RunningOwns /\ RowsExact
        /\ q.run \in Run /\ run[q.run] \in RunRow /\ q.at \in 1..clock /\ q.at \in Nat
    BY DEF Exact, IInv, Typed, TypeOK, Requests, CallOK, Beat, Request, Fitting, RequestFits
  <1>1. Passes(h) BY <1>0, ReturnPasses DEF Beat
  <1>2. UNCHANGED <<task, clock>> BY DEF Beat
  <1>3. CASE ~(run[q.run].status = "running" /\ LeaseLive(run[q.run], q.tok, q.at))
    <2>1. UNCHANGED <<tables, clock>> BY <1>2, <1>3 DEF Beat, tables
    <2> QED BY <1>1, <2>1, QuietRows, PassesFits, NothingSeen DEF Kept, Exact
  <1>4. CASE run[q.run].status = "running" /\ LeaseLive(run[q.run], q.tok, q.at)
    <2>1. e \in Nat BY <1>0, DurationAssumption
    <2>2. run' = [run EXCEPT ![q.run] = row] BY <1>0, <1>4 DEF Beat, TypeOK
    <2>3. Owns(q.run) /\ run[q.run].token \in Token
      BY <1>0, <1>4 DEF RunningOwns, RowsExact
    <2> HIDE DEF e
    <2>4. /\ row \in RunRow /\ row.task = run[q.run].task /\ row.status = "running"
          /\ row.token = run[q.run].token
      BY <1>0, <1>4, <2>1 DEF RunRow
    <2>5. row = [run[q.run] EXCEPT !.expires = q.at + LeaseDuration] BY DEF e
    <2> HIDE DEF row
    <2>6. Kept BY <1>0, <1>1, <1>2, <1>4, <2>2, <2>3, <2>4, PairKept
    <2>7. Visible[q.run] = run[q.run] /\ Visible' = [Visible EXCEPT ![q.run] = row]
      BY <1>0, <1>2, <2>2, <2>3, <2>4, PairSeen
    <2>8. Visible' = [Visible EXCEPT ![q.run].expires = q.at + LeaseDuration]
      BY <2>5, <2>7
    <2>9. q.tok = run[q.run].token BY <1>4 DEF LeaseLive
    <2>10. Contract!Heartbeat(q.run, q.tok, q.at)
      BY <1>2, <1>4, <2>7, <2>8 DEF Contract!Heartbeat, Contract!LeaseLive, LeaseLive
    <2>11. Contract!Next BY <1>0, <2>3, <2>9, <2>10 DEF Contract!Next
    <2> QED BY <2>6, <2>11 DEF Allowed
  <1> QED BY <1>3, <1>4

LEMMA WriteVerdictStep ==
    ASSUME Exact, NEW h \in Handler, WriteVerdict(h)
    PROVE  Kept /\ (Allowed \/ UNCHANGED <<task, Visible, clock>>)
  <1> DEFINE q == req[h]
             r == task[q.task].assigned
  <1>0. /\ TypeOK /\ Requests /\ TaskBacked /\ BegunOK /\ run \in [Run -> RunRow]
        /\ q.pc = "verdict" /\ q.task \in Task /\ q.op \in {"accept", "reject"}
    BY DEF Exact, IInv, Typed, TypeOK, Requests, CallOK, WriteVerdict
  <1>1. Passes(h) BY <1>0, GotoPasses DEF WriteVerdict, Step
  <1>2. r \in Run /\ run[r].status = "succeeded" BY <1>0 DEF BegunOK
  <1>3. run[r].task = q.task BY <1>0, <1>2, NullAssumption DEF TaskBacked
  <1>4. Owns(r) BY <1>2, <1>3 DEF Owns
  <1>5. /\ UNCHANGED <<run, clock>>
        /\ task' = [task EXCEPT ![q.task].status = Verdict[q.op]]
    BY DEF WriteVerdict
  <1>6. \A t \in Task : task'[t].assigned = task[t].assigned
    BY <1>0, <1>5 DEF TypeOK, TaskRow
  <1>7. run[r] \in RunRow /\ run' = [run EXCEPT ![r] = run[r]]
    BY <1>0, <1>2, <1>5
  <1>8. Kept
    <2> HIDE DEF r, q
    <2> QED BY <1>0, <1>1, <1>2, <1>4, <1>5, <1>6, <1>7, PairKept
  <1>9. Visible[r] = run[r] /\ Visible' = [Visible EXCEPT ![r] = run[r]]
    <2> HIDE DEF r, q
    <2> QED BY <1>2, <1>4, <1>6, <1>7, PairSeen
  <1>10. Visible' = Visible BY <1>2, <1>9 DEF Visible
  <1>11. Contract!Verify(q.task, q.op)
    BY <1>2, <1>5, <1>9, <1>10 DEF Contract!Verify, Contract!Verdict, Verdict
  <1>12. q.op \in DOMAIN Contract!Verdict BY <1>0 DEF Contract!Verdict
  <1>13. Contract!Next BY <1>0, <1>11, <1>12 DEF Contract!Next
  <1> QED BY <1>8, <1>13 DEF Allowed

\* The batch of a move: the whole call, or its task half alone.
LEMMA BatchStep ==
    ASSUME Exact, NEW h \in Handler, Batch(h)
    PROVE  Kept /\ (Allowed \/ UNCHANGED <<task, Visible, clock>>)
  <1> DEFINE q == req[h]
             r == q.run
             m == Move[q.op]
  <1>0. /\ Typed /\ TypeOK /\ RowsOK /\ Requests /\ TaskBacked /\ RowsExact
        /\ q.pc = "batch" /\ r \in Run /\ q.op \in MoveName /\ run[r] \in RunRow
        /\ q.at \in 1..clock /\ Token # {}
    BY DEF Exact, IInv, Typed, Requests, CallOK, Batch, TypeOK, Fitting, RequestFits, Timed
  <1>1. Passes(h) BY <1>0, GotoPasses DEF Batch, Step
  <1>2. /\ m.from \in Active /\ m.to \in Terminal
        /\ \/ m.taskFrom = "in_progress" /\ m.from = "running"
           \/ m.taskFrom = "assigned" /\ m.from = "queued" /\ ~m.leased
    BY <1>0, MoveTypes, MoveBacked
  <1>3. /\ run' = IF RunMatches(q) THEN [run EXCEPT ![r] = Closed(run[r], m.to)] ELSE run
        /\ task' = IF TaskMatches(q) THEN [task EXCEPT ![run[r].task].status = m.taskTo]
                                     ELSE task
        /\ UNCHANGED clock
    BY <1>0 DEF Batch, TypeOK
  <1>4. TaskMatches(q) <=> Owns(r) /\ task[run[r].task].status = m.taskFrom
    BY DEF TaskMatches
  <1>5. RunMatches(q) <=> /\ TaskMatches(q) /\ run[r].status = m.from
                          /\ m.leased => LeaseLive(run[r], q.tok, q.at)
    BY DEF RunMatches
  <1>6. \A t \in Task : task'[t].assigned = task[t].assigned
    BY <1>0, <1>3 DEF TypeOK, TaskRow
  <1>7. CASE RunMatches(q)
    <2> DEFINE row == Closed(run[r], m.to)
    <2>1. row \in RunRow BY <1>0, <1>2, RowTypes
    <2>2. row.task = run[r].task /\ row.status = m.to BY <1>0 DEF Closed, RunRow
    <2>3. /\ row.status # "absent" /\ row.status # "running"
          /\ run[r].status # "timed_out" /\ Owns(r)
          /\ run' = [run EXCEPT ![r] = row]
      BY <1>2, <1>3, <1>4, <1>5, <1>7, <2>2 DEF Active, Terminal
    <2> HIDE DEF row
    <2>4. Kept
      <3> HIDE DEF q, r
      <3> QED BY <1>0, <1>1, <1>3, <1>6, <2>1, <2>2, <2>3, PairKept
    <2>5. Visible[r] = run[r] /\ Visible' = [Visible EXCEPT ![r] = row]
      <3> HIDE DEF q, r
      <3> QED BY <1>0, <1>6, <2>1, <2>2, <2>3, PairSeen
    <2>6. PICK tok \in Token : m.leased => LeaseLive(run[r], tok, q.at)
      <3>1. CASE m.leased
        <4>1. run[r].status = "running" /\ LeaseLive(run[r], q.tok, q.at)
          BY <1>2, <1>5, <1>7, <3>1
        <4>2. q.tok \in Token BY <1>0, <4>1 DEF RowsExact, LeaseLive
        <4> QED BY <4>1, <4>2
      <3>2. CASE ~m.leased BY <1>0, <3>2
      <3> QED BY <3>1, <3>2
    <2>7. Contract!Ready(q.op, r)
      BY <1>4, <1>5, <1>7, <2>5 DEF Contract!Ready, Contract!Owns, Contract!Move, Owns, Move
    <2>8. Contract!Move = Move /\ Contract!MoveName = MoveName
      BY DEF Contract!Move, Move, Contract!MoveName, MoveName
    <2>9. m.leased => Contract!LeaseLive(Visible[r], tok, q.at)
      BY <2>5, <2>6 DEF Contract!LeaseLive, LeaseLive
    <2>10. Visible' = [Visible EXCEPT ![r] = Contract!Closed(Visible[r], Move[q.op].to)]
      BY <2>5 DEF row, Contract!Closed, Closed, Contract!NoLease, NoLease
    <2>11. task' = [task EXCEPT ![Visible[r].task].status = m.taskTo]
      BY <1>3, <1>5, <1>7, <2>5
    <2>12. Contract!Transition(q.op, r, tok, q.at)
      BY <1>3, <2>7, <2>8, <2>9, <2>10, <2>11 DEF Contract!Transition
    <2>13. Contract!Next BY <1>0, <2>8, <2>12 DEF Contract!Next
    <2> QED BY <2>4, <2>13 DEF Allowed
  <1>8. CASE TaskMatches(q) /\ ~RunMatches(q)
    <2>1. Owns(r) /\ run[r].status = m.from /\ run' = run
      <3>1. Owns(r) BY <1>4, <1>8
      <3>2. run[r].status = m.from BY <1>0, <1>2, <1>4, <1>8, <3>1, TaskTellsRun
      <3> QED BY <1>3, <1>8, <3>1, <3>2
    <2>2. m.leased /\ ~LeaseLive(run[r], q.tok, q.at) /\ run[r].status = "running"
      BY <1>2, <1>5, <1>8, <2>1
    <2>3. Kept
      <3>1. run' = [run EXCEPT ![r] = run[r]] BY <1>0, <2>1 DEF TypeOK
      <3>2. run[r].token \in Token BY <1>0, <2>2 DEF RowsExact
      <3> HIDE DEF q, r, m
      <3> QED BY <1>0, <1>1, <1>3, <1>6, <2>1, <2>2, <3>1, <3>2, PairKept
    <2>4. RefusedFinish(h) BY <1>0, <1>3, <1>8, <2>1, <2>2 DEF RefusedFinish
    <2> QED BY <2>3, <2>4 DEF Allowed
  <1>9. CASE ~TaskMatches(q)
    <2>1. UNCHANGED <<tables, clock>> BY <1>3, <1>5, <1>9 DEF tables
    <2> QED BY <1>1, <2>1, QuietRows, PassesFits, NothingSeen DEF Kept, Exact
  <1> QED BY <1>7, <1>8, <1>9

\* The row of a lost race goes as it came: unseen.
LEMMA UndoStep ==
    ASSUME Exact, NEW h \in Handler, Undo(h)
    PROVE  Kept /\ (Allowed \/ UNCHANGED <<task, Visible, clock>>)
  <1>. PICK r \in Run : r = req[h].new
    BY DEF Exact, IInv, Typed, Requests, CallOK, Undo
  <1>0. /\ Requests /\ run \in [Run -> RunRow] /\ Orphan(r)
        /\ clock \in Nat \ {0} /\ RowsExact /\ Unassigned /\ RowsOK
    BY DEF Exact, IInv, Typed, TypeOK, Requests, CallOK, NewRunsOK, Undo
  <1>1. Passes(h) BY <1>0, ReturnPasses DEF Undo
  <1>2. UNCHANGED <<task, clock>> /\ run' = [run EXCEPT ![r] = Absent] BY DEF Undo
  <1>3. \A s \in Run : run'[s] = IF s = r THEN Absent ELSE run[s] BY <1>0, <1>2
  <1>4. run[r].status = "queued" BY <1>0 DEF Orphan
  <1>5. Absent.status = "absent" /\ Absent.task = NoTask BY DEF Absent
  <1>6. Steady BY <1>0, <1>2, <1>3, <1>4 DEF Steady
  <1>7. Kept
    BY <1>0, <1>1, <1>2, <1>3, <1>5, <1>6, PassesFits, NullAssumption
       DEF Kept, RowsExact, Unassigned
  <1>8. Visible' = Visible
    <2>1. \A s \in Run \ {r} : run'[s] = run[s] /\ (Orphan(s)' <=> Orphan(s))
      BY <1>2, <1>3 DEF Orphan, Owns
    <2>2. ~Orphan(r)' /\ run'[r] = Absent BY <1>0, <1>3, <1>5 DEF Orphan
    <2> QED BY <1>0, <2>1, <2>2 DEF Visible
  <1> QED BY <1>2, <1>7, <1>8

\* The instance counts as we do.
LEMMA SameCount == Contract!Cardinality({}) = Cardinality({})
  BY DEF Contract!Cardinality, Cardinality

\* The batch of an assignment or a retry: the whole call, or a row that nobody sees.
LEMMA InsertStep ==
    ASSUME Exact, NEW h \in Handler, Insert(h)
    PROVE  Kept /\ (Allowed \/ UNCHANGED <<task, Visible, clock>>)
  <1>. PICK q \in Request : q = req[h]
    BY DEF Exact, IInv, Typed, Requests
  <1>. DEFINE row == Queued(q.task, q.iter)
  <1>0. /\ TypeOK /\ RowsOK /\ Requests /\ TaskBacked /\ RunningOwns /\ RowsExact
        /\ Unassigned /\ clock \in Nat \ {0} /\ run \in [Run -> RunRow]
        /\ q.pc = "insert" /\ q.new \in Run /\ q.task \in Task
        /\ q.op \in {"assign", "retry"} /\ run[q.new].status = "absent"
        /\ q.op = "retry" => /\ q.run \in Run /\ run[q.run].status = "timed_out"
                             /\ run[q.run].task = q.task
        /\ RequestFits(q)
    BY DEF Exact, IInv, Typed, TypeOK, Requests, CallOK, NewRunsOK, BegunOK, Insert, Fitting
  <1>1. UNCHANGED clock /\ run' = [run EXCEPT ![q.new] = row]
    BY DEF Insert
  <1>2. row.status = "queued" /\ row.task = q.task BY DEF Queued
  <1>3. \A s \in Run : run'[s] = IF s = q.new THEN row ELSE run[s] BY <1>0, <1>1
  <1>4. Passes(h)
    BY <1>0, GotoPasses, ReturnPasses DEF Insert, Step
  <1>5. CASE Takes(q)
    <2>1. task' = [task EXCEPT ![q.task] = [status |-> "assigned", assigned |-> q.new]]
      BY <1>5 DEF Insert
    <2>2. \A t \in Task : task'[t] = IF t = q.task
                                       THEN [status |-> "assigned", assigned |-> q.new]
                                       ELSE task[t]
      BY <1>0, <2>1 DEF TypeOK
    <2>3. q.new # NoRun BY <1>0, NullAssumption
    <2>4. Kept
      <3>1. Steady BY <1>0, <1>1, <1>3, <2>2, <2>3 DEF Steady
      <3>2. Fitting' BY <1>4, <3>1, PassesFits
      <3>3. RowsExact' BY <1>0, <1>2, <1>3 DEF RowsExact
      <3>4. Unassigned' BY <1>0, <1>2, <1>3, <2>2, <2>3 DEF Unassigned
      <3> QED BY <1>0, <1>1, <3>2, <3>3, <3>4 DEF Kept
    \* what the task was assigned to before
    <2>5. task[q.task].assigned = IF q.op = "assign" THEN NoRun ELSE q.run
      BY <1>0, <1>5 DEF Takes
    <2>6. Visible[q.new] = Absent /\ Visible[q.new].status = "absent"
      BY <1>0 DEF Visible, Orphan, RowsExact, Absent
    <2>7. Visible' = [Visible EXCEPT ![q.new] = row]
      <3>1. ~Orphan(q.new)' /\ run'[q.new] = row
        BY <1>0, <1>2, <1>3, <2>2 DEF Orphan, Owns
      <3>2. ASSUME NEW s \in Run \ {q.new} PROVE run'[s] = run[s] /\ (Orphan(s)' <=> Orphan(s))
        <4>1. run'[s] = run[s] BY <1>3
        <4>2. CASE run[s].status # "queued" BY <4>1, <4>2 DEF Orphan
        <4>3. CASE run[s].status = "queued" /\ run[s].task # q.task
          BY <1>0, <2>2, <4>1, <4>3 DEF Orphan, Owns, RowsOK
        <4>4. CASE run[s].status = "queued" /\ run[s].task = q.task
          <5>1. task[q.task].assigned # s
            BY <1>0, <2>5, <4>4, NullAssumption
          <5> QED BY <1>0, <2>2, <4>1, <4>4, <5>1 DEF Orphan, Owns
        <4> QED BY <4>2, <4>3, <4>4
      <3> QED BY <1>0, <3>1, <3>2 DEF Visible
    <2>8. Contract!Queued(q.task, q.iter) = row
      BY DEF Contract!Queued, Queued, Contract!NoLease, NoLease
    <2>9. CASE q.op = "assign"
      <3>1. task[q.task].assigned = NoRun /\ task[q.task].status = "pending"
        BY <1>5, <2>9 DEF Takes
      <3>2. q.iter = 1 BY <1>0, <2>9, <3>1 DEF RequestFits
      <3>3. Contract!RunsOf(q.task) = {}
        BY <1>0, <3>1, NullAssumption DEF Contract!RunsOf, Visible, Unassigned, Absent
      <3>4. Contract!Cardinality(Contract!RunsOf(q.task)) + 1 = 1
        BY <3>3, FS_EmptySet, SameCount
      <3>5. Contract!Queued(q.task, Contract!Cardinality(Contract!RunsOf(q.task)) + 1) = row
        BY <2>8, <3>2, <3>4
      <3>6. Contract!Assign(q.task, q.new)
        <4> HIDE DEF row
        <4> QED BY <1>1, <2>1, <2>6, <2>7, <3>1, <3>5 DEF Contract!Assign
      <3>7. Contract!Next BY <1>0, <3>6 DEF Contract!Next
      <3> QED BY <2>4, <3>7 DEF Allowed
    <2>10. CASE q.op = "retry"
      <3>1. task[q.task] = [status |-> "failed", assigned |-> q.run]
        BY <1>0, <1>5, <2>10 DEF Takes, TypeOK, TaskRow
      <3>2. q.iter = run[q.run].iter + 1 BY <1>0, <2>10 DEF RequestFits
      <3>3. Visible[q.run] = run[q.run] BY <1>0, <2>10, SeenAsItIs
      <3>4. Contract!ActiveRunsOf(q.task) = {}
        <4>1. SUFFICES ASSUME NEW s \in Run, Visible[s].task = q.task,
                              Visible[s].status \in {"queued", "running"}
                       PROVE  FALSE
          BY DEF Contract!ActiveRunsOf, Contract!RunsOf, Contract!Active
        <4>2. ~Orphan(s) /\ Visible[s] = run[s] BY <4>1 DEF Visible, Absent
        <4>3. Owns(s) BY <1>0, <4>1, <4>2 DEF Orphan, RunningOwns
        <4>4. s = q.run BY <2>5, <2>10, <4>1, <4>2, <4>3 DEF Owns
        <4> QED BY <1>0, <2>10, <4>1, <4>2, <4>4
      <3>5. Contract!Requeueable(q.run)
        BY <1>0, <2>10, <3>1, <3>3, <3>4 DEF Contract!Requeueable
      <3>6. Contract!Requeue(q.run, q.new)
        BY <1>0, <1>1, <2>1, <2>6, <2>7, <2>8, <2>10, <3>2, <3>3, <3>5 DEF Contract!Requeue
      <3>7. Contract!Next BY <1>0, <2>10, <3>6 DEF Contract!Next
      <3> QED BY <2>4, <3>7 DEF Allowed
    <2> QED BY <1>0, <2>9, <2>10
  <1>6. CASE ~Takes(q)
    <2>1. UNCHANGED task BY <1>6 DEF Insert
    <2>2. task[q.task].assigned # NoRun
      BY <1>0, <1>6 DEF Takes, TaskBacked, Unassigned
    <2>3. task[q.task].assigned # q.new
      BY <1>0, <2>2 DEF TaskBacked
    <2>4. Kept
      <3>1. Steady BY <1>0, <1>1, <1>3, <2>1 DEF Steady
      <3>2. Fitting' BY <1>4, <3>1, PassesFits
      <3>3. RowsExact' BY <1>0, <1>2, <1>3 DEF RowsExact
      <3>4. Unassigned' BY <1>0, <1>2, <1>3, <2>1, <2>2 DEF Unassigned
      <3> QED BY <1>0, <1>1, <3>2, <3>3, <3>4 DEF Kept
    <2>5. Visible' = Visible
      <3>1. Orphan(q.new)' BY <1>0, <1>2, <1>3, <2>1, <2>3 DEF Orphan, Owns
      <3>2. ~Orphan(q.new) /\ run[q.new] = Absent
        BY <1>0 DEF Orphan, RowsExact
      <3>3. \A s \in Run \ {q.new} : run'[s] = run[s] /\ (Orphan(s)' <=> Orphan(s))
        BY <1>0, <1>3, <2>1 DEF Orphan, Owns
      <3> QED BY <1>0, <3>1, <3>2, <3>3 DEF Visible
    <2> QED BY <1>1, <2>1, <2>4, <2>5
  <1> QED BY <1>5, <1>6
-----------------------------------------------------------------------------
LEMMA TickStep ==
    ASSUME Exact, Tick
    PROVE  Kept /\ Allowed
  <1>0. clock \in Nat \ {0} /\ clock' = clock + 1 /\ UNCHANGED <<tables, req>>
    BY DEF Exact, Tick
  <1>1. RowsExact' /\ Unassigned' /\ clock' \in Nat \ {0}
    BY <1>0 DEF Exact, RowsExact, Unassigned, tables
  <1>2. Fitting'
    BY <1>0 DEF Exact, Fitting, RequestFits, tables
  <1>3. Contract!Tick BY <1>0, NothingSeen DEF Tick, Contract!Tick, tables
  <1> QED BY <1>1, <1>2, <1>3 DEF Kept, Allowed, Contract!Next

\* The steps that only read the tables, or write the records.
LEMMA QuietStep ==
    ASSUME Exact, NEW h \in Handler, UNCHANGED <<tables, clock>>,
           Scan(h) \/ Passes(h)
    PROVE  Kept /\ UNCHANGED <<task, Visible, clock>>
  <1>1. Steady /\ RowsExact' /\ Unassigned' BY QuietRows
  <1>2. Fitting' BY <1>1, ScanFits, PassesFits
  <1> QED BY <1>1, <1>2, NothingSeen DEF Kept, Steady

LEMMA ContinueStep ==
    ASSUME Exact, NEW h \in Handler, Continue(h)
    PROVE  Kept /\ (Allowed \/ UNCHANGED <<task, Visible, clock>>)
  <1>0. Requests BY DEF Exact, IInv, Typed
  <1>1. ASSUME UNCHANGED <<tables, clock>>,
               \/ \E step \in Step \ {"beat", "scan", "insert"} : Goto(h, step)
               \/ Return(h)
               \/ Throw(h)
        PROVE  Kept /\ UNCHANGED <<task, Visible, clock>>
    <2>1. Passes(h) BY <1>0, <1>1, GotoPasses, ReturnPasses, ThrowPasses
    <2> QED BY <1>1, <2>1, QuietStep
  <1>2. CASE Check(h) \/ Reread(h)
    BY <1>1, <1>2 DEF Check, Reread, Step
  <1>3. CASE FindEvent(h) \/ AddEvent(h)
    BY <1>1, <1>3 DEF FindEvent, AddEvent, AfterEvent, Step
  <1>4. CASE FindReport(h) \/ AddReport(h)
    BY <1>1, <1>4 DEF FindReport, AddReport, Step
  <1>5. CASE FindInbox(h) \/ AddInbox(h) \/ Notify(h)
    BY <1>1, <1>5 DEF FindInbox, AddInbox, Notify, Step
  <1>6. CASE NextExpired(h)
    BY <1>0, <1>6, NextExpiredPasses, QuietStep DEF NextExpired
  <1>7. CASE Scan(h)
    BY <1>7, QuietStep DEF Scan
  <1> QED BY <1>2, <1>3, <1>4, <1>5, <1>6, <1>7, InsertStep, UndoStep, ClaimStep,
             BeatStep, BatchStep, WriteVerdictStep DEF Continue

LEMMA ExactStep ==
    Exact /\ [Next]_vars => Exact' /\ (Allowed \/ UNCHANGED <<task, Visible, clock>>)
  <1> SUFFICES ASSUME Exact, [Next]_vars
               PROVE  Kept /\ (Allowed \/ UNCHANGED <<task, Visible, clock>>)
    BY InvStep DEF Exact, Kept
  <1>1. ASSUME NEW h \in Handler, Start(h) PROVE Kept /\ UNCHANGED <<task, Visible, clock>>
    BY <1>1, FittingStart, QuietRows, NothingSeen DEF Kept, Exact
  <1>2. ASSUME NEW h \in Handler, Crash(h) PROVE Kept /\ UNCHANGED <<task, Visible, clock>>
    BY <1>2, ThrowPasses, QuietStep DEF Crash
  <1>3. CASE UNCHANGED vars
    BY <1>3, NothingSeen
       DEF vars, tables, Kept, Exact, RowsExact, Unassigned, Fitting, RequestFits
  <1> QED BY <1>1, <1>2, <1>3, ContinueStep, TickStep DEF Next

(***************************************************************************)
(* However the statements of concurrent calls interleave and whichever     *)
(* invocations die, every step of the D1 store (state/d1-store.ts) has the *)
(* effect of one atomic call of the in-memory store, or of none, with the  *)
(* refused finish as the only exception.                                   *)
(***************************************************************************)
THEOREM ImplementsContractButForRefusals == Spec => KeepsContractButForRefusals
  <1>1. Init => Contract!Init
    BY DEF Init, Contract!Init, Visible, Orphan, Absent, Contract!Absent, NoLease, Contract!NoLease
  <1>2. Spec => [][Allowed]_<<task, Visible, clock>>
    <2>1. Exact /\ [Next]_vars => [Allowed]_<<task, Visible, clock>>
      BY ExactStep
    <2>2. Exact /\ [Next]_vars => Exact' BY ExactStep
    <2> QED BY <2>1, <2>2, ExactInit, PTL DEF Spec
  <1> QED BY <1>1, <1>2, PTL DEF Spec, KeepsContractButForRefusals, Allowed
-----------------------------------------------------------------------------
(***************************************************************************)
(* The numbers of attempts, and the rows of lost races.                    *)
(***************************************************************************)
\* The run of a task is its last attempt.
Numbered ==
    \A t \in Task :
        /\ {run[r].iter : r \in Attempts(t)} = 1..Cardinality(Attempts(t))
        /\ Cardinality(Attempts(t)) <= MaxAttempts
        /\ task[t].assigned # NoRun =>
              run[task[t].assigned].iter = Cardinality(Attempts(t))

\* The rows of lost races that nobody is about to delete.
Forgotten ==
    {r \in Run : Orphan(r)} \ {req[h].new : h \in {g \in Handler : req[g].pc = "undo"}}

\* How a step may change the tables when it neither inserts nor deletes a row.
Frames == Forwards /\ \A r \in Run : run'[r].iter = run[r].iter

LEMMA FrameStep ==
    ASSUME Exact, NEW h \in Handler, Start(h) \/ Continue(h) \/ Crash(h),
           ~Insert(h), ~Undo(h)
    PROVE  Frames
  <1>0. /\ Typed /\ TypeOK /\ RowsOK /\ Requests /\ RunningOwns
        /\ task \in [Task -> TaskRow] /\ run \in [Run -> RunRow] /\ req[h] \in Request
    BY DEF Exact, IInv, Typed, TypeOK, Requests
  <1>1. ASSUME UNCHANGED tables PROVE Frames
    BY <1>1 DEF Frames, Forwards, tables
  \* an owned row changes, but for its task and its number, and the status of its task
  <1>2. ASSUME NEW r \in Run, Owns(r), run[r].status \notin Terminal, NEW row,
               row.task = run[r].task, row.iter = run[r].iter, row.status # "absent",
               run' = [run EXCEPT ![r] = row],
               \A t \in Task : task'[t].assigned = task[t].assigned
        PROVE  Frames
    BY <1>0, <1>2 DEF Frames, Forwards, Owns
  <1>3. CASE Claim(h)
    <2> DEFINE q == req[h]
               row == [run[q.run] EXCEPT !.status = "running", !.token = q.tok,
                                         !.expires = q.at + LeaseDuration]
    <2>1. q.run \in Run BY <1>0, <1>3 DEF Requests, CallOK, Claim
    <2>2. \A t \in Task : task'[t].assigned = task[t].assigned
      BY <1>0, <1>3 DEF Claim, TaskRow
    <2>3. CASE Claimable(q.run)
      <3>1. Owns(q.run) /\ run[q.run].status = "queued"
        BY <2>3 DEF Claimable, Waiting
      <3>2. run' = [run EXCEPT ![q.run] = row] BY <1>0, <1>3, <2>3 DEF Claim
      <3>3. run[q.run] \in RunRow BY <1>0, <2>1
      <3>4. row.task = run[q.run].task /\ row.iter = run[q.run].iter /\ row.status = "running"
        BY <3>3 DEF RunRow
      <3>5. run[q.run].status \notin Terminal BY <3>1 DEF Terminal
      <3> HIDE DEF row, q
      <3> QED BY <1>2, <2>1, <2>2, <3>1, <3>2, <3>4, <3>5
    <2>4. CASE ~Claimable(q.run)
      <3>1. UNCHANGED run BY <1>3, <2>4 DEF Claim
      <3> QED BY <2>2, <3>1 DEF Frames, Forwards
    <2> QED BY <2>3, <2>4
  <1>4. CASE Beat(h)
    <2> DEFINE q == req[h]
               row == [run[q.run] EXCEPT !.expires = q.at + LeaseDuration]
    <2>1. q.run \in Run BY <1>0, <1>4 DEF Requests, CallOK, Beat
    <2>2. UNCHANGED task BY <1>4 DEF Beat
    <2>3. CASE run' = [run EXCEPT ![q.run] = row] /\ run[q.run].status = "running"
      <3>1. Owns(q.run) BY <1>0, <2>1, <2>3 DEF RunningOwns
      <3>2. run[q.run] \in RunRow BY <1>0, <2>1
      <3>3. row.task = run[q.run].task /\ row.iter = run[q.run].iter /\ row.status = "running"
        BY <2>3, <3>2 DEF RunRow
      <3>4. run[q.run].status \notin Terminal BY <2>3 DEF Terminal
      <3> HIDE DEF row, q
      <3> QED BY <1>2, <2>1, <2>2, <2>3, <3>1, <3>3, <3>4
    <2>4. CASE UNCHANGED run
      BY <2>2, <2>4 DEF Frames, Forwards
    <2>5. \/ run' = [run EXCEPT ![q.run] = row] /\ run[q.run].status = "running"
          \/ UNCHANGED run
      BY <1>0, <1>4 DEF Beat
    <2> QED BY <2>3, <2>4, <2>5
  <1>5. CASE Batch(h)
    <2> DEFINE q == req[h]
               row == Closed(run[q.run], Move[q.op].to)
    <2>1. q.run \in Run /\ q.op \in MoveName
      BY <1>0, <1>5 DEF Requests, CallOK, Batch
    <2>2. \A t \in Task : task'[t].assigned = task[t].assigned
      BY <1>0, <1>5 DEF Batch, TaskRow
    <2>3. CASE RunMatches(q)
      <3>1. Owns(q.run) /\ run[q.run].status = Move[q.op].from
        BY <2>3 DEF RunMatches, TaskMatches
      <3>2. run' = [run EXCEPT ![q.run] = row] BY <1>0, <1>5, <2>3 DEF Batch
      <3>3. run[q.run] \in RunRow BY <1>0, <2>1
      <3>4. row.task = run[q.run].task /\ row.iter = run[q.run].iter
            /\ row.status = Move[q.op].to
        BY <3>3 DEF RunRow, Closed
      <3>5. run[q.run].status \notin Terminal /\ row.status # "absent"
        BY <2>1, <3>1, <3>4, MoveTypes DEF Terminal, Active
      <3> HIDE DEF row, q
      <3> QED BY <1>2, <2>1, <2>2, <3>1, <3>2, <3>4, <3>5
    <2>4. CASE ~RunMatches(q)
      <3>1. UNCHANGED run BY <1>5, <2>4 DEF Batch
      <3> QED BY <2>2, <3>1 DEF Frames, Forwards
    <2> QED BY <2>3, <2>4
  <1>6. CASE WriteVerdict(h)
    <2>1. UNCHANGED run /\ \A t \in Task : task'[t].assigned = task[t].assigned
      BY <1>0, <1>6 DEF WriteVerdict, TaskRow
    <2> QED BY <2>1 DEF Frames, Forwards
  <1>7. CASE Start(h) \/ Crash(h)
    BY <1>1, <1>7 DEF Start, StartAssign, StartRetry, StartClaim, StartHeartbeat, StartMove,
                      StartVerdict, StartRecover, Crash, tables
  <1>8. CASE \/ Scan(h) \/ NextExpired(h) \/ Check(h) \/ Reread(h)
             \/ FindEvent(h) \/ AddEvent(h) \/ FindReport(h) \/ AddReport(h)
             \/ FindInbox(h) \/ AddInbox(h) \/ Notify(h)
    BY <1>1, <1>8 DEF Scan, NextExpired, Check, Reread, FindEvent, AddEvent, FindReport,
                      AddReport, FindInbox, AddInbox, Notify, tables
  <1> QED BY <1>3, <1>4, <1>5, <1>6, <1>7, <1>8 DEF Continue

\* Such a step neither makes nor clears an orphan.
LEMMA FramesOrphans ==
    ASSUME Exact, Frames
    PROVE  \A r \in Run : Orphan(r)' <=> Orphan(r)
  <1>1. \A r \in Run : Owns(r)' <=> Owns(r)
    BY ForwardsOwns DEF Exact, IInv, Frames
  <1>2. ASSUME NEW r \in Run, ~Owns(r) PROVE run'[r] = run[r]
    BY <1>2 DEF Frames, Forwards
  <1> QED BY <1>1, <1>2 DEF Orphan

LEMMA FramesNumbered ==
    ASSUME Exact, Numbered, Frames
    PROVE  Numbered'
  <1> SUFFICES ASSUME NEW t \in Task
               PROVE  /\ {run'[r].iter : r \in Attempts(t)'} = 1..Cardinality(Attempts(t)')
                      /\ Cardinality(Attempts(t)') <= MaxAttempts
                      /\ task'[t].assigned # NoRun =>
                            run'[task'[t].assigned].iter = Cardinality(Attempts(t)')
    BY DEF Numbered
  <1>1. /\ \A r \in Run : run'[r].iter = run[r].iter /\ run'[r].task = run[r].task
        /\ task'[t].assigned = task[t].assigned
    BY DEF Frames, Forwards
  <1>2. Attempts(t)' = Attempts(t)
    BY <1>1, FramesOrphans DEF Attempts, RunsOf
  <1>3. Attempts(t) \subseteq Run BY DEF Attempts, RunsOf
  <1>4. {run'[r].iter : r \in Attempts(t)'} = {run[r].iter : r \in Attempts(t)}
    BY <1>1, <1>2, <1>3
  <1>5. task[t].assigned \in Run \cup {NoRun}
    BY DEF Exact, IInv, Typed, TypeOK, TaskRow
  <1> QED BY <1>1, <1>2, <1>4, <1>5 DEF Numbered

LEMMA CountTypes ==
    \A t \in Task : IsFiniteSet(Attempts(t)) /\ Cardinality(Attempts(t)) \in Nat
  BY RunAssumption, FS_Subset, FS_CardinalityType DEF Attempts, RunsOf

\* The row of a lost race is deleted.
LEMMA UndoNumbered ==
    ASSUME Exact, Numbered, NEW h \in Handler, Undo(h)
    PROVE  /\ Numbered'
           /\ \A r \in Run : Orphan(r)' <=> Orphan(r) /\ r # req[h].new
  <1>. PICK r \in Run : r = req[h].new
    BY DEF Exact, IInv, Typed, Requests, CallOK, Undo
  <1>0. /\ run \in [Run -> RunRow] /\ Orphan(r) /\ TaskBacked
    BY DEF Exact, IInv, Typed, TypeOK, NewRunsOK, Undo
  <1>1. UNCHANGED task /\ run' = [run EXCEPT ![r] = Absent] BY DEF Undo
  <1>2. \A s \in Run : run'[s] = IF s = r THEN Absent ELSE run[s] BY <1>0, <1>1
  <1>3. Absent.status = "absent" /\ Absent.task = NoTask BY DEF Absent
  <1>4. \A s \in Run : Orphan(s)' <=> Orphan(s) /\ s # r
    BY <1>1, <1>2, <1>3 DEF Orphan, Owns
  <1>5. ASSUME NEW t \in Task
        PROVE  /\ Attempts(t)' = Attempts(t)
               /\ \A s \in Attempts(t) : run'[s] = run[s]
               /\ task[t].assigned # r
    <2>1. r \notin Attempts(t) BY <1>0 DEF Attempts
    <2>2. r \notin Attempts(t)'
      BY <1>2, <1>3, NullAssumption DEF Attempts, RunsOf
    <2>3. \A s \in Run \ {r} : s \in Attempts(t)' <=> s \in Attempts(t)
      BY <1>2, <1>4 DEF Attempts, RunsOf
    <2>4. task[t].assigned # r
      BY <1>0, NullAssumption DEF Orphan, Owns, TaskBacked
    <2>5. Attempts(t) \subseteq Run /\ Attempts(t)' \subseteq Run BY DEF Attempts, RunsOf
    <2> QED BY <1>2, <2>1, <2>2, <2>3, <2>4, <2>5
  <1>6. Numbered'
    <2> SUFFICES ASSUME NEW t \in Task
                 PROVE  /\ {run'[s].iter : s \in Attempts(t)'} = 1..Cardinality(Attempts(t)')
                        /\ Cardinality(Attempts(t)') <= MaxAttempts
                        /\ task'[t].assigned # NoRun =>
                              run'[task'[t].assigned].iter = Cardinality(Attempts(t)')
      BY DEF Numbered
    <2>1. task[t].assigned \in Run \cup {NoRun}
      BY DEF Exact, IInv, Typed, TypeOK, TaskRow
    <2>2. {run'[s].iter : s \in Attempts(t)'} = {run[s].iter : s \in Attempts(t)}
      BY <1>5
    <2> QED BY <1>1, <1>2, <1>5, <2>1, <2>2 DEF Numbered
  <1> QED BY <1>4, <1>6

\* The batch of an assignment or a retry: a further attempt, or an orphan.
LEMMA InsertNumbered ==
    ASSUME Exact, Numbered, NEW h \in Handler, Insert(h)
    PROVE  /\ Numbered'
           /\ \A r \in Run : Orphan(r)' =>
                 Orphan(r) \/ (r = req[h].new /\ req'[h].pc = "undo")
  <1>. PICK q \in Request : q = req[h]
    BY DEF Exact, IInv, Typed, Requests
  <1>. DEFINE new == q.new
              row == Queued(q.task, q.iter)
  <1>0. /\ TypeOK /\ RowsOK /\ Requests /\ TaskBacked /\ RowsExact
        /\ Unassigned /\ run \in [Run -> RunRow] /\ task \in [Task -> TaskRow]
        /\ req \in [Handler -> Request]
        /\ q.pc = "insert" /\ new \in Run /\ q.task \in Task
        /\ q.op \in {"assign", "retry"} /\ run[new].status = "absent"
        /\ q.op = "retry" => /\ q.run \in Run /\ run[q.run].status = "timed_out"
                             /\ run[q.run].task = q.task
        /\ RequestFits(q)
    BY DEF Exact, IInv, Typed, TypeOK, Requests, CallOK, NewRunsOK, BegunOK, Insert, Fitting
  <1>1. run' = [run EXCEPT ![new] = row]
    BY DEF Insert
  <1>2. row.status = "queued" /\ row.task = q.task /\ row.iter = q.iter BY DEF Queued
  <1> HIDE DEF row
  <1>3. \A s \in Run : run'[s] = IF s = new THEN row ELSE run[s] BY <1>0, <1>1
  <1>4. run[new].task = NoTask /\ run[new].task \notin Task
    BY <1>0, NullAssumption DEF RowsExact, Absent
  <1>5. \A t \in Task : new \notin Attempts(t)
    BY <1>4 DEF Attempts, RunsOf
  <1>6. \A t \in Task : task[t].assigned # new
    BY <1>0, NullAssumption DEF TaskBacked
  <1>7. CASE Takes(q)
    <2>1. \A t \in Task : task'[t] = IF t = q.task
                                       THEN [status |-> "assigned", assigned |-> new]
                                       ELSE task[t]
      BY <1>0, <1>7 DEF Insert
    <2>2. new # NoRun BY <1>0, NullAssumption
    \* what the task was assigned to before
    <2>3. task[q.task].assigned = IF q.op = "assign" THEN NoRun ELSE q.run
      BY <1>0, <1>7 DEF Takes
    <2>4. ~Orphan(new)'
      BY <1>0, <1>2, <1>3, <2>1 DEF Orphan, Owns
    <2>5. ASSUME NEW s \in Run \ {new} PROVE run'[s] = run[s] /\ (Orphan(s)' <=> Orphan(s))
      <3>1. run'[s] = run[s] BY <1>3
      <3>2. CASE run[s].status # "queued" BY <3>1, <3>2 DEF Orphan
      <3>3. CASE run[s].status = "queued" /\ run[s].task # q.task
        BY <1>0, <2>1, <3>1, <3>3 DEF Orphan, Owns, RowsOK
      <3>4. CASE run[s].status = "queued" /\ run[s].task = q.task
        <4>1. task[q.task].assigned # s
          BY <1>0, <2>3, <3>4, NullAssumption
        <4> QED BY <1>0, <2>1, <3>1, <3>4, <4>1 DEF Orphan, Owns
      <3> QED BY <3>2, <3>3, <3>4
    <2>6. ASSUME NEW t \in Task \ {q.task}
          PROVE  Attempts(t)' = Attempts(t)
      BY <1>2, <1>3, <1>5, <2>5 DEF Attempts, RunsOf
    <2>7. Attempts(q.task)' = Attempts(q.task) \cup {new}
      BY <1>0, <1>2, <1>3, <2>4, <2>5 DEF Attempts, RunsOf
    <2> DEFINE n == Cardinality(Attempts(q.task))
    <2>8. /\ n \in Nat /\ IsFiniteSet(Attempts(q.task))
          /\ Cardinality(Attempts(q.task)') = n + 1
      BY <1>0, <1>5, <2>7, CountTypes, FS_AddElement
    <2> HIDE DEF n
    \* the number of the new attempt
    <2>9. q.iter = n + 1 /\ n + 1 <= MaxAttempts
      <3>1. CASE q.op = "assign"
        <4>1. Attempts(q.task) = {}
          BY <1>0, <2>3, <3>1 DEF Unassigned, Attempts, RunsOf
        <4>2. n = 0 BY <4>1, FS_EmptySet DEF n
        <4>3. q.iter = 1 BY <1>0, <2>3, <3>1 DEF RequestFits
        <4> QED BY <4>2, <4>3, DurationAssumption
      <3>2. CASE q.op = "retry"
        <4>1. q.iter = run[q.run].iter + 1 /\ run[q.run].iter < MaxAttempts
          BY <1>0, <3>2 DEF RequestFits, AttemptLeft
        <4>2. q.run # NoRun BY <1>0, <3>2, NullAssumption
        <4>3. run[q.run].iter = n BY <1>0, <2>3, <3>2, <4>2 DEF Numbered, n
        <4> QED BY <2>8, <4>1, <4>3, DurationAssumption
      <3> QED BY <1>0, <3>1, <3>2
    <2>10. {run'[s].iter : s \in Attempts(q.task)'} = 1..(n + 1)
      <3>1. {run'[s].iter : s \in Attempts(q.task)'}
               = {run[s].iter : s \in Attempts(q.task)} \cup {n + 1}
        <4>1. \A s \in Attempts(q.task) : run'[s] = run[s]
          BY <1>3, <1>0, <1>5 DEF Attempts, RunsOf
        <4>2. run'[new].iter = n + 1 BY <1>0, <1>2, <1>3, <2>9
        <4> QED BY <2>7, <4>1, <4>2
      <3>2. {run[s].iter : s \in Attempts(q.task)} = 1..n
        BY <1>0 DEF Numbered, n
      <3>3. 1..n \cup {n + 1} = 1..(n + 1) BY <2>8
      <3> QED BY <3>1, <3>2, <3>3
    <2>11. ASSUME NEW t \in Task
           PROVE  /\ {run'[s].iter : s \in Attempts(t)'} = 1..Cardinality(Attempts(t)')
                  /\ Cardinality(Attempts(t)') <= MaxAttempts
                  /\ task'[t].assigned # NoRun =>
                        run'[task'[t].assigned].iter = Cardinality(Attempts(t)')
      <3>1. CASE t = q.task
        <4>1. task'[t].assigned = new /\ run'[new].iter = n + 1
          BY <1>0, <1>2, <1>3, <2>1, <2>9, <3>1
        <4> QED BY <2>8, <2>9, <2>10, <3>1, <4>1
      <3>2. CASE t # q.task
        <4>1. Attempts(t)' = Attempts(t) /\ task'[t] = task[t] BY <2>1, <2>6, <3>2
        <4>2. Attempts(t) \subseteq Run BY DEF Attempts, RunsOf
        <4>3. \A s \in Attempts(t) : run'[s] = run[s] BY <1>3, <1>5, <4>2
        <4>4. {run'[s].iter : s \in Attempts(t)'} = {run[s].iter : s \in Attempts(t)}
          BY <4>1, <4>3
        <4>5. task[t].assigned # NoRun => run'[task[t].assigned] = run[task[t].assigned]
          BY <1>0, <1>3, <1>6 DEF TaskRow
        <4> QED BY <4>1, <4>4, <4>5 DEF Numbered
      <3> QED BY <3>1, <3>2
    <2> QED BY <2>4, <2>5, <2>11 DEF Numbered
  <1>8. CASE ~Takes(q)
    <2>1. UNCHANGED task /\ Goto(h, "undo") BY <1>8 DEF Insert
    <2>2. req'[h].pc = "undo" BY <1>0, <2>1 DEF Goto, Request
    <2>3. Orphan(new)' BY <1>0, <1>2, <1>3, <1>6, <2>1 DEF Orphan, Owns
    <2>4. \A s \in Run \ {new} : run'[s] = run[s] /\ (Orphan(s)' <=> Orphan(s))
      BY <1>0, <1>3, <2>1 DEF Orphan, Owns
    <2>5. ASSUME NEW t \in Task
          PROVE  /\ Attempts(t)' = Attempts(t)
                 /\ \A s \in Attempts(t) : run'[s] = run[s]
      <3>1. new \notin Attempts(t)' BY <2>3 DEF Attempts
      <3>2. Attempts(t) \subseteq Run /\ Attempts(t)' \subseteq Run BY DEF Attempts, RunsOf
      <3>3. \A s \in Run \ {new} : s \in Attempts(t)' <=> s \in Attempts(t)
        BY <2>4 DEF Attempts, RunsOf
      <3> QED BY <1>3, <1>5, <3>1, <3>2, <3>3
    <2>6. ASSUME NEW t \in Task
          PROVE  /\ {run'[s].iter : s \in Attempts(t)'} = 1..Cardinality(Attempts(t)')
                 /\ Cardinality(Attempts(t)') <= MaxAttempts
                 /\ task'[t].assigned # NoRun =>
                       run'[task'[t].assigned].iter = Cardinality(Attempts(t)')
      <3>1. {run'[s].iter : s \in Attempts(t)'} = {run[s].iter : s \in Attempts(t)}
        BY <2>5
      <3>2. task[t].assigned # NoRun => run'[task[t].assigned] = run[task[t].assigned]
        BY <1>0, <1>3, <1>6 DEF TaskRow
      <3> QED BY <2>1, <2>5, <3>1, <3>2 DEF Numbered
    <2> QED BY <2>2, <2>4, <2>6 DEF Numbered
  <1> QED BY <1>7, <1>8

\* An invocation that dies forgets at most the one row that it was about to delete.
LEMMA ForgottenStep ==
    ASSUME Exact, Numbered, OrphansAreUndone, NEW h \in Handler,
           Start(h) \/ Continue(h) \/ Crash(h)
    PROVE  OrphansAreUndone'
  <1>0. /\ IsFiniteSet(Forgotten) /\ Cardinality(Forgotten) \in Nat
        /\ Cardinality(Forgotten) <= crashes /\ crashes \in Nat
        /\ req \in [Handler -> Request]
    BY RunAssumption, FS_Subset, FS_CardinalityType
       DEF Forgotten, OrphansAreUndone, Exact, IInv, Typed, Requests, TypeOK
  <1>1. \A g \in Handler : g # h => req'[g] = req[g]
    <2>1. CASE Start(h)
      BY <1>0, <2>1 DEF Start, StartAssign, StartRetry, StartClaim, StartHeartbeat, StartMove,
                        StartVerdict, StartRecover
    <2>2. CASE (\E step \in Step : Goto(h, step)) \/ Return(h) \/ Throw(h)
      BY <1>0, <2>2 DEF Goto, Return, Throw
    <2>3. CASE Scan(h) \/ NextExpired(h)
      <3>1. CASE NextExpired(h) BY <1>0, <3>1 DEF NextExpired
      <3>2. CASE Scan(h)
        <4>1. \/ \E n : req' = [req EXCEPT ![h].pc = "insert", ![h].iter = n]
              \/ Return(h) \/ Goto(h, "insert")
          <5>1. req[h].op \in {"assign", "retry"}
            BY <3>2 DEF Scan, Exact, IInv, Typed, Requests, CallOK
          <5> QED BY <3>2, <5>1 DEF Scan
        <4> QED BY <1>0, <2>2, <4>1 DEF Step
      <3> QED BY <2>3, <3>1, <3>2
    <2>4. CASE Insert(h) \/ Undo(h) \/ Claim(h) \/ Beat(h) \/ Crash(h)
      BY <2>2, <2>4 DEF Insert, Undo, Claim, Beat, Crash, Step
    <2>5. CASE Check(h) \/ Batch(h) \/ Reread(h) \/ WriteVerdict(h) \/ Notify(h)
      BY <2>2, <2>5 DEF Check, Batch, Reread, WriteVerdict, Notify, Step
    <2>6. CASE \/ FindEvent(h) \/ AddEvent(h) \/ FindReport(h) \/ AddReport(h)
               \/ FindInbox(h) \/ AddInbox(h)
      BY <2>2, <2>6 DEF FindEvent, AddEvent, FindReport, AddReport, FindInbox, AddInbox,
                        AfterEvent, Step
    <2> QED BY <2>1, <2>3, <2>4, <2>5, <2>6 DEF Continue
  <1>2. Forgotten' = {r \in Run : Orphan(r)'}
                        \ {req'[g].new : g \in {f \in Handler : req'[f].pc = "undo"}}
    BY DEF Forgotten
  \* the step of a handler that was not about to delete anything
  <1>3. ASSUME req[h].pc # "undo", \A r \in Run : Orphan(r)' => Orphan(r)
        PROVE  Forgotten' \subseteq Forgotten
    BY <1>1, <1>2, <1>3 DEF Forgotten
  <1>4. ASSUME Forgotten' \subseteq Forgotten, crashes' = crashes PROVE OrphansAreUndone'
    <2>1. Cardinality(Forgotten') <= Cardinality(Forgotten) /\ IsFiniteSet(Forgotten')
      BY <1>0, <1>4, FS_Subset
    <2>2. Cardinality(Forgotten') \in Nat BY <2>1, FS_CardinalityType
    <2>3. Cardinality(Forgotten') <= crashes' BY <1>0, <1>4, <2>1, <2>2
    <2> QED BY <2>3 DEF Forgotten, OrphansAreUndone
  <1>5. CASE Undo(h)
    <2>1. \A r \in Run : Orphan(r)' <=> Orphan(r) /\ r # req[h].new
      BY <1>5, UndoNumbered
    <2>2. Forgotten' \subseteq Forgotten
      BY <1>1, <1>2, <2>1 DEF Forgotten
    <2>3. crashes' = crashes BY <1>5 DEF Undo
    <2> QED BY <1>4, <2>2, <2>3
  <1>6. CASE Insert(h)
    <2>1. req[h].pc # "undo" /\ crashes' = crashes /\ req[h].new \in Run
      BY <1>6 DEF Insert, Exact, IInv, Typed, Requests, CallOK
    <2>2. \A r \in Run : Orphan(r)' => Orphan(r) \/ (r = req[h].new /\ req'[h].pc = "undo")
      BY <1>6, InsertNumbered
    <2>3. req'[h].pc = "undo" => req'[h].new = req[h].new
      <3>1. req[h] \in Request /\ (Goto(h, "undo") \/ req'[h].pc # "undo")
        BY <1>0, <1>6, IdleOK DEF Insert, Goto, Return, Request
      <3> QED BY <1>0, <3>1 DEF Goto, Request
    <2>4. Forgotten' \subseteq Forgotten
      BY <1>1, <1>2, <2>1, <2>2, <2>3 DEF Forgotten
    <2> QED BY <1>4, <2>1, <2>4
  <1>7. CASE Crash(h)
    <2>1. \A r \in Run : Orphan(r)' <=> Orphan(r)
      BY <1>7 DEF Crash, tables, Orphan, Owns
    <2>2. Forgotten' \subseteq Forgotten \cup {req[h].new}
      BY <1>1, <1>2, <2>1 DEF Forgotten
    <2> DEFINE all == Forgotten \cup {req[h].new}
    <2>3. IsFiniteSet(all) /\ Cardinality(all) <= Cardinality(Forgotten) + 1
      BY <1>0, FS_AddElement
    <2>4. Cardinality(all) \in Nat BY <2>3, FS_CardinalityType
    <2>5. IsFiniteSet(Forgotten') /\ Cardinality(Forgotten') <= Cardinality(all)
      BY <2>2, <2>3, FS_Subset
    <2>6. Cardinality(Forgotten') \in Nat BY <2>5, FS_CardinalityType
    <2>7. crashes' = crashes + 1 BY <1>7 DEF Crash
    <2> HIDE DEF all
    <2>8. Cardinality(Forgotten') <= crashes' BY <1>0, <2>3, <2>4, <2>5, <2>6, <2>7
    <2> QED BY <2>8 DEF Forgotten, OrphansAreUndone
  <1>8. CASE ~Undo(h) /\ ~Insert(h) /\ ~Crash(h)
    <2>1. \A r \in Run : Orphan(r)' <=> Orphan(r)
      BY <1>8, FrameStep, FramesOrphans
    <2>2. req[h].pc # "undo" /\ crashes' = crashes
      BY <1>8 DEF Start, Continue, StartAssign, StartRetry, StartClaim,
            StartHeartbeat, StartMove, StartVerdict, StartRecover, Scan,
            Claim, Beat, NextExpired, Check, Batch, Reread, FindEvent, AddEvent, FindReport,
            AddReport, FindInbox, AddInbox, WriteVerdict, Notify
    <2> QED BY <1>3, <1>4, <2>1, <2>2
  <1> QED BY <1>5, <1>6, <1>7, <1>8

Attempted == Exact /\ Numbered /\ OrphansAreUndone

LEMMA AttemptsInit == Init => Attempted
  <1> SUFFICES ASSUME Init PROVE Attempted OBVIOUS
  <1>1. Exact BY ExactInit
  <1>2. \A r \in Run : ~Orphan(r) /\ run[r].task \notin Task
    BY NullAssumption DEF Init, Orphan, Absent
  <1>3. \A t \in Task : Attempts(t) = {} BY <1>2 DEF Attempts, RunsOf
  <1>4. Cardinality({}) = 0 BY FS_EmptySet
  <1>5. \A t \in Task : task[t].assigned = NoRun BY DEF Init
  <1>6. Numbered
    <2> SUFFICES ASSUME NEW t \in Task
                 PROVE  /\ {run[r].iter : r \in Attempts(t)} = 1..Cardinality(Attempts(t))
                        /\ Cardinality(Attempts(t)) <= MaxAttempts
      BY <1>5 DEF Numbered
    <2>1. {run[r].iter : r \in Attempts(t)} = {} BY <1>3
    <2> QED BY <1>3, <1>4, <2>1, DurationAssumption
  <1>7. Forgotten = {} BY <1>2 DEF Forgotten
  <1>8. OrphansAreUndone
    <2>1. Cardinality(Forgotten) <= crashes BY <1>4, <1>7 DEF Init
    <2> QED BY <2>1 DEF Forgotten, OrphansAreUndone
  <1> QED BY <1>1, <1>6, <1>8 DEF Attempted

LEMMA AttemptsStep == Attempted /\ [Next]_vars => Attempted'
  <1> SUFFICES ASSUME Attempted, [Next]_vars PROVE Attempted'
    OBVIOUS
  <1>0. Exact /\ Numbered /\ OrphansAreUndone BY DEF Attempted
  <1>1. Exact' BY <1>0, ExactStep
  <1>2. ASSUME UNCHANGED <<tables, req, crashes>> PROVE Attempted'
    <2>1. Frames BY <1>2 DEF Frames, Forwards, tables
    <2>2. Numbered' BY <1>0, <2>1, FramesNumbered
    <2>3. \A r \in Run : Orphan(r)' <=> Orphan(r) BY <1>0, <2>1, FramesOrphans
    <2>4. Forgotten' = Forgotten BY <1>2, <2>3 DEF Forgotten
    <2>5. Cardinality(Forgotten') <= crashes'
      BY <1>0, <1>2, <2>4 DEF Forgotten, OrphansAreUndone
    <2>6. OrphansAreUndone' BY <2>5 DEF Forgotten, OrphansAreUndone
    <2> QED BY <1>1, <2>2, <2>6 DEF Attempted
  <1>3. CASE Tick \/ UNCHANGED vars BY <1>2, <1>3 DEF Tick, vars
  <1>4. ASSUME NEW h \in Handler, Start(h) \/ Continue(h) \/ Crash(h) PROVE Attempted'
    <2>1. OrphansAreUndone' BY <1>0, <1>4, ForgottenStep
    <2>2. Numbered'
      BY <1>0, <1>4, InsertNumbered, UndoNumbered, FrameStep, FramesNumbered
    <2> QED BY <1>1, <2>1, <2>2 DEF Attempted
  <1> QED BY <1>3, <1>4 DEF Next

(***************************************************************************)
(* Attempts at a task are numbered 1, 2, ... without a gap or a repeat,    *)
(* and there are at most MaxAttempts of them, however many assignments and *)
(* retries race and whichever invocations die; a row that lost its race    *)
(* is no attempt, and each death leaves at most one such row for good      *)
(* (assignTaskToWorkerRun and requeueTimedOutWorkerRun of d1-store.ts).    *)
(***************************************************************************)
THEOREM AttemptsAreNumbered == Spec => []AttemptsNumbered
  <1>1. Attempted => AttemptsNumbered BY DEF Attempted, Numbered, AttemptsNumbered
  <1> QED BY <1>1, AttemptsInit, AttemptsStep, PTL DEF Spec
=============================================================================
