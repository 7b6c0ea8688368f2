---------------------------- MODULE MasterRunProofs ----------------------------
(***************************************************************************)
(* Proofs about MasterRun, for any runs, tasks, decisions, limits, prices, *)
(* and scenes.                                                             *)
(***************************************************************************)
EXTENDS MasterRun, TotalsProofs

-----------------------------------------------------------------------------
(* Types.                                                                  *)

\* A step of one run: the others stay as they are.
Becomes(i, row) == m' = [m EXCEPT ![i] = row]
OthersStay(i) == \A j \in Masters : j # i => m'[j] = m[j]

LEMMA BecomesTypes ==
    ASSUME TypeOK, NEW i \in Masters, NEW row, Becomes(i, row)
    PROVE  /\ m'[i] = row /\ OthersStay(i)
           /\ row \in MasterRow => m' \in [Masters -> MasterRow]
  BY DEF TypeOK, Becomes, OthersStay

LEMMA GoingTypes ==
    ASSUME TypeOK, NEW i \in Masters, NEW pc \in PC, Goto(i, pc)
    PROVE  /\ m' \in [Masters -> MasterRow] /\ OthersStay(i)
           /\ m'[i] = [m[i] EXCEPT !.pc = pc]
  <1>1. Becomes(i, [m[i] EXCEPT !.pc = pc])
    BY DEF Goto, Becomes, TypeOK
  <1>2. m[i] \in MasterRow
    BY DEF TypeOK
  <1>3. [m[i] EXCEPT !.pc = pc] \in MasterRow
    BY <1>2 DEF MasterRow
  <1>. QED  BY <1>1, <1>3, BecomesTypes

LEMMA ConcludingTypes ==
    ASSUME TypeOK, NEW i \in Masters, NEW result \in {"blocked", "rejected", "failed"},
           Conclude(i, result)
    PROVE  /\ m' \in [Masters -> MasterRow] /\ OthersStay(i)
           /\ m'[i] = [m[i] EXCEPT !.pc = "row", !.action = "BLOCKED", !.result = result]
  <1>. DEFINE row == [m[i] EXCEPT !.pc = "row", !.action = "BLOCKED", !.result = result]
  <1>1. Becomes(i, row)
    BY DEF Conclude, Becomes, TypeOK
  <1>2. row \in MasterRow
    <2>1. m[i] \in MasterRow /\ "row" \in PC /\ "BLOCKED" \in Actions
      BY DEF TypeOK, PC, Actions
    <2>. QED  BY <2>1 DEF MasterRow
  <1>. HIDE DEF row
  <1>3. m'[i] = row /\ OthersStay(i) /\ m' \in [Masters -> MasterRow]
    BY <1>1, <1>2, BecomesTypes
  <1>. QED  BY <1>3 DEF row

\* The decisions of the model.
LEMMA DecisionTypes ==
    ASSUME NEW d \in Decisions \cup {NoDecision}
    PROVE  /\ d.action \in Actions /\ d.proposals \in Seq(ProposalRow)
           /\ KeysOf(d) \subseteq Keys
           /\ ToSet(d.proposals) \subseteq ProposalRow
           /\ \A k \in KeysOf(d) :
                 /\ Proposal(d, k) \in ProposalRow
                 /\ Proposal(d, k).key = k
                 /\ Proposal(d, k) \in ToSet(d.proposals)
  <1>1. d.action \in Actions /\ d.proposals \in Seq(ProposalRow)
    <2>1. CASE d = NoDecision
      BY <2>1 DEF NoDecision, Actions
    <2>2. CASE d \in Decisions
      BY <2>2, DecisionsAssumption
    <2>. QED  BY <2>1, <2>2
  <1>2. \A n \in DOMAIN d.proposals : d.proposals[n] \in ProposalRow
    BY <1>1
  <1>3. ToSet(d.proposals) \subseteq ProposalRow
    BY <1>2 DEF ToSet
  <1>4. KeysOf(d) \subseteq Keys
    BY <1>2 DEF KeysOf, ProposalRow
  <1>5. ASSUME NEW k \in KeysOf(d)
        PROVE  /\ Proposal(d, k) \in ToSet(d.proposals)
               /\ Proposal(d, k).key = k
    <2>1. \E p \in ToSet(d.proposals) : p.key = k
      BY <1>5 DEF KeysOf, ToSet
    <2>. QED  BY <2>1 DEF Proposal
  <1>. QED  BY <1>1, <1>3, <1>4, <1>5

LEMMA ProjectTypes ==
    /\ EmptyProject \in GateInput
    /\ NoUsage \in [tokens : Nat, usd : Nat]
    /\ \A i \in Masters, k \in Keys : <<i, k>> \in NewTasks /\ <<i, k>> \in TaskIds
  BY MasterAssumption DEF EmptyProject, GateInput, NoUsage, NewTasks, TaskIds

LEMMA TypesInit == Init => TypeOK
  <1>. SUFFICES ASSUME Init  PROVE TypeOK
    OBVIOUS
  <1>1. m \in [Masters -> MasterRow]
    BY ProjectTypes DEF Init, MasterRow, PC, Actions
  <1>2. rows \in [Masters -> RunRow]
    BY DEF Init, RunRow, Actions
  <1>3. state \in StateRow /\ usage \in [tokens : Nat, usd : Nat]
    BY ProjectTypes DEF Init, StateRow
  <1>4. /\ tasks \in [TaskIds -> {"absent", "open", "terminal"}] /\ project \in GateInput
        /\ overlap \in {s.overlap : s \in Scenes}
    BY ScenesAssumption DEF Init
  <1>5. /\ inbox = {} /\ depRows = {} /\ changes \in 0 .. MaxChanges
        /\ seen \in [Masters -> SUBSET GateInput]
    BY MasterAssumption DEF Init
  <1>. QED  BY <1>1, <1>2, <1>3, <1>4, <1>5 DEF TypeOK

LEMMA StartRow ==
    ASSUME TypeOK, NEW i \in Masters, Start(i)
    PROVE  /\ m' \in [Masters -> MasterRow] /\ OthersStay(i)
           /\ m'[i] = [m[i] EXCEPT !.pc = "load", !.load = Parts \ {"insert"}]
  <1>. DEFINE row == [m[i] EXCEPT !.pc = "load", !.load = Parts \ {"insert"}]
  <1>1. Becomes(i, row)
    BY DEF Start, Becomes, TypeOK
  <1>2. m[i] \in MasterRow
    BY DEF TypeOK
  <1>3. "load" \in PC /\ Parts \ {"insert"} \subseteq Parts
    BY DEF PC
  <1>4. row \in MasterRow
    BY <1>2, <1>3 DEF MasterRow
  <1>. HIDE DEF row
  <1>5. m'[i] = row /\ OthersStay(i) /\ m' \in [Masters -> MasterRow]
    BY <1>1, <1>4, BecomesTypes
  <1>. QED  BY <1>5 DEF row

LEMMA LoadStateRow ==
    ASSUME TypeOK, NEW i \in Masters, LoadState(i)
    PROVE  /\ m' \in [Masters -> MasterRow] /\ OthersStay(i)
           /\ m'[i] = [m[i] EXCEPT !.load = (m[i].load \ {"state"}) \cup (IF state.exists THEN {} ELSE {"insert"})]
  <1>. DEFINE row == [m[i] EXCEPT !.load = (m[i].load \ {"state"}) \cup (IF state.exists THEN {} ELSE {"insert"})]
  <1>1. Becomes(i, row)
    BY DEF LoadState, Becomes, TypeOK
  <1>2. m[i] \in MasterRow
    BY DEF TypeOK
  <1>3. (m[i].load \ {"state"}) \cup (IF state.exists THEN {} ELSE {"insert"}) \subseteq Parts
    BY <1>2 DEF MasterRow, Parts
  <1>4. row \in MasterRow
    BY <1>2, <1>3 DEF MasterRow
  <1>. HIDE DEF row
  <1>5. m'[i] = row /\ OthersStay(i) /\ m' \in [Masters -> MasterRow]
    BY <1>1, <1>4, BecomesTypes
  <1>. QED  BY <1>5 DEF row

Answered(i, d, u) == [m[i] EXCEPT !.pc = "tokens", !.decision = d, !.used = u]

LEMMA ModelAnswersRow ==
    ASSUME TypeOK, NEW i \in Masters, NEW d \in Decisions, NEW u \in Usages, ModelAnswers(i, d, u)
    PROVE  /\ m' \in [Masters -> MasterRow] /\ OthersStay(i)
           /\ m'[i] = Answered(i, d, u)
  <1>1. Becomes(i, Answered(i, d, u))
    BY DEF ModelAnswers, Becomes, TypeOK, Answered
  <1>2. m[i] \in MasterRow
    BY DEF TypeOK
  <1>3. "tokens" \in PC /\ u \in [tokens : Nat, usd : Nat]
    BY MasterAssumption DEF PC
  <1>4. Answered(i, d, u) \in MasterRow
    BY <1>2, <1>3 DEF MasterRow, Answered
  <1>5. m'[i] = Answered(i, d, u) /\ OthersStay(i) /\ m' \in [Masters -> MasterRow]
    BY <1>1, <1>4, BecomesTypes
  <1>. QED  BY <1>5

LEMMA ListTasksRow ==
    ASSUME TypeOK, NEW i \in Masters, ListTasks(i)
    PROVE  /\ m' \in [Masters -> MasterRow] /\ OthersStay(i)
           /\ m'[i] = [m[i] EXCEPT !.pc = "create", !.todo = KeysOf(m[i].decision),
                                 !.known = {t \in TaskIds : tasks[t] # "absent"}]
  <1>. DEFINE row == [m[i] EXCEPT !.pc = "create", !.todo = KeysOf(m[i].decision),
                                 !.known = {t \in TaskIds : tasks[t] # "absent"}]
  <1>1. Becomes(i, row)
    BY DEF ListTasks, Becomes, TypeOK
  <1>2. m[i] \in MasterRow
    BY DEF TypeOK
  <1>3. "create" \in PC /\ KeysOf(m[i].decision) \subseteq Keys
    BY <1>2, DecisionTypes DEF PC, MasterRow
  <1>4. row \in MasterRow
    BY <1>2, <1>3 DEF MasterRow
  <1>. HIDE DEF row
  <1>5. m'[i] = row /\ OthersStay(i) /\ m' \in [Masters -> MasterRow]
    BY <1>1, <1>4, BecomesTypes
  <1>. QED  BY <1>5 DEF row

LEMMA SyncReadRow ==
    ASSUME TypeOK, NEW i \in Masters, SyncRead(i)
    PROVE  /\ m' \in [Masters -> MasterRow] /\ OthersStay(i)
           /\ m'[i] = [m[i] EXCEPT !.pc = "setactive",
                                 !.active = NextActive(state.active, Created(i))]
  <1>. DEFINE row == [m[i] EXCEPT !.pc = "setactive",
                                 !.active = NextActive(state.active, Created(i))]
  <1>1. Becomes(i, row)
    BY DEF SyncRead, Becomes, TypeOK
  <1>2. m[i] \in MasterRow
    BY DEF TypeOK
  <1>3. "setactive" \in PC /\ NextActive(state.active, Created(i)) \subseteq TaskIds
    BY DEF PC, NextActive, Created, TypeOK, StateRow, TaskIds
  <1>4. row \in MasterRow
    BY <1>2, <1>3 DEF MasterRow
  <1>. HIDE DEF row
  <1>5. m'[i] = row /\ OthersStay(i) /\ m' \in [Masters -> MasterRow]
    BY <1>1, <1>4, BecomesTypes
  <1>. QED  BY <1>5 DEF row

LEMMA EnqueueReadRow ==
    ASSUME TypeOK, NEW i \in Masters, EnqueueRead(i)
    PROVE  /\ m' \in [Masters -> MasterRow] /\ OthersStay(i)
           /\ m'[i] = [m[i] EXCEPT !.pc = "inbox", !.ids = state.inbox]
  <1>. DEFINE row == [m[i] EXCEPT !.pc = "inbox", !.ids = state.inbox]
  <1>1. Becomes(i, row)
    BY DEF EnqueueRead, Becomes, TypeOK
  <1>2. m[i] \in MasterRow
    BY DEF TypeOK
  <1>3. "inbox" \in PC /\ state.inbox \subseteq Masters
    BY DEF PC, TypeOK, StateRow
  <1>4. row \in MasterRow
    BY <1>2, <1>3 DEF MasterRow
  <1>. HIDE DEF row
  <1>5. m'[i] = row /\ OthersStay(i) /\ m' \in [Masters -> MasterRow]
    BY <1>1, <1>4, BecomesTypes
  <1>. QED  BY <1>5 DEF row

LEMMA InsertStateRow ==
    ASSUME TypeOK, NEW i \in Masters, InsertState(i)
    PROVE  /\ m' \in [Masters -> MasterRow] /\ OthersStay(i)
           /\ \/ state.exists /\ m'[i] = [m[i] EXCEPT !.pc = "error"]
              \/ ~state.exists /\ m'[i] = [m[i] EXCEPT !.load = m[i].load \ {"insert"}]
  <1>1. CASE state.exists
    BY <1>1, GoingTypes DEF InsertState, PC
  <1>2. CASE ~state.exists
    <2>. DEFINE row == [m[i] EXCEPT !.load = m[i].load \ {"insert"}]
    <2>1. Becomes(i, row)
      BY <1>2 DEF InsertState, Becomes, TypeOK
    <2>2. m[i] \in MasterRow
      BY DEF TypeOK
    <2>3. row \in MasterRow
      BY <2>2 DEF MasterRow
    <2>. HIDE DEF row
    <2>4. m'[i] = row /\ OthersStay(i) /\ m' \in [Masters -> MasterRow]
      BY <2>1, <2>3, BecomesTypes
    <2>. QED  BY <1>2, <2>4 DEF row
  <1>. QED  BY <1>1, <1>2

\* What a read of the gate's inputs adds to those read before.
GateAfter(i, part) ==
    CASE part = "contract" -> [m[i].gate EXCEPT !.contract = project.contract]
      [] part = "criteria" -> [m[i].gate EXCEPT !.criterion = project.criterion]
      [] part = "rest"     -> [project EXCEPT !.contract = m[i].gate.contract,
                                              !.criterion = m[i].gate.criterion]
      [] OTHER -> m[i].gate

LEMMA LoadPartRow ==
    ASSUME TypeOK, NEW i \in Masters, NEW part \in {"budget", "contract", "criteria", "rest"},
           LoadPart(i, part)
    PROVE  /\ m' \in [Masters -> MasterRow] /\ OthersStay(i)
           /\ GateAfter(i, part) \in GateInput
           /\ m'[i] = [m[i] EXCEPT !.load = m[i].load \ {part},
                                   !.usage = IF part = "budget" THEN usage ELSE m[i].usage,
                                   !.gate = GateAfter(i, part)]
  <1>. DEFINE read == IF part = "budget" THEN usage ELSE m[i].usage
              row == [m[i] EXCEPT !.load = m[i].load \ {part}, !.usage = read,
                                  !.gate = GateAfter(i, part)]
  <1>1. Becomes(i, row)
    BY DEF LoadPart, Becomes, TypeOK, GateAfter
  <1>2. m[i] \in MasterRow
    BY DEF TypeOK
  <1>3. m[i].gate \in GateInput /\ project \in GateInput
    BY <1>2 DEF MasterRow, TypeOK
  <1>4. GateAfter(i, part) \in GateInput
    BY <1>3 DEF GateAfter, GateInput
  <1>5. read \in [tokens : Nat, usd : Nat]
    BY <1>2 DEF MasterRow, TypeOK
  <1>6. row \in MasterRow
    BY <1>2, <1>4, <1>5 DEF MasterRow
  <1>. HIDE DEF row
  <1>7. m'[i] = row /\ OthersStay(i) /\ m' \in [Masters -> MasterRow]
    BY <1>1, <1>6, BecomesTypes
  <1>. QED  BY <1>4, <1>7 DEF row

LEMMA ModelFailsRow ==
    ASSUME TypeOK, NEW i \in Masters, NEW transient \in BOOLEAN, ModelFails(i, transient)
    PROVE  \/ /\ m' \in [Masters -> MasterRow] /\ OthersStay(i)
              /\ m'[i] = [m[i] EXCEPT !.attempt = m[i].attempt + 1]
           \/ Conclude(i, "failed")
  <1>1. CASE transient /\ m[i].attempt + 1 < MaxAttempts
    <2>. DEFINE n == m[i].attempt + 1
                row == [m[i] EXCEPT !.attempt = n]
    <2>1. Becomes(i, row)
      BY <1>1 DEF ModelFails, Becomes, TypeOK
    <2>2. m[i] \in MasterRow
      BY DEF TypeOK
    <2>3. n \in Nat
      BY <2>2 DEF MasterRow
    <2>. HIDE DEF n
    <2>4. row \in MasterRow
      BY <2>2, <2>3 DEF MasterRow
    <2>. HIDE DEF row
    <2>5. m'[i] = row /\ OthersStay(i) /\ m' \in [Masters -> MasterRow]
      BY <2>1, <2>4, BecomesTypes
    <2>. QED  BY <2>5 DEF row, n
  <1>2. CASE ~(transient /\ m[i].attempt + 1 < MaxAttempts)
    BY <1>2 DEF ModelFails
  <1>. QED  BY <1>1, <1>2

Planning == {"CREATE_TASKS", "REPLAN"}
Enforced(i) ==
    IF m[i].decision.action = "FINISHED" /\ ~FinishedGate(m[i].gate)
      THEN "BLOCKED" ELSE m[i].decision.action

LEMMA DecideRow ==
    ASSUME TypeOK, NEW i \in Masters, Decide(i)
    PROVE  \/ /\ m' \in [Masters -> MasterRow] /\ OthersStay(i)
              /\ ValidDecision(m[i].decision)
              /\ m'[i] = [m[i] EXCEPT
                    !.pc = IF Enforced(i) \in Planning THEN "list" ELSE "row",
                    !.action = Enforced(i),
                    !.result = IF Enforced(i) = "BLOCKED" THEN "blocked" ELSE "completed"]
           \/ Conclude(i, "rejected")
  <1>1. CASE ValidDecision(m[i].decision)
    <2>. DEFINE pc == IF Enforced(i) \in Planning THEN "list" ELSE "row"
                result == IF Enforced(i) = "BLOCKED" THEN "blocked" ELSE "completed"
                row == [m[i] EXCEPT !.pc = pc, !.action = Enforced(i), !.result = result]
    <2>1. Becomes(i, row)
      BY <1>1 DEF Decide, Becomes, TypeOK, Enforced, Planning
    <2>2. m[i] \in MasterRow
      BY DEF TypeOK
    <2>3. m[i].decision \in Decisions \cup {NoDecision}
      BY <2>2 DEF MasterRow
    <2>4. Enforced(i) \in Actions
      BY <2>3, DecisionTypes DEF Enforced, Actions
    <2>5. pc \in PC /\ result \in {"completed", "blocked", "rejected", "failed"}
      BY DEF PC
    <2>. HIDE DEF pc, result
    <2>6. row \in MasterRow
      BY <2>2, <2>4, <2>5 DEF MasterRow
    <2>. HIDE DEF row
    <2>7. m'[i] = row /\ OthersStay(i) /\ m' \in [Masters -> MasterRow]
      BY <2>1, <2>6, BecomesTypes
    <2>. QED  BY <1>1, <2>7 DEF row, pc, result
  <1>2. CASE ~ValidDecision(m[i].decision)
    BY <1>2 DEF Decide
  <1>. QED  BY <1>1, <1>2

\* Bounded numbers have a largest one.
LEMMA LargestOf ==
    ASSUME NEW T, T \subseteq Nat, T # {}, NEW n \in Nat, \A k \in T : k <= n
    PROVE  Max(T) \in T /\ \A k \in T : k <= Max(T)
  <1>1. {n - k : k \in T} \subseteq Nat /\ {n - k : k \in T} # {}
    <2>1. \A k \in T : k \in Nat /\ n - k \in Nat
      OBVIOUS
    <2>. QED  BY <2>1
  <1>2. PICK s \in {n - k : k \in T} : \A r \in {n - k : k \in T} : s <= r
    BY <1>1, SmallestOf
  <1>3. PICK y \in T : s = n - y
    BY <1>2
  <1>4. \A k \in T : y >= k
    <2>1. \A k \in T : n - y <= n - k
      BY <1>2, <1>3
    <2>. QED  BY <2>1
  <1>5. Max(T) \in T /\ \A k \in T : Max(T) >= k
    BY <1>4 DEF Max
  <1>. QED  BY <1>5

\* The next proposal is one of those to create, and none of the others comes before it.
LEMMA NextKeyIsOne ==
    ASSUME TypeOK, NEW i \in Masters, ValidDecision(m[i].decision),
           m[i].todo \subseteq KeysOf(m[i].decision), m[i].todo # {}
    PROVE  /\ NextKey(i) \in m[i].todo
           /\ \A j \in m[i].todo \ {NextKey(i)} : PlacedBefore(m[i].decision, NextKey(i), j)
  <1>. DEFINE d == m[i].decision
              T == m[i].todo
              round == CHOOSE r \in Rounds(d) : TRUE
  <1>1. round \in Rounds(d)
    BY DEF ValidDecision
  <1>2. d.proposals \in Seq(ProposalRow)
    BY DecisionTypes DEF TypeOK, MasterRow
  <1>3. Len(d.proposals) \in Nat /\ DOMAIN d.proposals = 1 .. Len(d.proposals)
    BY <1>2
  <1>4. round \in [KeysOf(d) -> 1 .. Len(d.proposals)]
    BY <1>1 DEF Rounds
  <1>5. \A k \in KeysOf(d) : /\ Position(d, k) \in DOMAIN d.proposals
                             /\ d.proposals[Position(d, k)].key = k
    BY DEF KeysOf, Position
  <1>. HIDE DEF round
  <1>6. PICK r \in {round[k] : k \in T} : \A n \in {round[k] : k \in T} : r <= n
    <2>1. {round[k] : k \in T} \subseteq Nat /\ {round[k] : k \in T} # {}
      BY <1>3, <1>4
    <2>. QED  BY <2>1, SmallestOf
  <1>. DEFINE first == {k \in T : round[k] = r}
  <1>7. PICK p \in {Position(d, k) : k \in first} :
               \A n \in {Position(d, k) : k \in first} : p <= n
    <2>1. first # {}
      BY <1>6
    <2>2. {Position(d, k) : k \in first} \subseteq Nat /\ {Position(d, k) : k \in first} # {}
      BY <1>3, <1>5, <2>1
    <2>. HIDE DEF first
    <2>. QED  BY <2>2, SmallestOf
  <1>8. PICK k \in first : Position(d, k) = p
    BY <1>7
  <1>9. ASSUME NEW j \in T \ {k}
        PROVE  PlacedBefore(d, k, j)
    <2>1. round[k] = r /\ k \in KeysOf(d) /\ j \in KeysOf(d)
      BY <1>8
    <2>2. /\ round[k] \in Nat /\ round[j] \in Nat /\ r <= round[j]
      BY <1>3, <1>4, <1>6, <2>1
    <2>3. CASE round[k] < round[j]
      BY <2>3 DEF PlacedBefore, round
    <2>4. CASE round[k] = round[j]
      <3>1. j \in first
        BY <2>1, <2>4
      <3>2. Position(d, k) <= Position(d, j)
        BY <1>7, <1>8, <3>1
      <3>3. Position(d, k) # Position(d, j)
        BY <1>5, <2>1, <1>9
      <3>4. Position(d, k) \in Nat /\ Position(d, j) \in Nat
        BY <1>3, <1>5, <2>1
      <3>5. Position(d, k) < Position(d, j)
        BY <3>2, <3>3, <3>4
      <3>. QED  BY <2>4, <3>5 DEF PlacedBefore, round
    <2>. QED  BY <2>1, <2>2, <2>3, <2>4
  <1>10. k \in T /\ \A j \in T \ {k} : PlacedBefore(d, k, j)
    BY <1>8, <1>9
  <1>. QED  BY <1>10 DEF NextKey

\* The tasks that a new task depends on, in a form that no later definition takes apart.
DependsOn(i, p) == p.existing \o [j \in DOMAIN p.deps |-> <<i, p.deps[j]>>]

LEMMA DependsOnTypes ==
    ASSUME NEW i \in Masters, NEW p \in ProposalRow, ToSet(p.existing) \subseteq TaskIds
    PROVE  /\ DependsOn(i, p) \in Seq(TaskIds)
           /\ ToSet(DependsOn(i, p)) = ToSet(p.existing) \cup {<<i, k>> : k \in ToSet(p.deps)}
  <1>. DEFINE e == p.existing
              f == [j \in DOMAIN p.deps |-> <<i, p.deps[j]>>]
  <1>1. e \in Seq(TaskIds)
    <2>1. e \in Seq(TaskIds \cup UnknownIds)
      BY DEF ProposalRow
    <2>2. \A n \in 1 .. Len(e) : e[n] \in TaskIds
      BY <2>1 DEF ToSet
    <2>. QED  BY <2>1, <2>2
  <1>2. p.deps \in Seq(Keys)
    BY DEF ProposalRow
  <1>3. Len(p.deps) \in Nat /\ DOMAIN p.deps = 1 .. Len(p.deps)
    BY <1>2
  <1>4. \A j \in DOMAIN p.deps : p.deps[j] \in Keys
    BY <1>2
  <1>5. \A j \in 1 .. Len(p.deps) : <<i, p.deps[j]>> \in TaskIds
    BY <1>3, <1>4, ProjectTypes
  <1>6. f \in Seq(TaskIds) /\ Len(f) = Len(p.deps)
    BY <1>3, <1>5
  <1>7. DependsOn(i, p) = e \o f
    BY DEF DependsOn
  <1>8. ToSet(f) = {<<i, k>> : k \in ToSet(p.deps)}
    BY DEF ToSet
  <1>. HIDE DEF e, f
  <1>9. e \o f \in Seq(TaskIds) /\ ToSet(e \o f) = ToSet(e) \cup ToSet(f)
    <2>1. Len(e) \in Nat /\ Len(f) \in Nat /\ DOMAIN e = 1 .. Len(e) /\ DOMAIN f = 1 .. Len(f)
      BY <1>1, <1>6
    <2>2. e \o f \in Seq(TaskIds) /\ DOMAIN (e \o f) = 1 .. (Len(e) + Len(f))
      BY <1>1, <1>6
    <2>3. /\ \A n \in 1 .. Len(e) : (e \o f)[n] = e[n]
          /\ \A n \in 1 .. Len(f) : (e \o f)[n + Len(e)] = f[n]
      BY <1>1, <1>6
    <2>4. \A n \in 1 .. (Len(e) + Len(f)) :
             n \in 1 .. Len(e) \/ (n - Len(e) \in 1 .. Len(f) /\ (n - Len(e)) + Len(e) = n)
      BY <2>1
    <2>5. \A n \in 1 .. Len(f) : n + Len(e) \in 1 .. (Len(e) + Len(f))
      BY <2>1
    <2>6. \A n \in 1 .. Len(e) : n \in 1 .. (Len(e) + Len(f))
      BY <2>1
    <2>7. \A n \in 1 .. (Len(e) + Len(f)) : (e \o f)[n] \in ToSet(e) \cup ToSet(f)
      BY <2>1, <2>3, <2>4 DEF ToSet
    <2>8. ToSet(e) \cup ToSet(f) \subseteq ToSet(e \o f)
      BY <2>1, <2>2, <2>3, <2>5, <2>6 DEF ToSet
    <2>. QED  BY <2>2, <2>7, <2>8 DEF ToSet
  <1>. QED  BY <1>7, <1>8, <1>9 DEF e

\* How far a run has come, and what it has decided then.
Early == {"new", "load", "authorize", "call", "tokens", "dollars", "decide"}
Creating == {"list", "create", "depend", "setactive"}
Planned(i) ==
    /\ m[i].pc \in Early \cup {"list"} => m[i].todo = {}
    /\ m[i].pc \in Creating => /\ ValidDecision(m[i].decision)
                               /\ m[i].action \in Planning /\ m[i].result = "completed"
    /\ m[i].todo # {} => /\ ValidDecision(m[i].decision)
                         /\ m[i].todo \subseteq KeysOf(m[i].decision)
    /\ m[i].pc = "depend" => m[i].task \in NewTasks

TypeInv == TypeOK /\ \A i \in Masters : Planned(i)

NewTask(i) == <<i, NextKey(i)>>
NewProposal(i) == Proposal(m[i].decision, NextKey(i))

LEMMA CreateTaskRow ==
    ASSUME TypeInv, NEW i \in Masters, CreateTask(i)
    PROVE  /\ NextKey(i) \in m[i].todo /\ NextKey(i) \in KeysOf(m[i].decision)
           /\ NewProposal(i) \in ProposalRow /\ NewTask(i) \in NewTasks
           /\ \/ /\ m' \in [Masters -> MasterRow] /\ OthersStay(i)
                 /\ m'[i] = [m[i] EXCEPT !.pc = "depend", !.todo = m[i].todo \ {NextKey(i)},
                               !.task = NewTask(i), !.known = m[i].known \cup {NewTask(i)},
                               !.deps = DependsOn(i, NewProposal(i))]
                 /\ tasks' = [tasks EXCEPT ![NewTask(i)] = "open"]
                 /\ ToSet(NewProposal(i).existing) \subseteq m[i].known
              \/ Conclude(i, "rejected") /\ tasks' = tasks
  <1>. DEFINE d == m[i].decision
              k == NextKey(i)
              t == NewTask(i)
              p == NewProposal(i)
  <1>1. TypeOK /\ m[i] \in MasterRow /\ ValidDecision(d) /\ m[i].todo \subseteq KeysOf(d)
        /\ m[i].todo # {}
    BY DEF TypeInv, TypeOK, Planned, CreateTask
  <1>2. k \in m[i].todo /\ k \in KeysOf(d)
    BY <1>1, NextKeyIsOne
  <1>3. d \in Decisions \cup {NoDecision}
    BY <1>1 DEF MasterRow
  <1>4. p \in ProposalRow /\ p.key = k
    BY <1>2, <1>3, DecisionTypes DEF NewProposal
  <1>5. k \in Keys
    BY <1>2, <1>3, DecisionTypes
  <1>6. t \in NewTasks /\ t \in TaskIds
    BY <1>5, ProjectTypes DEF NewTask
  <1>7. CASE ToSet(p.existing) \subseteq m[i].known
    <2>. DEFINE todo == m[i].todo \ {k}
                known == m[i].known \cup {t}
                deps == DependsOn(i, p)
                row == [m[i] EXCEPT !.pc = "depend", !.todo = todo, !.task = t,
                                    !.known = known, !.deps = deps]
    <2>1. Becomes(i, row) /\ tasks' = [tasks EXCEPT ![t] = "open"]
      <3>1. /\ tasks' = [tasks EXCEPT ![<<i, p.key>>] = "open"]
            /\ m' = [m EXCEPT ![i].pc = "depend", ![i].todo = @ \ {p.key}, ![i].task = <<i, p.key>>,
                              ![i].known = @ \cup {<<i, p.key>>}, ![i].deps = DependsOn(i, p)]
        BY <1>7 DEF CreateTask, DependsOn, NewProposal
      <3>2. t = <<i, p.key>> /\ p.key = k
        BY <1>4 DEF NewTask
      <3>3. m \in [Masters -> MasterRow]
        BY <1>1 DEF TypeOK
      <3>. HIDE DEF p, t, k
      <3>. QED  BY <3>1, <3>2, <3>3 DEF Becomes
    <2>2. ToSet(p.existing) \subseteq TaskIds
      BY <1>1, <1>7 DEF MasterRow
    <2>3. deps \in Seq(TaskIds)
      BY <1>4, <2>2, DependsOnTypes
    <2>4. todo \subseteq Keys /\ known \subseteq TaskIds /\ "depend" \in PC
      BY <1>1, <1>6 DEF MasterRow, PC
    <2>. HIDE DEF todo, known, deps, t
    <2>5. row \in MasterRow
      BY <1>1, <1>6, <2>3, <2>4 DEF MasterRow
    <2>. HIDE DEF row
    <2>6. m'[i] = row /\ OthersStay(i) /\ m' \in [Masters -> MasterRow]
      BY <1>1, <2>1, <2>5, BecomesTypes
    <2>. QED  BY <1>2, <1>4, <1>6, <1>7, <2>1, <2>6 DEF row, todo, known, deps, t
  <1>8. CASE ~(ToSet(p.existing) \subseteq m[i].known)
    BY <1>2, <1>4, <1>6, <1>8 DEF CreateTask, NewProposal
  <1>. QED  BY <1>7, <1>8

LEMMA AddDependencyRow ==
    ASSUME TypeInv, NEW i \in Masters, AddDependency(i)
    PROVE  \/ m[i].deps = <<>> /\ Goto(i, "create") /\ depRows' = depRows
           \/ Conclude(i, "rejected") /\ depRows' = depRows
           \/ /\ m[i].deps # <<>>
              /\ <<m[i].task, Head(m[i].deps)>> \in TaskIds \X TaskIds
              /\ depRows' = depRows \cup {<<m[i].task, Head(m[i].deps)>>}
              /\ m' \in [Masters -> MasterRow] /\ OthersStay(i)
              /\ m'[i] = [m[i] EXCEPT !.deps = Tail(m[i].deps)]
  <1>. DEFINE new == <<m[i].task, Head(m[i].deps)>>
  <1>1. CASE m[i].deps = <<>>
    BY <1>1 DEF AddDependency
  <1>2. CASE m[i].deps # <<>> /\ new \in depRows
    BY <1>2 DEF AddDependency
  <1>3. CASE m[i].deps # <<>> /\ new \notin depRows
    <2>. DEFINE deps == Tail(m[i].deps)
                row == [m[i] EXCEPT !.deps = deps]
    <2>1. TypeOK /\ m[i] \in MasterRow /\ m[i].task \in NewTasks
      BY DEF TypeInv, TypeOK, Planned, AddDependency, At
    <2>2. Becomes(i, row) /\ depRows' = depRows \cup {new}
      BY <1>3, <2>1 DEF AddDependency, Becomes, TypeOK
    <2>3. m[i].deps \in Seq(TaskIds)
      BY <2>1 DEF MasterRow
    <2>4. deps \in Seq(TaskIds) /\ Head(m[i].deps) \in TaskIds
      BY <1>3, <2>3
    <2>5. m[i].task \in TaskIds
      BY <2>1 DEF TaskIds
    <2>. HIDE DEF deps
    <2>6. row \in MasterRow
      BY <2>1, <2>4 DEF MasterRow
    <2>. HIDE DEF row
    <2>7. m'[i] = row /\ OthersStay(i) /\ m' \in [Masters -> MasterRow]
      BY <2>1, <2>2, <2>6, BecomesTypes
    <2>. QED  BY <1>3, <2>2, <2>4, <2>5, <2>7 DEF row, deps
  <1>. QED  BY <1>1, <1>2, <1>3

\* The rows of the runs, after a step of one of them.
LEMMA RowsStep ==
    ASSUME TypeInv, NEW i \in Masters, MasterStep(i)
    PROVE  m' \in [Masters -> MasterRow] /\ OthersStay(i)
  <1>1. TypeOK
    BY DEF TypeInv
  <1>2. ASSUME NEW pc \in PC, Goto(i, pc)
        PROVE  m' \in [Masters -> MasterRow] /\ OthersStay(i)
    BY <1>1, <1>2, GoingTypes
  <1>3. ASSUME NEW r \in {"blocked", "rejected", "failed"}, Conclude(i, r)
        PROVE  m' \in [Masters -> MasterRow] /\ OthersStay(i)
    BY <1>1, <1>3, ConcludingTypes
  <1>4. CASE Start(i) \/ LoadState(i) \/ ListTasks(i) \/ SyncRead(i) \/ EnqueueRead(i)
    BY <1>1, <1>4, StartRow, LoadStateRow, ListTasksRow, SyncReadRow, EnqueueReadRow
  <1>5. CASE InsertState(i)
    BY <1>1, <1>5, InsertStateRow
  <1>6. CASE Loaded(i)
    BY <1>2, <1>6 DEF Loaded, PC
  <1>7. CASE Authorize(i)
    BY <1>2, <1>3, <1>7 DEF Authorize, PC
  <1>8. CASE \E part \in {"budget", "contract", "criteria", "rest"} : LoadPart(i, part)
    BY <1>1, <1>8, LoadPartRow
  <1>9. CASE \E d \in Decisions, u \in Usages : ModelAnswers(i, d, u)
    BY <1>1, <1>9, ModelAnswersRow
  <1>10. CASE \E transient \in BOOLEAN : ModelFails(i, transient)
    BY <1>1, <1>3, <1>10, ModelFailsRow
  <1>11. CASE RecordTokens(i)
    BY <1>2, <1>11 DEF RecordTokens, PC
  <1>12. CASE RecordDollars(i)
    BY <1>2, <1>12 DEF RecordDollars, PC
  <1>13. CASE Decide(i)
    BY <1>1, <1>3, <1>13, DecideRow
  <1>14. CASE CreateTask(i)
    BY <1>3, <1>14, CreateTaskRow
  <1>15. CASE AddDependency(i)
    BY <1>2, <1>3, <1>15, AddDependencyRow DEF PC
  <1>16. CASE SetActive(i)
    BY <1>2, <1>16 DEF SetActive, PC
  <1>17. CASE WriteRow(i)
    BY <1>2, <1>17 DEF WriteRow, PC
  <1>18. CASE UpdatePhase(i)
    BY <1>2, <1>18 DEF UpdatePhase, PC
  <1>19. CASE EnqueueWrite(i)
    BY <1>2, <1>19 DEF EnqueueWrite, PC
  <1>. QED
    BY <1>4, <1>5, <1>6, <1>7, <1>8, <1>9, <1>10, <1>11, <1>12, <1>13, <1>14, <1>15, <1>16,
       <1>17, <1>18, <1>19 DEF MasterStep

LEMMA OverlapTypes ==
    {s.overlap : s \in Scenes} \subseteq Nat \ {0} /\ MaxChanges \in Nat /\ MaxVersions \in Nat
  BY MasterAssumption, ScenesAssumption

\* What a run could read while it was loading, after a step of it.
LEMMA SeenStep ==
    ASSUME TypeOK, NEW i \in Masters, MasterStep(i)
    PROVE  /\ seen' \in [Masters -> SUBSET GateInput]
           /\ \A j \in Masters : j # i => seen'[j] = seen[j]
           /\ \/ Start(i) /\ seen'[i] = {project}
              \/ Decide(i) /\ seen'[i] \in {seen[i], {}}
                 /\ (ValidDecision(m[i].decision) /\ Enforced(i) = "FINISHED" => seen'[i] = seen[i])
              \/ ~Start(i) /\ ~Decide(i) /\ seen' = seen
  <1>1. seen \in [Masters -> SUBSET GateInput] /\ project \in GateInput
    BY DEF TypeOK
  <1>2. CASE Start(i)
    <2>1. seen' = [seen EXCEPT ![i] = {project}]
      BY <1>2 DEF Start
    <2>. QED  BY <1>1, <1>2, <2>1
  <1>3. CASE Decide(i)
    <2>1. seen' = [seen EXCEPT ![i] = IF ValidDecision(m[i].decision) /\ Enforced(i) = "FINISHED"
                                        THEN seen[i] ELSE {}]
      BY <1>1, <1>3 DEF Decide, Enforced
    <2>. QED  BY <1>1, <1>3, <2>1
  <1>4. CASE ~Start(i) /\ ~Decide(i)
    <2>1. seen' = seen
      BY <1>4 DEF MasterStep, LoadState, InsertState, Loaded, Authorize, LoadPart, ModelAnswers,
           ModelFails, RecordTokens, RecordDollars, ListTasks, CreateTask, AddDependency,
           SyncRead, SetActive, WriteRow, UpdatePhase, EnqueueRead, EnqueueWrite
    <2>. QED  BY <1>1, <1>4, <2>1
  <1>. QED  BY <1>2, <1>3, <1>4

\* The tables, after a step of a run.
LEMMA TablesStep ==
    ASSUME TypeInv, NEW i \in Masters, MasterStep(i)
    PROVE  /\ state' \in StateRow /\ inbox' \subseteq Masters
           /\ tasks' \in [TaskIds -> {"absent", "open", "terminal"}]
           /\ depRows' \subseteq (TaskIds \X TaskIds)
           /\ usage' \in [tokens : Nat, usd : Nat]
           /\ project' = project /\ overlap' = overlap /\ changes' = changes
           /\ rows' \in [Masters -> RunRow]
  <1>1. TypeOK /\ m[i] \in MasterRow
    BY DEF TypeInv, TypeOK
  <1>2. project' = project /\ overlap' = overlap /\ changes' = changes
    BY DEF MasterStep, Start, LoadState, InsertState, Loaded, Authorize, LoadPart, ModelAnswers,
           ModelFails, RecordTokens, RecordDollars, Decide, ListTasks, CreateTask, AddDependency,
           SyncRead, SetActive, WriteRow, UpdatePhase, EnqueueRead, EnqueueWrite
  <1>3. CASE Start(i) \/ LoadState(i) \/ Loaded(i) \/ Authorize(i) \/ Decide(i)
             \/ (\E part \in {"budget", "contract", "criteria", "rest"} : LoadPart(i, part))
             \/ (\E d \in Decisions, u \in Usages : ModelAnswers(i, d, u))
             \/ (\E transient \in BOOLEAN : ModelFails(i, transient))
             \/ ListTasks(i) \/ SyncRead(i) \/ EnqueueRead(i)
    <2>1. UNCHANGED <<state, inbox, tasks, depRows, usage, rows>>
      BY <1>3 DEF Start, LoadState, Loaded, Authorize, LoadPart, ModelAnswers,
           ModelFails, Decide, ListTasks, SyncRead, EnqueueRead
    <2>. QED  BY <1>1, <1>2, <2>1 DEF TypeOK
  <1>4. CASE InsertState(i) \/ SetActive(i) \/ UpdatePhase(i) \/ EnqueueWrite(i)
    <2>1. UNCHANGED <<tasks, depRows, usage, rows>>
      BY <1>4 DEF InsertState, SetActive, UpdatePhase, EnqueueWrite
    <2>2. inbox' \subseteq Masters
      BY <1>1, <1>4 DEF InsertState, SetActive, UpdatePhase, EnqueueWrite, TypeOK
    <2>3. state' \in StateRow
      <3>1. state \in StateRow
        BY <1>1 DEF TypeOK
      <3>2. CASE InsertState(i)
        BY <3>1, <3>2 DEF InsertState, StateRow
      <3>3. CASE SetActive(i)
        BY <1>1, <3>1, <3>3 DEF SetActive, StateRow, MasterRow
      <3>4. CASE UpdatePhase(i)
        <4>. DEFINE phase == IF m[i].result = "failed" THEN "failed" ELSE Phase(m[i].action)
        <4>1. m[i].action \in Actions
          BY <1>1 DEF MasterRow
        <4>2. phase \in {"initializing", "planning", "executing", "verifying", "paused",
                         "accepting", "completed", "failed"}
          BY <4>1 DEF Phase, Actions
        <4>3. state' = [state EXCEPT !.phase = phase]
          BY <3>4 DEF UpdatePhase
        <4>. HIDE DEF phase
        <4>. QED  BY <3>1, <4>2, <4>3 DEF StateRow
      <3>5. CASE EnqueueWrite(i)
        BY <1>1, <3>1, <3>5 DEF EnqueueWrite, StateRow, MasterRow
      <3>. QED  BY <1>4, <3>2, <3>3, <3>4, <3>5
    <2>. QED  BY <1>1, <1>2, <2>1, <2>2, <2>3 DEF TypeOK
  <1>5. CASE RecordTokens(i) \/ RecordDollars(i)
    <2>1. UNCHANGED <<state, inbox, tasks, depRows, rows>>
      BY <1>5 DEF RecordTokens, RecordDollars
    <2>2. usage \in [tokens : Nat, usd : Nat] /\ m[i].used \in [tokens : Nat, usd : Nat]
      BY <1>1 DEF TypeOK, MasterRow
    <2>3. usage' \in [tokens : Nat, usd : Nat]
      BY <1>5, <2>2 DEF RecordTokens, RecordDollars
    <2>. QED  BY <1>1, <1>2, <2>1, <2>3 DEF TypeOK
  <1>6. CASE CreateTask(i)
    <2>1. UNCHANGED <<state, inbox, depRows, usage, rows>>
      BY <1>6 DEF CreateTask
    <2>2. tasks' \in [TaskIds -> {"absent", "open", "terminal"}]
      BY <1>1, <1>6, CreateTaskRow DEF TypeOK
    <2>. QED  BY <1>1, <1>2, <2>1, <2>2 DEF TypeOK
  <1>7. CASE AddDependency(i)
    <2>1. UNCHANGED <<state, inbox, tasks, usage, rows>>
      BY <1>7 DEF AddDependency
    <2>2. depRows' \subseteq (TaskIds \X TaskIds)
      BY <1>1, <1>7, AddDependencyRow DEF TypeOK
    <2>. QED  BY <1>1, <1>2, <2>1, <2>2 DEF TypeOK
  <1>8. CASE WriteRow(i)
    <2>1. UNCHANGED <<state, inbox, tasks, depRows, usage>>
      BY <1>8 DEF WriteRow
    <2>2. Created(i) \subseteq NewTasks
      BY DEF Created
    <2>. DEFINE made == IF m[i].action \in {"CREATE_TASKS", "REPLAN"} THEN Created(i) ELSE {}
                row == [status |-> m[i].result, action |-> m[i].action, created |-> made]
    <2>3. made \subseteq NewTasks
      BY <2>2
    <2>4. rows' = [rows EXCEPT ![i] = row]
      BY <1>8 DEF WriteRow
    <2>. HIDE DEF made
    <2>5. row \in RunRow
      BY <1>1, <2>3 DEF RunRow, MasterRow
    <2>6. rows' \in [Masters -> RunRow]
      BY <1>1, <2>4, <2>5 DEF TypeOK
    <2>. QED  BY <1>1, <1>2, <2>1, <2>6 DEF TypeOK
  <1>. QED  BY <1>3, <1>4, <1>5, <1>6, <1>7, <1>8 DEF MasterStep

LEMMA PlannedStep ==
    ASSUME TypeInv, NEW i \in Masters, MasterStep(i)
    PROVE  \A j \in Masters : Planned(j)'
  <1>1. TypeOK /\ m[i] \in MasterRow /\ Planned(i)
    BY DEF TypeInv, TypeOK
  <1>2. \A j \in Masters : j # i => Planned(j)'
    BY RowsStep DEF OthersStay, TypeInv, Planned
  <1>. SUFFICES Planned(i)'
    BY <1>2
  <1>3. ASSUME NEW pc \in PC, Goto(i, pc),
               pc \in Early \cup {"list"} => m[i].todo = {},
               pc \in Creating => m[i].pc \in Creating,
               pc = "depend" => m[i].pc = "depend"
        PROVE  Planned(i)'
    <2>1. m'[i] = [m[i] EXCEPT !.pc = pc]
      BY <1>1, <1>3, GoingTypes
    <2>. QED  BY <1>1, <1>3, <2>1 DEF Planned, MasterRow
  <1>4. ASSUME NEW r \in {"blocked", "rejected", "failed"}, Conclude(i, r)
        PROVE  Planned(i)'
    <2>1. m'[i] = [m[i] EXCEPT !.pc = "row", !.action = "BLOCKED", !.result = r]
      BY <1>1, <1>4, ConcludingTypes
    <2>. QED  BY <1>1, <2>1 DEF Planned, MasterRow, Early, Creating
  <1>5. CASE Start(i)
    <2>1. m'[i] = [m[i] EXCEPT !.pc = "load", !.load = Parts \ {"insert"}]
      BY <1>1, <1>5, StartRow
    <2>2. m'[i].pc = "load" /\ m'[i].todo = m[i].todo /\ m'[i].decision = m[i].decision
          /\ m'[i].action = m[i].action /\ m'[i].result = m[i].result
      BY <1>1, <2>1 DEF MasterRow
    <2>. QED  BY <1>1, <1>5, <2>2 DEF Start, At, Planned, Early, Creating
  <1>6. CASE LoadState(i)
    BY <1>1, <1>6, LoadStateRow DEF LoadState, At, Planned, MasterRow, Early, Creating
  <1>7. CASE InsertState(i)
    <2>1. \/ m'[i] = [m[i] EXCEPT !.pc = "error"]
          \/ m'[i] = [m[i] EXCEPT !.load = m[i].load \ {"insert"}]
      BY <1>1, <1>7, InsertStateRow
    <2>2. m[i].pc = "load"
      BY <1>7 DEF InsertState, At
    <2>. QED  BY <1>1, <2>1, <2>2 DEF Planned, MasterRow, Early, Creating
  <1>8. CASE Loaded(i)
    BY <1>1, <1>3, <1>8 DEF Loaded, At, PC, Early, Creating, Planned
  <1>9. CASE Authorize(i)
    BY <1>1, <1>3, <1>4, <1>9 DEF Authorize, At, PC, Early, Creating, Planned
  <1>10. CASE \E part \in {"budget", "contract", "criteria", "rest"} : LoadPart(i, part)
    <2>1. PICK part \in {"budget", "contract", "criteria", "rest"} : LoadPart(i, part)
      BY <1>10
    <2>2. m[i].pc = "load"
      BY <2>1 DEF LoadPart, At
    <2>3. m'[i] = [m[i] EXCEPT !.load = m[i].load \ {part},
                               !.usage = IF part = "budget" THEN usage ELSE m[i].usage,
                               !.gate = GateAfter(i, part)]
      BY <1>1, <2>1, LoadPartRow
    <2>4. /\ m'[i].pc = m[i].pc /\ m'[i].todo = m[i].todo
      BY <1>1, <2>3 DEF MasterRow
    <2>. QED  BY <1>1, <2>2, <2>4 DEF Planned, Early, Creating
  <1>11. CASE \E d \in Decisions, u \in Usages : ModelAnswers(i, d, u)
    <2>1. PICK d \in Decisions, u \in Usages : ModelAnswers(i, d, u)
      BY <1>11
    <2>2. m[i].pc = "call"
      BY <2>1 DEF ModelAnswers, At
    <2>3. m'[i] = Answered(i, d, u)
      BY <1>1, <2>1, ModelAnswersRow
    <2>4. m'[i].pc = "tokens" /\ m'[i].todo = m[i].todo
      BY <1>1, <2>3 DEF MasterRow, Answered
    <2>. QED  BY <1>1, <2>2, <2>4 DEF Planned, Early, Creating
  <1>12. CASE \E transient \in BOOLEAN : ModelFails(i, transient)
    <2>1. CASE \E r \in {"failed"} : Conclude(i, r)
      BY <1>4, <2>1
    <2>2. CASE m'[i] = [m[i] EXCEPT !.attempt = m[i].attempt + 1]
      BY <1>1, <1>12, <2>2 DEF ModelFails, At, Planned, MasterRow, Early, Creating
    <2>. QED  BY <1>1, <1>12, <2>1, <2>2, ModelFailsRow
  <1>13. CASE RecordTokens(i)
    BY <1>1, <1>3, <1>13 DEF RecordTokens, At, PC, Early, Creating, Planned
  <1>14. CASE RecordDollars(i)
    BY <1>1, <1>3, <1>14 DEF RecordDollars, At, PC, Early, Creating, Planned
  <1>15. CASE Decide(i)
    <2>1. CASE Conclude(i, "rejected")
      BY <1>4, <2>1
    <2>2. CASE ~Conclude(i, "rejected")
      <3>1. /\ ValidDecision(m[i].decision)
            /\ m'[i] = [m[i] EXCEPT
                  !.pc = IF Enforced(i) \in Planning THEN "list" ELSE "row",
                  !.action = Enforced(i),
                  !.result = IF Enforced(i) = "BLOCKED" THEN "blocked" ELSE "completed"]
        BY <1>1, <1>15, <2>2, DecideRow
      <3>2. m[i].todo = {}
        BY <1>1, <1>15 DEF Decide, At, Planned, Early
      <3>3. /\ m'[i].todo = {} /\ m'[i].decision = m[i].decision /\ m'[i].action = Enforced(i)
            /\ m'[i].pc = IF Enforced(i) \in Planning THEN "list" ELSE "row"
            /\ m'[i].result = IF Enforced(i) = "BLOCKED" THEN "blocked" ELSE "completed"
        BY <1>1, <3>1, <3>2 DEF MasterRow
      <3>. QED  BY <3>1, <3>3 DEF Planned, Early, Creating, Planning
    <2>. QED  BY <2>1, <2>2
  <1>16. CASE ListTasks(i)
    <2>1. m'[i] = [m[i] EXCEPT !.pc = "create", !.todo = KeysOf(m[i].decision),
                               !.known = {t \in TaskIds : tasks[t] # "absent"}]
      BY <1>1, <1>16, ListTasksRow
    <2>2. /\ m'[i].pc = "create" /\ m'[i].todo = KeysOf(m[i].decision)
          /\ m'[i].decision = m[i].decision
          /\ m'[i].action = m[i].action /\ m'[i].result = m[i].result
      BY <1>1, <2>1 DEF MasterRow
    <2>. QED  BY <1>1, <1>16, <2>2 DEF ListTasks, At, Planned, Early, Creating
  <1>17. CASE CreateTask(i)
    <2>1. CASE Conclude(i, "rejected")
      BY <1>4, <2>1
    <2>2. CASE ~Conclude(i, "rejected")
      <3>1. /\ NewTask(i) \in NewTasks
            /\ m'[i] = [m[i] EXCEPT !.pc = "depend", !.todo = m[i].todo \ {NextKey(i)},
                               !.task = NewTask(i), !.known = m[i].known \cup {NewTask(i)},
                               !.deps = DependsOn(i, NewProposal(i))]
        BY <1>17, <2>2, CreateTaskRow
      <3>2. /\ m'[i].todo = m[i].todo \ {NextKey(i)} /\ m'[i].decision = m[i].decision
            /\ m'[i].action = m[i].action /\ m'[i].result = m[i].result
            /\ m'[i].pc = "depend" /\ m'[i].task = NewTask(i)
        BY <1>1, <3>1 DEF MasterRow
      <3>3. m[i].pc = "create"
        BY <1>17 DEF CreateTask, At
      <3>. QED  BY <1>1, <3>1, <3>2, <3>3 DEF Planned, Early, Creating
    <2>. QED  BY <2>1, <2>2
  <1>18. CASE AddDependency(i)
    <2>1. CASE Conclude(i, "rejected")
      BY <1>4, <2>1
    <2>2. CASE Goto(i, "create")
      BY <1>1, <1>3, <1>18, <2>2 DEF AddDependency, At, PC, Early, Creating
    <2>3. CASE m'[i] = [m[i] EXCEPT !.deps = Tail(m[i].deps)]
      BY <1>1, <1>18, <2>3 DEF AddDependency, At, Planned, MasterRow, Early, Creating
    <2>. QED  BY <1>18, <2>1, <2>2, <2>3, AddDependencyRow
  <1>19. CASE SyncRead(i)
    <2>1. m'[i] = [m[i] EXCEPT !.pc = "setactive",
                               !.active = NextActive(state.active, Created(i))]
      BY <1>1, <1>19, SyncReadRow
    <2>2. m'[i].pc = "setactive" /\ m'[i].todo = m[i].todo /\ m'[i].decision = m[i].decision
          /\ m'[i].action = m[i].action /\ m'[i].result = m[i].result
      BY <1>1, <2>1 DEF MasterRow
    <2>. QED  BY <1>1, <1>19, <2>2 DEF SyncRead, At, Planned, Early, Creating
  <1>20. CASE SetActive(i)
    BY <1>1, <1>3, <1>20 DEF SetActive, At, PC, Early, Creating
  <1>21. CASE WriteRow(i)
    BY <1>1, <1>3, <1>21 DEF WriteRow, At, PC, Early, Creating
  <1>22. CASE UpdatePhase(i)
    BY <1>1, <1>3, <1>22 DEF UpdatePhase, At, PC, Early, Creating
  <1>23. CASE EnqueueRead(i)
    <2>1. m'[i] = [m[i] EXCEPT !.pc = "inbox", !.ids = state.inbox]
      BY <1>1, <1>23, EnqueueReadRow
    <2>2. m'[i].pc = "inbox" /\ m'[i].todo = m[i].todo /\ m'[i].decision = m[i].decision
          /\ m'[i].action = m[i].action /\ m'[i].result = m[i].result
      BY <1>1, <2>1 DEF MasterRow
    <2>. QED  BY <1>1, <1>23, <2>2 DEF EnqueueRead, At, Planned, Early, Creating
  <1>24. CASE EnqueueWrite(i)
    BY <1>1, <1>3, <1>24 DEF EnqueueWrite, At, PC, Early, Creating
  <1>. QED
    BY <1>5, <1>6, <1>7, <1>8, <1>9, <1>10, <1>11, <1>12, <1>13, <1>14, <1>15, <1>16,
       <1>17, <1>18, <1>19, <1>20, <1>21, <1>22, <1>23, <1>24 DEF MasterStep

\* What the project does on its own; a run that is loading may read what it becomes.
MayRead(i) ==
    /\ seen[i] \subseteq seen'[i]
    /\ m[i].pc # "load" => seen'[i] = seen[i]
    /\ m[i].pc = "load" => project' \in seen'[i] \/ project' = project

LEMMA ProjectStepTypes ==
    ASSUME TypeOK, ProjectStep
    PROVE  /\ TypeOK'
           /\ UNCHANGED <<state, inbox, depRows, usage, rows, m, overlap>>
           /\ \/ tasks' = tasks
              \/ /\ project' = project
                 /\ \E t \in TaskIds : tasks[t] = "open"
                                       /\ tasks' = [tasks EXCEPT ![t] = "terminal"]
           /\ \A i \in Masters : MayRead(i)
  <1>1. project \in GateInput /\ changes \in 0 .. MaxChanges /\ MaxChanges \in Nat
        /\ MaxVersions \in Nat /\ seen \in [Masters -> SUBSET GateInput]
    BY OverlapTypes DEF TypeOK
  <1>. DEFINE Goal ==
           \/ /\ UNCHANGED <<state, inbox, tasks, depRows, usage, rows, m, overlap>>
              /\ project' \in GateInput /\ changes' \in 0 .. MaxChanges
              /\ seen' \in [Masters -> SUBSET GateInput]
              /\ \A i \in Masters : MayRead(i)
           \/ \E t \in TaskIds : EndTask(t)
  <1>2. ASSUME NEW p \in GateInput, Change(p)
        PROVE  Goal
    <2>1. /\ UNCHANGED <<state, inbox, tasks, depRows, usage, rows, m, overlap>>
          /\ project' = p /\ changes' \in 0 .. MaxChanges
          /\ seen' = [i \in Masters |-> IF At(i, "load") THEN seen[i] \cup {p} ELSE seen[i]]
      BY <1>1, <1>2 DEF Change
    <2>2. seen' \in [Masters -> SUBSET GateInput]
      BY <1>1, <2>1
    <2>3. ASSUME NEW i \in Masters  PROVE MayRead(i)
      BY <2>1 DEF MayRead, At
    <2>. QED  BY <2>1, <2>2, <2>3
  <1>. SUFFICES Goal
    <2>1. CASE \E t \in TaskIds : EndTask(t)
      <3>1. PICK t \in TaskIds : EndTask(t)
        BY <2>1
      <3>2. /\ tasks[t] = "open" /\ tasks' = [tasks EXCEPT ![t] = "terminal"]
            /\ UNCHANGED <<state, inbox, depRows, usage, project, rows, m, overlap, seen>>
            /\ changes' \in 0 .. MaxChanges
        BY <1>1, <3>1 DEF EndTask
      <3>3. TypeOK'
        BY <3>2 DEF TypeOK
      <3>. QED  BY <3>2, <3>3 DEF MayRead
    <2>2. CASE ~ \E t \in TaskIds : EndTask(t)
      BY <2>2 DEF TypeOK
    <2>. QED  BY <2>1, <2>2
  <1>3. CASE PostContract
    <2>1. [project EXCEPT !.contract = project.contract + 1] \in GateInput
      BY <1>1, <1>3 DEF PostContract, GateInput
    <2>. QED  BY <1>2, <1>3, <2>1 DEF PostContract
  <1>4. ASSUME NEW v \in 1 .. MaxVersions, NEW s \in {"pending", "PASS"},
               Change([project EXCEPT !.criterion[v] = s])
        PROVE  Goal
    <2>. DEFINE c == [project.criterion EXCEPT ![v] = s]
    <2>1. c \in [1 .. MaxVersions -> {"absent", "pending", "PASS"}]
      BY <1>1 DEF GateInput
    <2>2. [project EXCEPT !.criterion = c] = [project EXCEPT !.criterion[v] = s]
      BY <1>1 DEF GateInput
    <2>. HIDE DEF c
    <2>3. [project EXCEPT !.criterion = c] \in GateInput
      BY <1>1, <2>1 DEF GateInput
    <2>. QED  BY <1>2, <1>4, <2>2, <2>3
  <1>5. CASE PostCriterion
    <2>1. project.contract \in 1 .. MaxVersions
      BY <1>1, <1>5 DEF PostCriterion, GateInput
    <2>. QED  BY <1>4, <1>5, <2>1 DEF PostCriterion
  <1>6. CASE \E v \in 1 .. MaxVersions, s \in {"pending", "PASS"} : UpdateCriterion(v, s)
    BY <1>4, <1>6 DEF UpdateCriterion
  <1>7. CASE Verified
    <2>1. [project EXCEPT !.verified = TRUE] \in GateInput
      BY <1>1 DEF GateInput
    <2>. QED  BY <1>2, <1>7, <2>1 DEF Verified
  <1>8. CASE AddEvidence
    <2>1. [project EXCEPT !.evidence = TRUE] \in GateInput
      BY <1>1 DEF GateInput
    <2>. QED  BY <1>2, <1>8, <2>1 DEF AddEvidence
  <1>9. CASE \E b \in BOOLEAN : SetBlocked(b)
    <2>1. \A b \in BOOLEAN : [project EXCEPT !.blocked = b] \in GateInput
      BY <1>1 DEF GateInput
    <2>. QED  BY <1>2, <1>9, <2>1 DEF SetBlocked
  <1>10. CASE \E o \in {"PASS", "FAIL"} : Regression(o)
    <2>1. \A o \in {"PASS", "FAIL"} : [project EXCEPT !.regression = o] \in GateInput
      BY <1>1 DEF GateInput
    <2>. QED  BY <1>2, <1>10, <2>1 DEF Regression
  <1>. QED
    BY <1>3, <1>5, <1>6, <1>7, <1>8, <1>9, <1>10 DEF ProjectStep

LEMMA TypeInvStep == TypeInv /\ [Next]_vars => TypeInv'
  <1>. SUFFICES ASSUME TypeInv, [Next]_vars  PROVE TypeInv'
    OBVIOUS
  <1>1. CASE \E i \in Masters : MasterStep(i)
    <2>1. PICK i \in Masters : MasterStep(i)
      BY <1>1
    <2>2. TypeOK'
      BY <2>1, RowsStep, TablesStep, SeenStep DEF TypeInv, TypeOK
    <2>. QED  BY <2>1, <2>2, PlannedStep DEF TypeInv
  <1>2. CASE ProjectStep
    <2>1. TypeOK' /\ m' = m
      BY <1>2, ProjectStepTypes DEF TypeInv
    <2>. QED  BY <2>1 DEF TypeInv, Planned
  <1>3. CASE UNCHANGED vars
    BY <1>3 DEF TypeInv, TypeOK, Planned, vars
  <1>. QED  BY <1>1, <1>2, <1>3 DEF Next

LEMMA TypeInvInit == Init => TypeInv
  <1>. SUFFICES ASSUME Init  PROVE TypeInv
    OBVIOUS
  <1>1. \A i \in Masters : m[i].pc = "new" /\ m[i].todo = {}
    BY DEF Init
  <1>. QED  BY <1>1, TypesInit DEF TypeInv, Planned, Creating

\* Every variable has its type, whatever the model answers (TypeOK); what keeps the
\* sequence of ids to add well formed is that no decision with a cycle, or with a
\* dependency outside it, is ever acted on.
THEOREM TypeCorrect == Spec => []TypeOK
  <1>1. Spec => []TypeInv
    BY TypeInvInit, TypeInvStep, PTL DEF Spec
  <1>2. TypeInv => TypeOK
    BY DEF TypeInv
  <1>. QED  BY <1>1, <1>2, PTL

-----------------------------------------------------------------------------
(* What a run has done, by the step it is at.                              *)

\* What the task of proposal k needs, and what is in the database of it.
Needed(i, k) ==
    LET p == Proposal(m[i].decision, k)
    IN  ToSet(p.existing) \cup {<<i, j>> : j \in ToSet(p.deps)}
ToAdd(i, k) == IF m[i].pc = "depend" /\ m[i].task = <<i, k>> THEN ToSet(m[i].deps) ELSE {}
MadeOK(i, k) ==
    \A dep \in Needed(i, k) :
        /\ dep \in TaskIds /\ tasks[dep] # "absent"
        /\ <<<<i, k>>, dep>> \in depRows \/ dep \in ToAdd(i, k)

After == {"row", "phase", "enqueue", "inbox", "done"}
Wrote == After \ {"row"}
Kept(i) == KeysOf(m[i].decision) \ m[i].todo
CreatingOK(i) ==
    /\ Created(i) = {<<i, k>> : k \in Kept(i)}
    /\ \A k \in Kept(i) : MadeOK(i, k)
    /\ m[i].pc \notin {"create", "depend"} => m[i].todo = {}
Completes(i) == m[i].pc \in After /\ m[i].result = "completed"
RunOK(i) ==
    /\ m[i].pc \in Early \cup {"list", "error"} => Created(i) = {}
    /\ m[i].pc \in {"create", "depend", "setactive"} => CreatingOK(i)
    /\ Completes(i) => IF m[i].action \in Planning THEN CreatingOK(i) ELSE Created(i) = {}
    /\ m[i].pc = "depend" => \E k \in Kept(i) : m[i].task = <<i, k>>
    /\ \A t \in m[i].known : tasks[t] # "absent"
    /\ m[i].pc \notin Wrote => rows[i].status = "absent" /\ rows[i].created = {}
    /\ m[i].pc \in Wrote =>
          /\ rows[i].status = m[i].result
          /\ m[i].result = "completed" => rows[i].created = Created(i)
    /\ rows[i].created \subseteq Created(i)

RunInv == TypeInv /\ \A i \in Masters : RunOK(i)

\* A proposal is placed after those it depends on.
LEMMA DependedOnComeFirst ==
    ASSUME TypeInv, NEW i \in Masters, ValidDecision(m[i].decision),
           m[i].todo \subseteq KeysOf(m[i].decision), m[i].todo # {}
    PROVE  ToSet(NewProposal(i).deps) \subseteq Kept(i)
  <1>. DEFINE d == m[i].decision
              k == NextKey(i)
              p == NewProposal(i)
              round == CHOOSE r \in Rounds(d) : TRUE
              T == {0} \cup {round[j] : j \in ToSet(p.deps)}
  <1>1. TypeOK /\ d \in Decisions \cup {NoDecision}
    BY DEF TypeInv, TypeOK, MasterRow
  <1>2. k \in m[i].todo /\ \A j \in m[i].todo \ {k} : PlacedBefore(d, k, j)
    BY <1>1, NextKeyIsOne
  <1>3. k \in KeysOf(d) /\ p \in ToSet(d.proposals) /\ p.key = k
    BY <1>1, <1>2, DecisionTypes DEF NewProposal
  <1>4. ToSet(p.deps) \subseteq KeysOf(d) \ {k}
    BY <1>3 DEF ValidDecision
  <1>5. round \in [KeysOf(d) -> 1 .. Len(d.proposals)] /\ round[k] = 1 + Max(T)
    <2>1. round \in Rounds(d)
      BY DEF ValidDecision
    <2>. HIDE DEF round
    <2>. QED  BY <1>3, <2>1 DEF Rounds, NewProposal
  <1>6. Len(d.proposals) \in Nat
    BY <1>1, DecisionTypes
  <1>. HIDE DEF round
  <1>7. T \subseteq Nat /\ T # {} /\ \A n \in T : n <= Len(d.proposals)
    BY <1>4, <1>5, <1>6
  <1>8. Max(T) \in Nat /\ \A n \in T : n <= Max(T)
    BY <1>6, <1>7, LargestOf
  <1>9. ASSUME NEW j \in ToSet(p.deps)
        PROVE  j \notin m[i].todo
    <2>1. round[j] <= Max(T) /\ round[j] \in Nat
      BY <1>4, <1>5, <1>6, <1>8
    <2>2. round[j] < round[k] /\ round[k] \in Nat
      BY <1>5, <1>8, <2>1
    <2>3. ~PlacedBefore(d, k, j)
      BY <2>1, <2>2 DEF PlacedBefore, round
    <2>. QED  BY <1>2, <1>4, <2>3
  <1>. QED  BY <1>4, <1>9 DEF Kept

\* What was created for a run stays so, under steps that take nothing back.
LEMMA CreatingStays ==
    ASSUME NEW i \in Masters, CreatingOK(i), Created(i)' = Created(i),
           m'[i].decision = m[i].decision, m'[i].todo = m[i].todo,
           \A t \in TaskIds : tasks[t] # "absent" => tasks'[t] # "absent",
           depRows \subseteq depRows',
           \A k \in Kept(i) : \A dep \in ToAdd(i, k) :
              dep \in ToAdd(i, k)' \/ <<<<i, k>>, dep>> \in depRows',
           m'[i].pc \notin {"create", "depend"} => m[i].todo = {}
    PROVE  CreatingOK(i)'
  <1>1. Kept(i)' = Kept(i)
    BY DEF Kept
  <1>2. \A k \in Kept(i) : Needed(i, k)' = Needed(i, k)
    BY DEF Needed
  <1>3. ASSUME NEW k \in Kept(i)
        PROVE  MadeOK(i, k)'
    <2>1. MadeOK(i, k)
      BY DEF CreatingOK
    <2>2. ASSUME NEW dep \in Needed(i, k)
          PROVE  /\ dep \in TaskIds /\ tasks'[dep] # "absent"
                 /\ <<<<i, k>>, dep>> \in depRows' \/ dep \in ToAdd(i, k)'
      <3>1. dep \in TaskIds /\ tasks[dep] # "absent"
        BY <2>1, <2>2 DEF MadeOK
      <3>2. <<<<i, k>>, dep>> \in depRows \/ dep \in ToAdd(i, k)
        BY <2>1, <2>2 DEF MadeOK
      <3>. QED  BY <3>1, <3>2
    <2>. QED  BY <1>2, <2>2 DEF MadeOK
  <1>4. Created(i)' = {<<i, k>> : k \in Kept(i)'}
    BY <1>1 DEF CreatingOK
  <1>. QED  BY <1>1, <1>3, <1>4 DEF CreatingOK

LEMMA CreatedStays ==
    ASSUME NEW i \in Masters,
           \A t \in TaskIds : tasks[t] # "absent" => tasks'[t] # "absent",
           \A t \in NewTasks : t[1] = i /\ tasks'[t] # "absent" => tasks[t] # "absent"
    PROVE  Created(i)' = Created(i)
  BY DEF Created, TaskIds

\* A run that takes no step.
LEMMA RunStays ==
    ASSUME TypeInv, NEW i \in Masters, RunOK(i), m'[i] = m[i], rows'[i] = rows[i],
           depRows \subseteq depRows',
           \A t \in TaskIds : tasks[t] # "absent" => tasks'[t] # "absent",
           \A t \in NewTasks : t[1] = i /\ tasks'[t] # "absent" => tasks[t] # "absent"
    PROVE  RunOK(i)'
  <1>1. Created(i)' = Created(i)
    BY CreatedStays
  <1>2. \A k \in Kept(i) : ToAdd(i, k)' = ToAdd(i, k)
    BY DEF ToAdd
  <1>3. CreatingOK(i) => CreatingOK(i)'
    <2>1. CreatingOK(i) /\ m'[i].pc \notin {"create", "depend"} => m[i].todo = {}
      BY DEF CreatingOK
    <2>. QED  BY <1>1, <1>2, <2>1, CreatingStays
  <1>4. Kept(i)' = Kept(i) /\ (Completes(i)' <=> Completes(i))
    BY DEF Kept, Completes
  <1>5. m[i].known \subseteq TaskIds
    BY DEF TypeInv, TypeOK, MasterRow
  <1>. QED  BY <1>1, <1>3, <1>4, <1>5 DEF RunOK

\* What a step of a run does to the tables that other runs look at.
LEMMA EffectsStep ==
    ASSUME TypeInv, NEW i \in Masters, MasterStep(i)
    PROVE  /\ depRows \subseteq depRows'
           /\ \A j \in Masters \ {i} : rows'[j] = rows[j]
           /\ \/ tasks' = tasks
              \/ NewTask(i) \in NewTasks /\ tasks' = [tasks EXCEPT ![NewTask(i)] = "open"]
  <1>1. CASE CreateTask(i)
    <2>1. UNCHANGED <<depRows, rows>>
      BY <1>1 DEF CreateTask
    <2>. QED  BY <1>1, <2>1, CreateTaskRow
  <1>2. CASE AddDependency(i)
    <2>1. UNCHANGED <<tasks, rows>>
      BY <1>2 DEF AddDependency
    <2>. QED  BY <1>2, <2>1, AddDependencyRow
  <1>3. CASE WriteRow(i)
    BY <1>3 DEF WriteRow, TypeInv, TypeOK
  <1>4. CASE ~(CreateTask(i) \/ AddDependency(i) \/ WriteRow(i))
    <2>1. UNCHANGED <<tasks, depRows, rows>>
      BY <1>4 DEF MasterStep, Start, LoadState, InsertState, Loaded, Authorize, LoadPart,
           ModelAnswers, ModelFails, RecordTokens, RecordDollars, Decide, ListTasks,
           SyncRead, SetActive, UpdatePhase, EnqueueRead, EnqueueWrite
    <2>. QED  BY <2>1
  <1>. QED  BY <1>1, <1>2, <1>3, <1>4

LEMMA OtherRunsStay ==
    ASSUME TypeInv, NEW i \in Masters, MasterStep(i), NEW j \in Masters, j # i, RunOK(j)
    PROVE  RunOK(j)'
  <1>1. m'[j] = m[j]
    BY RowsStep DEF OthersStay
  <1>2. depRows \subseteq depRows' /\ rows'[j] = rows[j]
    BY EffectsStep
  <1>3. NewTask(i)[1] = i
    BY DEF NewTask
  <1>4. tasks \in [TaskIds -> {"absent", "open", "terminal"}] /\ NewTasks \subseteq TaskIds
    BY DEF TypeInv, TypeOK, TaskIds
  <1>5. /\ \A t \in TaskIds : tasks[t] # "absent" => tasks'[t] # "absent"
        /\ \A t \in NewTasks : t[1] = j /\ tasks'[t] # "absent" => tasks[t] # "absent"
    BY <1>3, <1>4, EffectsStep
  <1>. QED  BY <1>1, <1>2, <1>5, RunStays

\* Steps of a run that has created nothing.
LEMMA RunGoesEarly ==
    ASSUME TypeInv, NEW i \in Masters, RunOK(i), m[i].pc \in Early,
           UNCHANGED <<tasks, depRows, rows>>, m'[i].known = m[i].known,
           \/ m'[i].pc \in Early \cup {"list", "error"}
           \/ m'[i].pc = "row" /\ m'[i].action \notin Planning
    PROVE  RunOK(i)'
  <1>1. Created(i) = {} /\ m[i].pc \notin Wrote
    BY DEF RunOK, Early, Wrote, After
  <1>2. Created(i)' = {}
    BY <1>1 DEF Created
  <1>3. rows[i].status = "absent" /\ rows[i].created = {}
    BY <1>1 DEF RunOK
  <1>4. \A t \in m[i].known : tasks[t] # "absent"
    BY DEF RunOK
  <1>. QED  BY <1>2, <1>3, <1>4 DEF RunOK, Early, After, Wrote, Completes

\* ... and of one that gives up, of which no completed row tells.
LEMMA RunGivesUp ==
    ASSUME TypeInv, NEW i \in Masters, RunOK(i), m[i].pc \notin Wrote,
           UNCHANGED <<tasks, depRows, rows>>,
           NEW r \in {"blocked", "rejected", "failed"}, Conclude(i, r)
    PROVE  RunOK(i)'
  <1>1. m[i] \in MasterRow /\ TypeOK
    BY DEF TypeInv, TypeOK
  <1>2. m'[i] = [m[i] EXCEPT !.pc = "row", !.action = "BLOCKED", !.result = r]
    BY <1>1, ConcludingTypes
  <1>3. m'[i].pc = "row" /\ m'[i].result = r /\ m'[i].known = m[i].known
    BY <1>1, <1>2 DEF MasterRow
  <1>4. rows[i].status = "absent" /\ rows[i].created = {}
    BY DEF RunOK
  <1>5. \A t \in m[i].known : tasks[t] # "absent"
    BY DEF RunOK
  <1>. QED  BY <1>3, <1>4, <1>5 DEF RunOK, Early, After, Wrote, Completes

\* Steps of a run whose tasks are all there.
LEMMA RunGoesOn ==
    ASSUME TypeInv, NEW i \in Masters, RunOK(i), UNCHANGED <<tasks, depRows, rows>>,
           m'[i].known = m[i].known, m'[i].decision = m[i].decision, m'[i].todo = m[i].todo,
           m'[i].action = m[i].action, m'[i].result = m[i].result,
           \/ m[i].pc = "create" /\ m[i].todo = {} /\ m'[i].pc = "setactive"
           \/ m[i].pc = "setactive" /\ m'[i].pc = "row"
           \/ m[i].pc \in Wrote /\ m'[i].pc \in Wrote
    PROVE  RunOK(i)'
  <1>1. Created(i)' = Created(i)
    BY CreatedStays
  <1>2. \A k \in Kept(i) : ToAdd(i, k) = {}
    BY DEF ToAdd, Wrote, After
  <1>3. CreatingOK(i) => CreatingOK(i)'
    <2>1. CreatingOK(i) => m[i].todo = {}
      BY DEF CreatingOK, Wrote, After
    <2>. QED  BY <1>1, <1>2, <2>1, CreatingStays
  <1>4. m[i].known \subseteq TaskIds
    BY DEF TypeInv, TypeOK, MasterRow
  <1>5. CASE m[i].pc = "create" \/ m[i].pc = "setactive"
    <2>1. CreatingOK(i)' /\ rows[i].status = "absent" /\ rows[i].created = {}
      BY <1>3, <1>5 DEF RunOK, Wrote, After
    <2>2. m[i].action \in Planning
      BY <1>5 DEF TypeInv, Planned, Creating
    <2>. QED  BY <1>1, <1>5, <2>1, <2>2 DEF RunOK, Early, After, Wrote, Completes
  <1>6. CASE m[i].pc \in Wrote /\ m'[i].pc \in Wrote
    <2>1. Completes(i)' => IF m'[i].action \in Planning THEN CreatingOK(i)' ELSE Created(i)' = {}
      BY <1>1, <1>3, <1>6 DEF RunOK, Completes, Wrote
    <2>2. rows[i].status = m[i].result /\ (m[i].result = "completed" => rows[i].created = Created(i))
      BY <1>6 DEF RunOK
    <2>. QED  BY <1>1, <1>6, <2>1, <2>2 DEF RunOK, Early, After, Wrote
  <1>. QED  BY <1>5, <1>6

LEMMA ListTasksRun ==
    ASSUME TypeInv, NEW i \in Masters, RunOK(i), ListTasks(i)
    PROVE  RunOK(i)'
  <1>1. m[i] \in MasterRow /\ TypeOK /\ m[i].pc = "list"
    BY DEF TypeInv, TypeOK, ListTasks, At
  <1>2. UNCHANGED <<tasks, depRows, rows>>
    BY DEF ListTasks
  <1>3. m'[i] = [m[i] EXCEPT !.pc = "create", !.todo = KeysOf(m[i].decision),
                             !.known = {t \in TaskIds : tasks[t] # "absent"}]
    BY <1>1, ListTasksRow
  <1>4. /\ m'[i].pc = "create" /\ m'[i].todo = KeysOf(m[i].decision)
        /\ m'[i].decision = m[i].decision /\ m'[i].known = {t \in TaskIds : tasks[t] # "absent"}
    BY <1>1, <1>3 DEF MasterRow
  <1>5. Created(i)' = {} /\ Kept(i)' = {}
    BY <1>1, <1>2, <1>4 DEF RunOK, Created, Kept
  <1>6. CreatingOK(i)'
    BY <1>4, <1>5 DEF CreatingOK
  <1>7. rows[i].status = "absent" /\ rows[i].created = {}
    BY <1>1 DEF RunOK, Wrote, After
  <1>. QED  BY <1>2, <1>4, <1>5, <1>6, <1>7 DEF RunOK, Early, After, Wrote, Completes

LEMMA WriteRowRun ==
    ASSUME TypeInv, NEW i \in Masters, RunOK(i), WriteRow(i)
    PROVE  RunOK(i)'
  <1>1. m[i] \in MasterRow /\ TypeOK /\ m[i].pc = "row"
    BY DEF TypeInv, TypeOK, WriteRow, At
  <1>2. UNCHANGED <<tasks, depRows>>
    BY DEF WriteRow
  <1>3. m'[i] = [m[i] EXCEPT !.pc = "phase"]
    BY <1>1, GoingTypes DEF WriteRow, PC
  <1>4. /\ m'[i].pc = "phase" /\ m'[i].todo = m[i].todo /\ m'[i].deps = m[i].deps
        /\ m'[i].decision = m[i].decision /\ m'[i].known = m[i].known
        /\ m'[i].action = m[i].action /\ m'[i].result = m[i].result
    BY <1>1, <1>3 DEF MasterRow
  <1>5. /\ rows'[i].status = m[i].result
        /\ rows'[i].created = IF m[i].action \in Planning THEN Created(i) ELSE {}
    BY <1>1 DEF WriteRow, TypeOK, Planning
  <1>6. Created(i)' = Created(i)
    BY <1>2, CreatedStays
  <1>7. CreatingOK(i) => CreatingOK(i)'
    <2>1. \A k \in Kept(i) : ToAdd(i, k) = {}
      BY <1>1 DEF ToAdd
    <2>2. CreatingOK(i) => m[i].todo = {}
      BY <1>1 DEF CreatingOK
    <2>. QED  BY <1>2, <1>4, <1>6, <2>1, <2>2, CreatingStays
  <1>8. Completes(i) <=> m[i].result = "completed"
    BY <1>1 DEF Completes, After
  <1>9. Completes(i)' <=> m[i].result = "completed"
    BY <1>4 DEF Completes, After
  <1>10. Completes(i)' => IF m'[i].action \in Planning THEN CreatingOK(i)' ELSE Created(i)' = {}
    BY <1>4, <1>6, <1>7, <1>8, <1>9 DEF RunOK
  <1>11. m[i].result = "completed" => rows'[i].created = Created(i)'
    BY <1>5, <1>6, <1>8 DEF RunOK
  <1>12. rows'[i].created \subseteq Created(i)' /\ \A t \in m[i].known : tasks[t] # "absent"
    BY <1>5, <1>6 DEF RunOK
  <1>. QED  BY <1>2, <1>4, <1>5, <1>10, <1>11, <1>12 DEF RunOK, Early, After, Wrote

LEMMA CreateTaskRun ==
    ASSUME TypeInv, NEW i \in Masters, RunOK(i), CreateTask(i)
    PROVE  RunOK(i)'
  <1>. PICK k, p, t : k = NextKey(i) /\ p = NewProposal(i) /\ t = NewTask(i)
    OBVIOUS
  <1>1. m[i] \in MasterRow /\ TypeOK /\ m[i].pc = "create" /\ m[i].todo # {}
    BY DEF TypeInv, TypeOK, CreateTask, At
  <1>2. ValidDecision(m[i].decision) /\ m[i].todo \subseteq KeysOf(m[i].decision)
    BY <1>1 DEF TypeInv, Planned
  <1>3. UNCHANGED <<depRows, rows>>
    BY DEF CreateTask
  <1>4. CASE Conclude(i, "rejected") /\ tasks' = tasks
    BY <1>1, <1>3, <1>4, RunGivesUp DEF Wrote, After
  <1>5. CASE ~(Conclude(i, "rejected") /\ tasks' = tasks)
    <2>1. /\ k \in m[i].todo /\ k \in KeysOf(m[i].decision)
          /\ p \in ProposalRow /\ t \in NewTasks
          /\ tasks' = [tasks EXCEPT ![t] = "open"] /\ ToSet(p.existing) \subseteq m[i].known
          /\ m'[i] = [m[i] EXCEPT !.pc = "depend", !.todo = m[i].todo \ {NextKey(i)},
                               !.task = NewTask(i), !.known = m[i].known \cup {NewTask(i)},
                               !.deps = DependsOn(i, NewProposal(i))]
      BY <1>5, CreateTaskRow
    <2>2. /\ m'[i].pc = "depend" /\ m'[i].todo = m[i].todo \ {k} /\ m'[i].task = t
          /\ m'[i].known = m[i].known \cup {t} /\ m'[i].deps = DependsOn(i, p)
          /\ m'[i].decision = m[i].decision
      BY <1>1, <2>1 DEF MasterRow
    <2>3. tasks \in [TaskIds -> {"absent", "open", "terminal"}] /\ NewTasks \subseteq TaskIds
      BY <1>1 DEF TypeOK, TaskIds
    <2>4. /\ \A u \in TaskIds : tasks[u] # "absent" => tasks'[u] # "absent"
          /\ tasks'[t] # "absent"
          /\ \A u \in TaskIds : u # t => tasks'[u] = tasks[u]
      BY <2>1, <2>3
    <2>5. Kept(i)' = Kept(i) \cup {k}
      BY <1>2, <2>1, <2>2 DEF Kept
    <2>6. t = <<i, k>>
      BY DEF NewTask
    <2>7. CreatingOK(i)
      BY <1>1 DEF RunOK
    <2>8. Created(i)' = Created(i) \cup {t}
      BY <2>1, <2>3, <2>4, <2>6 DEF Created
    <2>9. Created(i)' = {<<i, j>> : j \in Kept(i)'}
      <3>. QED  BY <2>5, <2>6, <2>7, <2>8 DEF CreatingOK
    <2>10. ASSUME NEW j \in Kept(i)
           PROVE  MadeOK(i, j)'
      <3>1. MadeOK(i, j) /\ ToAdd(i, j) = {} /\ Needed(i, j)' = Needed(i, j)
        BY <1>1, <2>2, <2>7 DEF CreatingOK, ToAdd, Needed
      <3>. QED  BY <1>3, <2>4, <3>1 DEF MadeOK
    <2>11. ToSet(p.existing) \subseteq TaskIds /\ \A u \in ToSet(p.existing) : tasks[u] # "absent"
      BY <1>1, <2>1 DEF RunOK, MasterRow
    <2>12. ToSet(DependsOn(i, p)) = ToSet(p.existing) \cup {<<i, j>> : j \in ToSet(p.deps)}
      BY <2>1, <2>11, DependsOnTypes
    <2>13. MadeOK(i, k)'
      <3>1. ToSet(p.deps) \subseteq Kept(i)
        BY <1>1, <1>2, DependedOnComeFirst
      <3>2. \A j \in Kept(i) : <<i, j>> \in TaskIds /\ tasks[<<i, j>>] # "absent"
        BY <2>3, <2>7 DEF CreatingOK, Created
      <3>3. Needed(i, k)' = ToSet(DependsOn(i, p))
        BY <2>2, <2>12 DEF Needed, NewProposal
      <3>4. ToAdd(i, k)' = ToSet(DependsOn(i, p))
        BY <2>2, <2>6 DEF ToAdd
      <3>5. \A dep \in ToSet(DependsOn(i, p)) : dep \in TaskIds /\ tasks'[dep] # "absent"
        BY <2>4, <2>11, <2>12, <3>1, <3>2
      <3>. QED  BY <3>3, <3>4, <3>5 DEF MadeOK
    <2>14. CreatingOK(i)'
      <3>. QED  BY <2>2, <2>5, <2>9, <2>10, <2>13 DEF CreatingOK
    <2>15. \E j \in Kept(i)' : m'[i].task = <<i, j>>
      BY <2>2, <2>5, <2>6
    <2>16. \A u \in m'[i].known : tasks'[u] # "absent"
      <3>1. m[i].known \subseteq TaskIds /\ \A u \in m[i].known : tasks[u] # "absent"
        BY <1>1 DEF RunOK, MasterRow
      <3>. QED  BY <2>2, <2>4, <3>1
    <2>17. rows[i].status = "absent" /\ rows[i].created = {}
      BY <1>1 DEF RunOK, Wrote, After
    <2>. QED  BY <1>3, <2>2, <2>14, <2>15, <2>16, <2>17 DEF RunOK, Early, After, Wrote, Completes
  <1>. QED  BY <1>4, <1>5

LEMMA AddDependencyRun ==
    ASSUME TypeInv, NEW i \in Masters, RunOK(i), AddDependency(i)
    PROVE  RunOK(i)'
  <1>1. m[i] \in MasterRow /\ TypeOK /\ m[i].pc = "depend"
    BY DEF TypeInv, TypeOK, AddDependency, At
  <1>2. UNCHANGED <<tasks, rows>>
    BY DEF AddDependency
  <1>3. Created(i)' = Created(i) /\ CreatingOK(i)
    BY <1>1, <1>2, CreatedStays DEF RunOK
  <1>4. rows[i].status = "absent" /\ rows[i].created = {}
    BY <1>1 DEF RunOK, Wrote, After
  <1>5. \A u \in m[i].known : tasks[u] # "absent"
    BY DEF RunOK
  <1>6. CASE Conclude(i, "rejected") /\ depRows' = depRows
    BY <1>1, <1>2, <1>6, RunGivesUp DEF Wrote, After
  <1>7. CASE m[i].deps = <<>> /\ Goto(i, "create") /\ depRows' = depRows
    <2>1. m'[i] = [m[i] EXCEPT !.pc = "create"]
      BY <1>1, <1>7, GoingTypes DEF PC
    <2>2. /\ m'[i].pc = "create" /\ m'[i].todo = m[i].todo /\ m'[i].known = m[i].known
          /\ m'[i].decision = m[i].decision
      BY <1>1, <2>1 DEF MasterRow
    <2>3. \A k \in Kept(i) : ToAdd(i, k) = {}
      BY <1>1, <1>7 DEF ToAdd, ToSet
    <2>4. CreatingOK(i)'
      BY <1>2, <1>3, <1>7, <2>2, <2>3, CreatingStays
    <2>. QED  BY <1>2, <1>4, <1>5, <2>2, <2>4 DEF RunOK, Early, After, Wrote, Completes
  <1>8. CASE /\ m[i].deps # <<>>
             /\ depRows' = depRows \cup {<<m[i].task, Head(m[i].deps)>>}
             /\ m'[i] = [m[i] EXCEPT !.deps = Tail(m[i].deps)]
    <2>1. /\ m'[i].pc = "depend" /\ m'[i].todo = m[i].todo /\ m'[i].known = m[i].known
          /\ m'[i].decision = m[i].decision /\ m'[i].task = m[i].task
          /\ m'[i].deps = Tail(m[i].deps)
      BY <1>1, <1>8 DEF MasterRow
    <2>2. \A dep \in ToSet(m[i].deps) : dep = Head(m[i].deps) \/ dep \in ToSet(Tail(m[i].deps))
      <3>. DEFINE s == m[i].deps
      <3>1. s \in Seq(TaskIds) /\ s # <<>>
        BY <1>1, <1>8 DEF MasterRow
      <3>. HIDE DEF s
      <3>2. Len(s) \in Nat \ {0} /\ DOMAIN s = 1 .. Len(s) /\ Head(s) = s[1]
        BY <3>1
      <3>3. DOMAIN Tail(s) = 1 .. (Len(s) - 1) /\ \A n \in 1 .. (Len(s) - 1) : Tail(s)[n] = s[n + 1]
        BY <3>1
      <3>4. \A n \in 1 .. Len(s) : n = 1 \/ (n - 1 \in 1 .. (Len(s) - 1) /\ (n - 1) + 1 = n)
        BY <3>2
      <3>5. \A n \in 1 .. Len(s) : s[n] = Head(s) \/ \E j \in DOMAIN Tail(s) : s[n] = Tail(s)[j]
        BY <3>2, <3>3, <3>4
      <3>6. \A dep \in ToSet(s) : dep = Head(s) \/ dep \in ToSet(Tail(s))
        BY <3>2, <3>5 DEF ToSet
      <3>. QED  BY <3>6 DEF s
    <2>3. ASSUME NEW k \in Kept(i), NEW dep \in ToAdd(i, k)
          PROVE  dep \in ToAdd(i, k)' \/ <<<<i, k>>, dep>> \in depRows'
      <3>1. m[i].task = <<i, k>> /\ dep \in ToSet(m[i].deps)
        BY <2>3 DEF ToAdd
      <3>2. CASE dep = Head(m[i].deps)
        BY <1>8, <3>1, <3>2
      <3>3. CASE dep \in ToSet(Tail(m[i].deps))
        BY <2>1, <3>1, <3>3 DEF ToAdd
      <3>. QED  BY <2>2, <3>1, <3>2, <3>3
    <2>4. depRows \subseteq depRows'
      BY <1>8
    <2>5. CreatingOK(i)'
      BY <1>2, <1>3, <2>1, <2>3, <2>4, CreatingStays
    <2>6. \E k \in Kept(i)' : m'[i].task = <<i, k>>
      BY <1>1, <2>1 DEF RunOK, Kept
    <2>. QED  BY <1>2, <1>4, <1>5, <2>1, <2>5, <2>6 DEF RunOK, Early, After, Wrote, Completes
  <1>. QED  BY <1>6, <1>7, <1>8, AddDependencyRow

LEMMA OwnStep ==
    ASSUME TypeInv, NEW i \in Masters, RunOK(i), MasterStep(i)
    PROVE  RunOK(i)'
  <1>1. m[i] \in MasterRow /\ TypeOK
    BY DEF TypeInv, TypeOK
  <1>2. ASSUME NEW pc \in PC, Goto(i, pc)
        PROVE  /\ m'[i].pc = pc /\ m'[i].known = m[i].known /\ m'[i].decision = m[i].decision
               /\ m'[i].todo = m[i].todo /\ m'[i].action = m[i].action
               /\ m'[i].result = m[i].result
    <2>1. m'[i] = [m[i] EXCEPT !.pc = pc]
      BY <1>1, <1>2, GoingTypes
    <2>. QED  BY <1>1, <2>1 DEF MasterRow
  <1>3. CASE Start(i)
    <2>1. m'[i] = [m[i] EXCEPT !.pc = "load", !.load = Parts \ {"insert"}] /\ m[i].pc = "new"
      BY <1>1, <1>3, StartRow DEF Start, At
    <2>2. m'[i].pc = "load" /\ m'[i].known = m[i].known
      BY <1>1, <2>1 DEF MasterRow
    <2>. QED  BY <1>3, <2>1, <2>2, RunGoesEarly DEF Start, Early
  <1>4. CASE LoadState(i)
    <2>1. m'[i].pc = m[i].pc /\ m'[i].known = m[i].known /\ m[i].pc = "load"
      BY <1>1, <1>4, LoadStateRow DEF LoadState, At, MasterRow
    <2>. QED  BY <1>4, <2>1, RunGoesEarly DEF LoadState, Early
  <1>5. CASE InsertState(i)
    <2>1. \/ m'[i] = [m[i] EXCEPT !.pc = "error"]
          \/ m'[i] = [m[i] EXCEPT !.load = m[i].load \ {"insert"}]
      BY <1>1, <1>5, InsertStateRow
    <2>2. m[i].pc = "load" /\ m'[i].pc \in {"load", "error"} /\ m'[i].known = m[i].known
      BY <1>1, <1>5, <2>1 DEF InsertState, At, MasterRow
    <2>. QED  BY <1>5, <2>2, RunGoesEarly DEF InsertState, Early
  <1>6. CASE Loaded(i)
    BY <1>2, <1>6, RunGoesEarly DEF Loaded, At, PC, Early
  <1>7. CASE Authorize(i)
    <2>1. m[i].pc = "authorize" /\ UNCHANGED <<tasks, depRows, rows>>
      BY <1>7 DEF Authorize, At
    <2>2. CASE Goto(i, "call")
      BY <1>2, <2>1, <2>2, RunGoesEarly DEF PC, Early
    <2>3. CASE Conclude(i, "blocked")
      BY <2>1, <2>3, RunGivesUp DEF Wrote, After
    <2>. QED  BY <1>7, <2>2, <2>3 DEF Authorize
  <1>8. CASE \E part \in {"budget", "contract", "criteria", "rest"} : LoadPart(i, part)
    <2>1. PICK part \in {"budget", "contract", "criteria", "rest"} : LoadPart(i, part)
      BY <1>8
    <2>2. m'[i] = [m[i] EXCEPT !.load = m[i].load \ {part},
                               !.usage = IF part = "budget" THEN usage ELSE m[i].usage,
                               !.gate = GateAfter(i, part)]
      BY <1>1, <2>1, LoadPartRow
    <2>3. m'[i].pc = m[i].pc /\ m'[i].known = m[i].known
      BY <1>1, <2>2 DEF MasterRow
    <2>4. m[i].pc = "load" /\ UNCHANGED <<tasks, depRows, rows>>
      BY <2>1 DEF LoadPart, At
    <2>. QED  BY <2>3, <2>4, RunGoesEarly DEF Early
  <1>9. CASE \E d \in Decisions, u \in Usages : ModelAnswers(i, d, u)
    <2>1. PICK d \in Decisions, u \in Usages : ModelAnswers(i, d, u)
      BY <1>9
    <2>2. m'[i] = Answered(i, d, u)
      BY <1>1, <2>1, ModelAnswersRow
    <2>3. m'[i].pc = "tokens" /\ m'[i].known = m[i].known
      BY <1>1, <2>2 DEF Answered, MasterRow
    <2>4. m[i].pc = "call" /\ UNCHANGED <<tasks, depRows, rows>>
      BY <2>1 DEF ModelAnswers, At
    <2>. QED  BY <2>3, <2>4, RunGoesEarly DEF Early
  <1>10. CASE \E transient \in BOOLEAN : ModelFails(i, transient)
    <2>1. m[i].pc = "call" /\ UNCHANGED <<tasks, depRows, rows>>
      BY <1>10 DEF ModelFails, At
    <2>2. CASE Conclude(i, "failed")
      BY <2>1, <2>2, RunGivesUp DEF Wrote, After
    <2>3. CASE m'[i] = [m[i] EXCEPT !.attempt = m[i].attempt + 1]
      <3>1. m'[i].pc = m[i].pc /\ m'[i].known = m[i].known
        BY <1>1, <2>3 DEF MasterRow
      <3>. QED  BY <2>1, <3>1, RunGoesEarly DEF Early
    <2>. QED  BY <1>1, <1>10, <2>2, <2>3, ModelFailsRow
  <1>11. CASE RecordTokens(i)
    BY <1>2, <1>11, RunGoesEarly DEF RecordTokens, At, PC, Early
  <1>12. CASE RecordDollars(i)
    BY <1>2, <1>12, RunGoesEarly DEF RecordDollars, At, PC, Early
  <1>13. CASE Decide(i)
    <2>1. m[i].pc = "decide" /\ UNCHANGED <<tasks, depRows, rows>>
      BY <1>13 DEF Decide, At
    <2>2. CASE Conclude(i, "rejected")
      BY <2>1, <2>2, RunGivesUp DEF Wrote, After
    <2>3. CASE ~Conclude(i, "rejected")
      <3>1. m'[i] = [m[i] EXCEPT
                  !.pc = IF Enforced(i) \in Planning THEN "list" ELSE "row",
                  !.action = Enforced(i),
                  !.result = IF Enforced(i) = "BLOCKED" THEN "blocked" ELSE "completed"]
        BY <1>1, <1>13, <2>3, DecideRow
      <3>2. /\ m'[i].known = m[i].known /\ m'[i].action = Enforced(i)
            /\ m'[i].pc = IF Enforced(i) \in Planning THEN "list" ELSE "row"
        BY <1>1, <3>1 DEF MasterRow
      <3>3. CASE Enforced(i) \in Planning
        BY <2>1, <3>2, <3>3, RunGoesEarly DEF Early
      <3>4. CASE Enforced(i) \notin Planning
        BY <2>1, <3>2, <3>4, RunGoesEarly DEF Early
      <3>. QED  BY <3>3, <3>4
    <2>. QED  BY <2>2, <2>3
  <1>14. CASE ListTasks(i)
    BY <1>14, ListTasksRun
  <1>15. CASE CreateTask(i)
    BY <1>15, CreateTaskRun
  <1>16. CASE AddDependency(i)
    BY <1>16, AddDependencyRun
  <1>17. CASE SyncRead(i)
    <2>1. m'[i] = [m[i] EXCEPT !.pc = "setactive", !.active = NextActive(state.active, Created(i))]
      BY <1>1, <1>17, SyncReadRow
    <2>2. /\ m'[i].pc = "setactive" /\ m'[i].known = m[i].known
          /\ m'[i].decision = m[i].decision /\ m'[i].todo = m[i].todo
          /\ m'[i].action = m[i].action /\ m'[i].result = m[i].result
      BY <1>1, <2>1 DEF MasterRow
    <2>. QED  BY <1>17, <2>2, RunGoesOn DEF SyncRead, At
  <1>18. CASE SetActive(i)
    BY <1>2, <1>18, RunGoesOn DEF SetActive, At, PC
  <1>19. CASE WriteRow(i)
    BY <1>19, WriteRowRun
  <1>20. CASE UpdatePhase(i)
    BY <1>2, <1>20, RunGoesOn DEF UpdatePhase, At, PC, Wrote, After
  <1>21. CASE EnqueueRead(i)
    <2>1. m'[i] = [m[i] EXCEPT !.pc = "inbox", !.ids = state.inbox]
      BY <1>1, <1>21, EnqueueReadRow
    <2>2. /\ m'[i].pc = "inbox" /\ m'[i].known = m[i].known
          /\ m'[i].decision = m[i].decision /\ m'[i].todo = m[i].todo
          /\ m'[i].action = m[i].action /\ m'[i].result = m[i].result
      BY <1>1, <2>1 DEF MasterRow
    <2>. QED  BY <1>21, <2>2, RunGoesOn DEF EnqueueRead, At, Wrote, After
  <1>22. CASE EnqueueWrite(i)
    BY <1>2, <1>22, RunGoesOn DEF EnqueueWrite, At, PC, Wrote, After
  <1>. QED
    BY <1>3, <1>4, <1>5, <1>6, <1>7, <1>8, <1>9, <1>10, <1>11, <1>12, <1>13, <1>14, <1>15, <1>16,
       <1>17, <1>18, <1>19, <1>20, <1>21, <1>22 DEF MasterStep

LEMMA RunInvStep == RunInv /\ [Next]_vars => RunInv'
  <1>. SUFFICES ASSUME RunInv, [Next]_vars  PROVE \A j \in Masters : RunOK(j)'
    BY TypeInvStep DEF RunInv
  <1>1. TypeInv /\ \A j \in Masters : RunOK(j)
    BY DEF RunInv
  <1>2. CASE \E i \in Masters : MasterStep(i)
    BY <1>1, <1>2, OwnStep, OtherRunsStay
  <1>3. CASE ProjectStep
    <2>1. UNCHANGED <<depRows, rows, m>>
      BY <1>1, <1>3, ProjectStepTypes DEF TypeInv
    <2>2. tasks \in [TaskIds -> {"absent", "open", "terminal"}] /\ NewTasks \subseteq TaskIds
      BY <1>1 DEF TypeInv, TypeOK, TaskIds
    <2>3. \/ tasks' = tasks
          \/ \E t \in TaskIds : tasks[t] = "open" /\ tasks' = [tasks EXCEPT ![t] = "terminal"]
      BY <1>1, <1>3, ProjectStepTypes DEF TypeInv
    <2>4. \A t \in TaskIds : tasks[t] # "absent" <=> tasks'[t] # "absent"
      BY <2>2, <2>3
    <2>. QED  BY <1>1, <2>1, <2>2, <2>4, RunStays
  <1>4. CASE UNCHANGED vars
    BY <1>1, <1>4, RunStays DEF vars
  <1>. QED  BY <1>2, <1>3, <1>4 DEF Next

LEMMA RunInvInit == Init => RunInv
  <1>. SUFFICES ASSUME Init  PROVE RunInv
    OBVIOUS
  <1>1. \A i \in Masters : /\ m[i].pc = "new" /\ m[i].known = {}
                           /\ rows[i].status = "absent" /\ rows[i].created = {}
    BY DEF Init
  <1>2. \A i \in Masters : Created(i) = {}
    <2>1. \A t \in NewTasks : t \in TaskIds /\ t \notin ExistingTasks
      BY TasksAssumption DEF TaskIds
    <2>. QED  BY <2>1 DEF Init, Created
  <1>. QED  BY <1>1, <1>2, TypeInvInit DEF RunInv, RunOK, Early, After, Wrote, Completes

\* A completed run has named just the tasks that it created, each there with what it
\* depends on and with all its dependency rows (CompletedRunsTellTheirTasks), since the
\* topological order creates every task after those it waits for.
THEOREM CompletedRunsTell == Spec => []CompletedRunsTellTheirTasks
  <1>1. Spec => []RunInv
    BY RunInvInit, RunInvStep, PTL DEF Spec
  <1>2. ASSUME RunInv, NEW i \in Masters, rows[i].status = "completed"
        PROVE  /\ rows[i].created = Created(i)
               /\ \A t \in rows[i].created :
                    LET p == Proposal(m[i].decision, t[2])
                    IN  \A dep \in ToSet(p.existing) \cup {<<i, k>> : k \in ToSet(p.deps)} :
                           <<t, dep>> \in depRows /\ tasks[dep] # "absent"
    <2>1. RunOK(i)
      BY <1>2 DEF RunInv
    <2>2. m[i].pc \in Wrote /\ m[i].result = "completed"
      BY <1>2, <2>1 DEF RunOK
    <2>3. rows[i].created = Created(i)
      BY <2>1, <2>2 DEF RunOK
    <2>4. IF m[i].action \in Planning THEN CreatingOK(i) ELSE Created(i) = {}
      BY <2>1, <2>2 DEF RunOK, Completes, Wrote
    <2>5. CASE Created(i) = {}
      BY <2>3, <2>5
    <2>6. CASE CreatingOK(i)
      <3>1. ASSUME NEW t \in Created(i), NEW dep \in Needed(i, t[2])
            PROVE  <<t, dep>> \in depRows /\ tasks[dep] # "absent"
        <4>1. PICK k \in Kept(i) : t = <<i, k>>
          BY <2>6, <3>1 DEF CreatingOK
        <4>2. MadeOK(i, k) /\ ToAdd(i, k) = {} /\ dep \in Needed(i, k)
          BY <2>2, <2>6, <3>1, <4>1 DEF CreatingOK, ToAdd, Wrote, After
        <4>. QED  BY <4>1, <4>2 DEF MadeOK
      <3>. QED  BY <2>3, <3>1 DEF Needed
    <2>. QED  BY <2>4, <2>5, <2>6
  <1>3. RunInv => CompletedRunsTellTheirTasks
    BY <1>2 DEF CompletedRunsTellTheirTasks
  <1>. QED  BY <1>1, <1>3, PTL

-----------------------------------------------------------------------------
(* The FINISHED gate.                                                      *)

\* What the gate has been told was so at some time of the load, as long as it matters; and
\* a run that finishes was let through.
Before == {"new", "load", "authorize", "call", "tokens", "dollars", "decide"}
ReadOK(g, S) ==
    /\ g.contract # 0 => \E p \in S : p.contract = g.contract
    /\ \A v \in 1 .. MaxVersions :
          g.criterion[v] = "PASS" => \E p \in S : p.criterion[v] = "PASS"
    /\ g.verified => \E p \in S : p.verified
    /\ g.verified /\ ~g.blocked => \E p \in S : ~p.blocked
    /\ g.regression = "PASS" => \E p \in S : p.regression = "PASS"
    /\ g.evidence => \E p \in S : p.evidence
GroundsOK(i) ==
    /\ m[i].pc = "new" => m[i].gate = EmptyProject
    /\ m[i].pc = "load" => project \in seen[i]
    /\ m[i].pc \in Before \/ m[i].action = "FINISHED" => ReadOK(m[i].gate, seen[i])
    /\ m[i].action = "FINISHED" => FinishedGate(m[i].gate) /\ m[i].pc \in After

GroundsInv == TypeInv /\ \A i \in Masters : GroundsOK(i)

\* Nothing is lost when more may have been read, and nothing has been read at first.
LEMMA ReadOKMore ==
    ASSUME NEW g, NEW S, NEW T, ReadOK(g, S), S \subseteq T
    PROVE  ReadOK(g, T)
  BY DEF ReadOK

LEMMA ReadOKNothing ==
    ASSUME NEW S
    PROVE  ReadOK(EmptyProject, S)
  BY DEF ReadOK, EmptyProject

\* Most steps leave alone what a run has read, and end in an answer or a refusal.
LEMMA KeepsStep ==
    ASSUME TypeInv, NEW i \in Masters, MasterStep(i)
    PROVE  \/ \E part \in {"budget", "contract", "criteria", "rest"} : LoadPart(i, part)
           \/ Decide(i)
           \/ /\ m'[i].gate = m[i].gate /\ m'[i].usage = m[i].usage
              /\ m'[i].action = m[i].action \/ m'[i].action = "BLOCKED"
              /\ m[i].pc \in After => m'[i].pc \in After
              /\ m'[i].pc \in Before => m[i].pc \in Before
              /\ m'[i].pc # "new"
              /\ m'[i].pc = "load" => m[i].pc = "load" \/ Start(i)
  <1>1. m[i] \in MasterRow /\ TypeOK
    BY DEF TypeInv, TypeOK
  <1>. DEFINE Kept1 == /\ m'[i].gate = m[i].gate /\ m'[i].usage = m[i].usage
                       /\ m'[i].action = m[i].action \/ m'[i].action = "BLOCKED"
                       /\ m[i].pc \in After => m'[i].pc \in After
                       /\ m'[i].pc \in Before => m[i].pc \in Before
                       /\ m'[i].pc # "new"
                       /\ m'[i].pc = "load" => m[i].pc = "load" \/ Start(i)
  <1>2. ASSUME NEW pc \in PC, Goto(i, pc), m[i].pc \in After => pc \in After,
               pc \in Before => m[i].pc \in Before, pc \notin {"new", "load"}
        PROVE  Kept1
    <2>1. m'[i] = [m[i] EXCEPT !.pc = pc]
      BY <1>1, <1>2, GoingTypes
    <2>. QED  BY <1>1, <1>2, <2>1 DEF MasterRow
  <1>3. ASSUME NEW r \in {"blocked", "rejected", "failed"}, Conclude(i, r)
        PROVE  Kept1
    <2>1. m'[i] = [m[i] EXCEPT !.pc = "row", !.action = "BLOCKED", !.result = r]
      BY <1>1, <1>3, ConcludingTypes
    <2>. QED  BY <1>1, <2>1 DEF MasterRow, After, Before
  <1>4. CASE Start(i)
    BY <1>1, <1>4, StartRow DEF Start, At, After, Before, MasterRow
  <1>5. CASE LoadState(i)
    BY <1>1, <1>5, LoadStateRow DEF LoadState, At, After, Before, MasterRow
  <1>6. CASE InsertState(i)
    <2>1. \/ m'[i] = [m[i] EXCEPT !.pc = "error"]
          \/ m'[i] = [m[i] EXCEPT !.load = m[i].load \ {"insert"}]
      BY <1>1, <1>6, InsertStateRow
    <2>. QED  BY <1>1, <1>6, <2>1 DEF InsertState, At, After, Before, MasterRow
  <1>7. CASE Loaded(i)
    BY <1>2, <1>7 DEF Loaded, At, PC, After, Before
  <1>8. CASE Authorize(i)
    BY <1>2, <1>3, <1>8 DEF Authorize, At, PC, After, Before
  <1>9. CASE \E d \in Decisions, u \in Usages : ModelAnswers(i, d, u)
    <2>1. PICK d \in Decisions, u \in Usages : ModelAnswers(i, d, u)
      BY <1>9
    <2>2. m'[i] = Answered(i, d, u)
      BY <1>1, <2>1, ModelAnswersRow
    <2>3. /\ m'[i].gate = m[i].gate /\ m'[i].usage = m[i].usage /\ m'[i].action = m[i].action
          /\ m'[i].pc = "tokens"
      BY <1>1, <2>2 DEF Answered, MasterRow
    <2>. QED  BY <2>1, <2>3 DEF ModelAnswers, At, After, Before
  <1>10. CASE \E transient \in BOOLEAN : ModelFails(i, transient)
    <2>1. CASE Conclude(i, "failed")
      BY <1>3, <2>1
    <2>2. CASE m'[i] = [m[i] EXCEPT !.attempt = m[i].attempt + 1]
      BY <1>1, <1>10, <2>2 DEF ModelFails, At, After, Before, MasterRow
    <2>. QED  BY <1>1, <1>10, <2>1, <2>2, ModelFailsRow
  <1>11. CASE RecordTokens(i)
    BY <1>2, <1>11 DEF RecordTokens, At, PC, After, Before
  <1>12. CASE RecordDollars(i)
    BY <1>2, <1>12 DEF RecordDollars, At, PC, After, Before
  <1>13. CASE ListTasks(i)
    BY <1>1, <1>13, ListTasksRow DEF ListTasks, At, After, Before, MasterRow
  <1>14. CASE CreateTask(i)
    <2>1. CASE Conclude(i, "rejected")
      BY <1>3, <2>1
    <2>2. CASE ~Conclude(i, "rejected")
      <3>1. m'[i] = [m[i] EXCEPT !.pc = "depend", !.todo = m[i].todo \ {NextKey(i)},
                               !.task = NewTask(i), !.known = m[i].known \cup {NewTask(i)},
                               !.deps = DependsOn(i, NewProposal(i))]
        BY <1>14, <2>2, CreateTaskRow
      <3>. QED  BY <1>1, <1>14, <3>1 DEF CreateTask, At, After, Before, MasterRow
    <2>. QED  BY <2>1, <2>2
  <1>15. CASE AddDependency(i)
    <2>1. CASE m'[i] = [m[i] EXCEPT !.deps = Tail(m[i].deps)]
      BY <1>1, <1>15, <2>1 DEF AddDependency, At, After, Before, MasterRow
    <2>2. m[i].pc = "depend"
      BY <1>15 DEF AddDependency, At
    <2>. QED  BY <1>2, <1>3, <1>15, <2>1, <2>2, AddDependencyRow DEF PC, After, Before
  <1>16. CASE SyncRead(i)
    BY <1>1, <1>16, SyncReadRow DEF SyncRead, At, After, Before, MasterRow
  <1>17. CASE SetActive(i)
    BY <1>2, <1>17 DEF SetActive, At, PC, After, Before
  <1>18. CASE WriteRow(i)
    BY <1>2, <1>18 DEF WriteRow, At, PC, After, Before
  <1>19. CASE UpdatePhase(i)
    BY <1>2, <1>19 DEF UpdatePhase, At, PC, After, Before
  <1>20. CASE EnqueueRead(i)
    BY <1>1, <1>20, EnqueueReadRow DEF EnqueueRead, At, After, Before, MasterRow
  <1>21. CASE EnqueueWrite(i)
    BY <1>2, <1>21 DEF EnqueueWrite, At, PC, After, Before
  <1>. QED
    BY <1>4, <1>5, <1>6, <1>7, <1>8, <1>9, <1>10, <1>11, <1>12, <1>13, <1>14, <1>15, <1>16,
       <1>17, <1>18, <1>19, <1>20, <1>21 DEF MasterStep

LEMMA OwnGroundsStep ==
    ASSUME TypeInv, NEW i \in Masters, GroundsOK(i), MasterStep(i)
    PROVE  GroundsOK(i)'
  <1>1. m[i] \in MasterRow /\ TypeOK /\ project' = project
    BY TablesStep DEF TypeInv, TypeOK
  <1>2. CASE \E part \in {"budget", "contract", "criteria", "rest"} : LoadPart(i, part)
    <2>1. PICK part \in {"budget", "contract", "criteria", "rest"} : LoadPart(i, part)
      BY <1>2
    <2>2. m'[i] = [m[i] EXCEPT !.load = m[i].load \ {part},
                               !.usage = IF part = "budget" THEN usage ELSE m[i].usage,
                               !.gate = GateAfter(i, part)]
      BY <1>1, <2>1, LoadPartRow
    <2>3. m'[i].gate = GateAfter(i, part) /\ m'[i].action = m[i].action
      BY <1>1, <2>2 DEF MasterRow
    <2>4. m[i].action # "FINISHED"
      BY <2>1 DEF GroundsOK, After, LoadPart, At
    <2>5. m[i].gate \in GateInput /\ project \in GateInput
      BY <1>1 DEF MasterRow, TypeOK
    <2>. DEFINE g == m[i].gate
                G == GateAfter(i, part)
                S == seen[i]
    <2>11. m[i].pc = "load" /\ m'[i].pc = "load" /\ seen'[i] = S
      <3>1. m[i].pc = "load"
        BY <2>1 DEF LoadPart, At
      <3>2. ~Start(i) /\ ~Decide(i)
        BY <3>1 DEF Start, Decide, At
      <3>3. seen' = seen
        BY <1>1, <3>2, SeenStep
      <3>4. m'[i].pc = m[i].pc
        BY <1>1, <2>2 DEF MasterRow
      <3>. QED  BY <3>1, <3>3, <3>4
    <2>12. project \in S /\ ReadOK(g, S)
      BY <2>11 DEF GroundsOK, Before
    <2>7. ASSUME part = "contract"  PROVE ReadOK(G, S)
      <3>1. G = [g EXCEPT !.contract = project.contract]
        BY <2>7 DEF GateAfter
      <3>2. /\ G.contract = project.contract /\ G.criterion = g.criterion
            /\ G.blocked = g.blocked /\ G.verified = g.verified
            /\ G.regression = g.regression /\ G.evidence = g.evidence
        BY <2>5, <3>1 DEF GateInput
      <3>. QED  BY <2>12, <3>2 DEF ReadOK
    <2>8. ASSUME part = "criteria"  PROVE ReadOK(G, S)
      <3>1. G = [g EXCEPT !.criterion = project.criterion]
        BY <2>8 DEF GateAfter
      <3>2. /\ G.contract = g.contract /\ G.criterion = project.criterion
            /\ G.blocked = g.blocked /\ G.verified = g.verified
            /\ G.regression = g.regression /\ G.evidence = g.evidence
        BY <2>5, <3>1 DEF GateInput
      <3>. QED  BY <2>12, <3>2 DEF ReadOK
    <2>9. ASSUME part = "rest"  PROVE ReadOK(G, S)
      <3>1. G = [project EXCEPT !.contract = g.contract, !.criterion = g.criterion]
        BY <2>9 DEF GateAfter
      <3>2. /\ G.contract = g.contract /\ G.criterion = g.criterion
            /\ G.blocked = project.blocked /\ G.verified = project.verified
            /\ G.regression = project.regression /\ G.evidence = project.evidence
        BY <2>5, <3>1 DEF GateInput
      <3>. QED  BY <2>12, <3>2 DEF ReadOK
    <2>10. ASSUME part = "budget"  PROVE ReadOK(G, S)
      <3>1. G = g
        BY <2>10 DEF GateAfter
      <3>. QED  BY <2>12, <3>1
    <2>13. ReadOK(G, S)
      BY <2>7, <2>8, <2>9, <2>10
    <2>. QED  BY <1>1, <2>3, <2>4, <2>11, <2>12, <2>13 DEF GroundsOK
  <1>3. CASE Decide(i)
    <2>1. m[i].pc = "decide"
      BY <1>3 DEF Decide, At
    <2>2. CASE Conclude(i, "rejected")
      <3>1. m'[i] = [m[i] EXCEPT !.pc = "row", !.action = "BLOCKED", !.result = "rejected"]
        BY <1>1, <2>2, ConcludingTypes
      <3>2. m'[i].pc = "row" /\ m'[i].action # "FINISHED"
        BY <1>1, <3>1 DEF MasterRow
      <3>. QED  BY <3>2 DEF GroundsOK, Before
    <2>3. CASE ~Conclude(i, "rejected")
      <3>1. /\ ValidDecision(m[i].decision)
            /\ m'[i] = [m[i] EXCEPT
                  !.pc = IF Enforced(i) \in Planning THEN "list" ELSE "row",
                  !.action = Enforced(i),
                  !.result = IF Enforced(i) = "BLOCKED" THEN "blocked" ELSE "completed"]
        BY <1>1, <1>3, <2>3, DecideRow
      <3>2. /\ m'[i].gate = m[i].gate /\ m'[i].action = Enforced(i)
            /\ m'[i].pc = IF Enforced(i) \in Planning THEN "list" ELSE "row"
        BY <1>1, <3>1 DEF MasterRow
      <3>3. Enforced(i) = "FINISHED" => FinishedGate(m[i].gate)
        BY DEF Enforced
      <3>4. Enforced(i) = "FINISHED" => m'[i].pc \in After
        BY <3>2 DEF Planning, After
      <3>5. Enforced(i) = "FINISHED" => seen'[i] = seen[i]
        BY <1>1, <1>3, <3>1, SeenStep DEF Start, Decide, At
      <3>6. ReadOK(m[i].gate, seen[i])
        BY <2>1 DEF GroundsOK, Before
      <3>. QED  BY <3>2, <3>3, <3>4, <3>5, <3>6 DEF GroundsOK, Before
    <2>. QED  BY <2>2, <2>3
  <1>4. CASE Start(i)
    <2>1. m'[i] = [m[i] EXCEPT !.pc = "load", !.load = Parts \ {"insert"}]
      BY <1>1, <1>4, StartRow
    <2>2. m'[i].pc = "load" /\ m'[i].gate = m[i].gate /\ m'[i].action = m[i].action
      BY <1>1, <2>1 DEF MasterRow
    <2>3. m[i].pc = "new" /\ m[i].action # "FINISHED" /\ m[i].gate = EmptyProject
      BY <1>4 DEF Start, At, GroundsOK, After
    <2>4. project' \in seen'[i]
      BY <1>1, <1>4, SeenStep DEF Start, Decide, At
    <2>. QED  BY <2>2, <2>3, <2>4, ReadOKNothing DEF GroundsOK
  <1>5. CASE ~Start(i) /\ ~Decide(i)
             /\ ~ \E part \in {"budget", "contract", "criteria", "rest"} : LoadPart(i, part)
    <2>1. /\ m'[i].gate = m[i].gate
          /\ m'[i].action = m[i].action \/ m'[i].action = "BLOCKED"
          /\ m[i].pc \in After => m'[i].pc \in After
          /\ m'[i].pc \in Before => m[i].pc \in Before
          /\ m'[i].pc # "new"
          /\ m'[i].pc = "load" => m[i].pc = "load"
      BY <1>5, KeepsStep
    <2>2. seen' = seen
      BY <1>1, <1>5, SeenStep
    <2>3. m'[i].action = "FINISHED" => m[i].action = "FINISHED"
      BY <2>1
    <2>. QED  BY <1>1, <2>1, <2>2, <2>3 DEF GroundsOK
  <1>. QED  BY <1>2, <1>3, <1>4, <1>5

LEMMA GroundsInvStep == GroundsInv /\ [Next]_vars => GroundsInv'
  <1>. SUFFICES ASSUME GroundsInv, [Next]_vars  PROVE \A j \in Masters : GroundsOK(j)'
    BY TypeInvStep DEF GroundsInv
  <1>1. TypeInv /\ TypeOK /\ \A j \in Masters : GroundsOK(j)
    BY DEF GroundsInv, TypeInv
  <1>2. CASE \E i \in Masters : MasterStep(i)
    <2>1. PICK i \in Masters : MasterStep(i)
      BY <1>2
    <2>2. ASSUME NEW j \in Masters, j # i
          PROVE  GroundsOK(j)'
      <3>1. m'[j] = m[j] /\ project' = project /\ seen'[j] = seen[j]
        BY <1>1, <2>1, <2>2, RowsStep, TablesStep, SeenStep DEF OthersStay
      <3>. QED  BY <1>1, <3>1 DEF GroundsOK
    <2>. QED  BY <1>1, <2>1, <2>2, OwnGroundsStep
  <1>3. CASE ProjectStep
    <2>1. m' = m /\ \A j \in Masters : MayRead(j)
      BY <1>1, <1>3, ProjectStepTypes
    <2>2. ASSUME NEW j \in Masters  PROVE GroundsOK(j)'
      <3>1. GroundsOK(j) /\ MayRead(j)
        BY <1>1, <2>1
      <3>2. m[j].pc = "load" => project' \in seen'[j]
        BY <3>1 DEF GroundsOK, MayRead
      <3>3. m[j].pc \in Before \/ m[j].action = "FINISHED" => ReadOK(m[j].gate, seen'[j])
        BY <3>1, ReadOKMore DEF GroundsOK, MayRead
      <3>. QED  BY <2>1, <3>1, <3>2, <3>3 DEF GroundsOK
    <2>. QED  BY <2>2
  <1>4. CASE UNCHANGED vars
    BY <1>1, <1>4 DEF vars, GroundsOK
  <1>. QED  BY <1>2, <1>3, <1>4 DEF Next

\* A run whose FINISHED is enforced has found every one of the gate's grounds in its own
\* load: the contract, that very contract's criterion at PASS, no open blocker, a verified
\* acceptance, a passing regression and the evidence, each true of the project at some time
\* while the run was loading (FinishedHadGrounds), though the reads are spread over time.
THEOREM FinishedIsGrounded == Spec => []FinishedHadGrounds
  <1>1. Init => GroundsInv
    <2>. SUFFICES ASSUME Init  PROVE \A i \in Masters : GroundsOK(i)
      BY TypeInvInit DEF GroundsInv
    <2>1. \A i \in Masters :
             m[i].pc = "new" /\ m[i].gate = EmptyProject /\ m[i].action = "BLOCKED"
      BY DEF Init
    <2>. QED  BY <2>1, ReadOKNothing DEF GroundsOK
  <1>2. Spec => []GroundsInv
    BY <1>1, GroundsInvStep, PTL DEF Spec
  <1>3. GroundsInv => FinishedHadGrounds
    <2>. SUFFICES ASSUME GroundsInv, NEW i \in Masters, m[i].action = "FINISHED"
                  PROVE  LET v == m[i].gate.contract
                         IN  /\ v # 0
                             /\ \E p \in seen[i] : p.contract = v
                             /\ \E p \in seen[i] : p.criterion[v] = "PASS"
                             /\ \E p \in seen[i] : ~p.blocked
                             /\ \E p \in seen[i] : p.verified
                             /\ \E p \in seen[i] : p.regression = "PASS"
                             /\ \E p \in seen[i] : p.evidence
      BY DEF FinishedHadGrounds
    <2>1. FinishedGate(m[i].gate) /\ ReadOK(m[i].gate, seen[i])
      BY DEF GroundsInv, GroundsOK
    <2>2. m[i].gate.contract \in 1 .. MaxVersions
      BY <2>1, OverlapTypes
         DEF GroundsInv, TypeInv, TypeOK, MasterRow, GateInput, FinishedGate
    <2>. QED  BY <2>1, <2>2 DEF FinishedGate, ReadOK
  <1>. QED  BY <1>2, <1>3, PTL

-----------------------------------------------------------------------------
(* One run after the other.                                                *)

Open == {t \in TaskIds : tasks[t] = "open"}
AloneOK ==
    overlap = 1 =>
        /\ \A i, j \in InFlight : i = j
        /\ \A j \in Masters : rows[j].created \cap Open \subseteq state.active
        /\ \A i \in InFlight :
              /\ m[i].pc = "setactive" =>
                    (state.active \cup Created(i)) \cap Open \subseteq m[i].active
              /\ m[i].pc = "row" /\ m[i].action \in Planning =>
                    Created(i) \cap Open \subseteq state.active
AloneInv == RunInv /\ AloneOK

\* Most steps leave alone the active tasks, the tasks and the rows.
Aside(i) ==
    /\ state'.active = state.active /\ UNCHANGED <<tasks, rows>>
    /\ m[i].pc \notin {"new", "done", "error"}
    /\ m'[i].pc # "setactive"
    /\ m'[i].pc = "row" => m'[i].action \notin Planning

LEMMA AsideStep ==
    ASSUME TypeInv, NEW i \in Masters, MasterStep(i)
    PROVE  \/ Start(i) \/ CreateTask(i) \/ SyncRead(i) \/ SetActive(i) \/ WriteRow(i)
           \/ Aside(i)
  <1>1. m[i] \in MasterRow /\ TypeOK /\ state \in StateRow
    BY DEF TypeInv, TypeOK
  <1>2. ASSUME NEW pc \in PC, Goto(i, pc)
        PROVE  m'[i].pc = pc
    <2>1. m'[i] = [m[i] EXCEPT !.pc = pc]
      BY <1>1, <1>2, GoingTypes
    <2>. QED  BY <1>1, <2>1 DEF MasterRow
  <1>3. ASSUME NEW r \in {"blocked", "rejected", "failed"}, Conclude(i, r)
        PROVE  m'[i].pc = "row" /\ m'[i].action \notin Planning
    <2>1. m'[i] = [m[i] EXCEPT !.pc = "row", !.action = "BLOCKED", !.result = r]
      BY <1>1, <1>3, ConcludingTypes
    <2>. QED  BY <1>1, <2>1 DEF MasterRow, Planning
  <1>4. CASE LoadState(i)
    BY <1>1, <1>4, LoadStateRow DEF LoadState, At, Aside, MasterRow
  <1>5. CASE InsertState(i)
    <2>1. \/ m'[i] = [m[i] EXCEPT !.pc = "error"]
          \/ m'[i] = [m[i] EXCEPT !.load = m[i].load \ {"insert"}]
      BY <1>1, <1>5, InsertStateRow
    <2>2. m[i].pc = "load" /\ m'[i].pc \in {"load", "error"}
      BY <1>1, <1>5, <2>1 DEF InsertState, At, MasterRow
    <2>3. state'.active = state.active /\ UNCHANGED <<tasks, rows>>
      BY <1>1, <1>5 DEF InsertState, StateRow
    <2>. QED  BY <2>2, <2>3 DEF Aside
  <1>6. CASE Loaded(i)
    BY <1>2, <1>6 DEF Loaded, At, PC, Aside
  <1>7. CASE Authorize(i)
    <2>1. m[i].pc = "authorize" /\ UNCHANGED <<state, tasks, rows>>
      BY <1>7 DEF Authorize, At
    <2>2. Goto(i, "call") \/ Conclude(i, "blocked")
      BY <1>7 DEF Authorize
    <2>. QED  BY <1>2, <1>3, <2>1, <2>2 DEF PC, Aside
  <1>8. CASE \E part \in {"budget", "contract", "criteria", "rest"} : LoadPart(i, part)
    <2>1. PICK part \in {"budget", "contract", "criteria", "rest"} : LoadPart(i, part)
      BY <1>8
    <2>2. m'[i] = [m[i] EXCEPT !.load = m[i].load \ {part},
                               !.usage = IF part = "budget" THEN usage ELSE m[i].usage,
                               !.gate = GateAfter(i, part)]
      BY <1>1, <2>1, LoadPartRow
    <2>3. m'[i].pc = m[i].pc
      BY <1>1, <2>2 DEF MasterRow
    <2>. QED  BY <2>1, <2>3 DEF LoadPart, At, Aside
  <1>9. CASE \E d \in Decisions, u \in Usages : ModelAnswers(i, d, u)
    <2>1. PICK d \in Decisions, u \in Usages : ModelAnswers(i, d, u)
      BY <1>9
    <2>2. m'[i] = Answered(i, d, u)
      BY <1>1, <2>1, ModelAnswersRow
    <2>3. m'[i].pc = "tokens"
      BY <1>1, <2>2 DEF Answered, MasterRow
    <2>. QED  BY <2>1, <2>3 DEF ModelAnswers, At, Aside
  <1>10. CASE \E transient \in BOOLEAN : ModelFails(i, transient)
    <2>1. m[i].pc = "call" /\ UNCHANGED <<state, tasks, rows>>
      BY <1>10 DEF ModelFails, At
    <2>2. CASE Conclude(i, "failed")
      BY <1>3, <2>1, <2>2 DEF Aside
    <2>3. CASE m'[i] = [m[i] EXCEPT !.attempt = m[i].attempt + 1]
      BY <1>1, <2>1, <2>3 DEF Aside, MasterRow
    <2>. QED  BY <1>1, <1>10, <2>2, <2>3, ModelFailsRow
  <1>11. CASE RecordTokens(i)
    BY <1>2, <1>11 DEF RecordTokens, At, PC, Aside
  <1>12. CASE RecordDollars(i)
    BY <1>2, <1>12 DEF RecordDollars, At, PC, Aside
  <1>13. CASE Decide(i)
    <2>1. m[i].pc = "decide" /\ UNCHANGED <<state, tasks, rows>>
      BY <1>13 DEF Decide, At
    <2>2. CASE Conclude(i, "rejected")
      BY <1>3, <2>1, <2>2 DEF Aside
    <2>3. CASE ~Conclude(i, "rejected")
      <3>1. m'[i] = [m[i] EXCEPT
                  !.pc = IF Enforced(i) \in Planning THEN "list" ELSE "row",
                  !.action = Enforced(i),
                  !.result = IF Enforced(i) = "BLOCKED" THEN "blocked" ELSE "completed"]
        BY <1>1, <1>13, <2>3, DecideRow
      <3>2. /\ m'[i].action = Enforced(i)
            /\ m'[i].pc = IF Enforced(i) \in Planning THEN "list" ELSE "row"
        BY <1>1, <3>1 DEF MasterRow
      <3>. QED  BY <2>1, <3>2 DEF Aside
    <2>. QED  BY <2>2, <2>3
  <1>14. CASE ListTasks(i)
    BY <1>1, <1>14, ListTasksRow DEF ListTasks, At, Aside, MasterRow
  <1>15. CASE AddDependency(i)
    <2>1. m[i].pc = "depend" /\ UNCHANGED <<state, tasks, rows>>
      BY <1>15 DEF AddDependency, At
    <2>2. CASE m'[i] = [m[i] EXCEPT !.deps = Tail(m[i].deps)]
      BY <1>1, <2>1, <2>2 DEF Aside, MasterRow
    <2>3. CASE Goto(i, "create") \/ Conclude(i, "rejected")
      BY <1>2, <1>3, <2>1, <2>3 DEF PC, Aside
    <2>. QED  BY <1>15, <2>2, <2>3, AddDependencyRow
  <1>16. CASE UpdatePhase(i)
    <2>1. state'.active = state.active
      BY <1>1, <1>16 DEF UpdatePhase, StateRow
    <2>. QED  BY <1>2, <1>16, <2>1 DEF UpdatePhase, At, PC, Aside
  <1>17. CASE EnqueueRead(i)
    BY <1>1, <1>17, EnqueueReadRow DEF EnqueueRead, At, Aside, MasterRow
  <1>18. CASE EnqueueWrite(i)
    <2>1. state'.active = state.active
      BY <1>1, <1>18 DEF EnqueueWrite, StateRow
    <2>. QED  BY <1>2, <1>18, <2>1 DEF EnqueueWrite, At, PC, Aside
  <1>. QED
    BY <1>4, <1>5, <1>6, <1>7, <1>8, <1>9, <1>10, <1>11, <1>12, <1>13, <1>14, <1>15, <1>16,
       <1>17, <1>18 DEF MasterStep

LEMMA InFlightIsFinite == IsFiniteSet(InFlight) /\ Cardinality(InFlight) \in Nat
  BY MasterAssumption, FS_Subset, FS_CardinalityType DEF InFlight

\* The task that is created was not there.
LEMMA NewTaskIsNew ==
    ASSUME RunInv, NEW i \in Masters, CreateTask(i)
    PROVE  tasks[NewTask(i)] = "absent"
  <1>1. CreatingOK(i) /\ NextKey(i) \in m[i].todo /\ NewTask(i) \in NewTasks
    BY CreateTaskRow DEF RunInv, RunOK, CreateTask, At
  <1>2. NewTask(i) = <<i, NextKey(i)>> /\ NextKey(i) \notin Kept(i)
    BY <1>1 DEF NewTask, Kept
  <1>3. NewTask(i) \notin Created(i)
    BY <1>1, <1>2 DEF CreatingOK
  <1>. QED  BY <1>1, <1>2, <1>3 DEF Created

LEMMA AloneStep ==
    ASSUME AloneInv, NEW i \in Masters, MasterStep(i), overlap = 1
    PROVE  AloneOK'
  <1>1. TypeInv /\ RunInv /\ TypeOK /\ m[i] \in MasterRow /\ state \in StateRow
    BY DEF AloneInv, RunInv, TypeInv, TypeOK
  <1>2. OthersStay(i) /\ m' \in [Masters -> MasterRow] /\ overlap' = 1
    BY <1>1, RowsStep, TablesStep
  <1>3. /\ \A a, b \in InFlight : a = b
        /\ \A j \in Masters : rows[j].created \cap Open \subseteq state.active
    BY DEF AloneInv, AloneOK
  <1>. DEFINE Own == /\ m'[i].pc = "setactive" =>
                           (state'.active \cup Created(i)') \cap Open' \subseteq m'[i].active
                     /\ m'[i].pc = "row" /\ m'[i].action \in Planning =>
                           Created(i)' \cap Open' \subseteq state'.active
              Told == \A j \in Masters : rows'[j].created \cap Open' \subseteq state'.active
  <1>4. ASSUME m[i].pc \notin {"new", "done", "error"}, Own, Told
        PROVE  AloneOK'
    <2>1. i \in InFlight
      BY <1>4 DEF InFlight
    <2>2. InFlight' \subseteq {i}
      BY <1>2, <1>3, <2>1 DEF InFlight, OthersStay
    <2>. QED  BY <1>2, <1>4, <2>2 DEF AloneOK
  <1>5. \A j \in Masters : rows[j].created \subseteq Created(j)
    BY <1>1 DEF RunInv, RunOK
  <1>6. CASE Start(i)
    <2>1. Cardinality(InFlight) = 0
      BY <1>6, InFlightIsFinite DEF Start
    <2>2. InFlight = {}
      BY <2>1, InFlightIsFinite, FS_EmptySet
    <2>3. InFlight' \subseteq {i}
      BY <1>2, <2>2 DEF InFlight, OthersStay
    <2>4. m'[i] = [m[i] EXCEPT !.pc = "load", !.load = Parts \ {"insert"}]
      BY <1>1, <1>6, StartRow
    <2>5. m'[i].pc = "load"
      BY <1>1, <2>4 DEF MasterRow
    <2>6. UNCHANGED <<state, tasks, rows>>
      BY <1>6 DEF Start
    <2>. QED  BY <1>3, <2>3, <2>5, <2>6 DEF AloneOK, Open
  <1>7. CASE CreateTask(i)
    <2>1. UNCHANGED <<state, rows>> /\ m[i].pc = "create"
      BY <1>7 DEF CreateTask, At
    <2>2. CASE Conclude(i, "rejected") /\ tasks' = tasks
      <3>1. m'[i] = [m[i] EXCEPT !.pc = "row", !.action = "BLOCKED", !.result = "rejected"]
        BY <1>1, <2>2, ConcludingTypes
      <3>2. m'[i].pc = "row" /\ m'[i].action = "BLOCKED"
        BY <1>1, <3>1 DEF MasterRow
      <3>3. Told
        BY <1>3, <2>1, <2>2 DEF Open
      <3>. QED  BY <1>4, <2>1, <3>2, <3>3 DEF Planning
    <2>3. CASE ~(Conclude(i, "rejected") /\ tasks' = tasks)
      <3>1. /\ NewTask(i) \in NewTasks /\ tasks' = [tasks EXCEPT ![NewTask(i)] = "open"]
            /\ m'[i] = [m[i] EXCEPT !.pc = "depend", !.todo = m[i].todo \ {NextKey(i)},
                               !.task = NewTask(i), !.known = m[i].known \cup {NewTask(i)},
                               !.deps = DependsOn(i, NewProposal(i))]
        BY <1>1, <1>7, <2>3, CreateTaskRow
      <3>2. m'[i].pc = "depend"
        BY <1>1, <3>1 DEF MasterRow
      <3>3. tasks[NewTask(i)] = "absent"
        BY <1>1, <1>7, NewTaskIsNew
      <3>4. \A j \in Masters : NewTask(i) \notin rows[j].created
        BY <1>5, <3>3 DEF Created
      <3>5. \A t \in Open' : t \in Open \/ t = NewTask(i)
        BY <1>1, <3>1 DEF Open, TypeOK
      <3>6. Told
        BY <1>3, <2>1, <3>4, <3>5
      <3>. QED  BY <1>4, <2>1, <3>2, <3>6
    <2>. QED  BY <2>2, <2>3
  <1>8. CASE SyncRead(i)
    <2>1. UNCHANGED <<state, tasks, rows>> /\ m[i].pc = "create"
      BY <1>8 DEF SyncRead, At
    <2>2. m'[i] = [m[i] EXCEPT !.pc = "setactive", !.active = NextActive(state.active, Created(i))]
      BY <1>1, <1>8, SyncReadRow
    <2>3. m'[i].pc = "setactive" /\ m'[i].active = NextActive(state.active, Created(i))
      BY <1>1, <2>2 DEF MasterRow
    <2>4. Created(i)' = Created(i) /\ Open' = Open
      BY <2>1 DEF Created, Open
    <2>5. Told
      BY <1>3, <2>1, <2>4
    <2>6. (state.active \cup Created(i)) \cap Open \subseteq NextActive(state.active, Created(i))
      BY DEF NextActive, Open
    <2>7. Own
      BY <2>1, <2>3, <2>4, <2>6
    <2>. QED  BY <1>4, <2>1, <2>5, <2>7
  <1>9. CASE SetActive(i)
    <2>1. UNCHANGED <<tasks, rows>> /\ m[i].pc = "setactive"
      BY <1>9 DEF SetActive, At
    <2>2. state'.active = m[i].active
      BY <1>1, <1>9 DEF SetActive, StateRow
    <2>3. m'[i] = [m[i] EXCEPT !.pc = "row"]
      BY <1>1, <1>9, GoingTypes DEF SetActive, PC
    <2>4. m'[i].pc = "row"
      BY <1>1, <2>3 DEF MasterRow
    <2>5. i \in InFlight
      BY <2>1 DEF InFlight
    <2>6. (state.active \cup Created(i)) \cap Open \subseteq m[i].active
      BY <2>1, <2>5 DEF AloneInv, AloneOK
    <2>7. Created(i)' = Created(i) /\ Open' = Open
      BY <2>1 DEF Created, Open
    <2>8. Told
      BY <1>3, <2>1, <2>2, <2>6, <2>7
    <2>9. Own
      BY <2>2, <2>4, <2>6, <2>7
    <2>. QED  BY <1>4, <2>1, <2>8, <2>9
  <1>10. CASE WriteRow(i)
    <2>1. UNCHANGED <<state, tasks>> /\ m[i].pc = "row"
      BY <1>10 DEF WriteRow, At
    <2>2. /\ \A j \in Masters \ {i} : rows'[j] = rows[j]
          /\ rows'[i].created = IF m[i].action \in Planning THEN Created(i) ELSE {}
      BY <1>1, <1>10 DEF WriteRow, TypeOK, Planning
    <2>3. m'[i] = [m[i] EXCEPT !.pc = "phase"]
      BY <1>1, <1>10, GoingTypes DEF WriteRow, PC
    <2>4. m'[i].pc = "phase"
      BY <1>1, <2>3 DEF MasterRow
    <2>5. m[i].action \in Planning => Created(i) \cap Open \subseteq state.active
      BY <2>1 DEF AloneInv, AloneOK, InFlight
    <2>6. Open' = Open
      BY <2>1 DEF Open
    <2>7. Told
      BY <1>3, <2>1, <2>2, <2>5, <2>6
    <2>. QED  BY <1>4, <2>1, <2>4, <2>7
  <1>11. CASE Aside(i)
    <2>1. Open' = Open
      BY <1>11 DEF Aside, Open
    <2>2. Told
      BY <1>3, <1>11, <2>1 DEF Aside
    <2>. QED  BY <1>4, <1>11, <2>2 DEF Aside
  <1>. QED  BY <1>1, <1>6, <1>7, <1>8, <1>9, <1>10, <1>11, AsideStep

LEMMA AloneInvStep == AloneInv /\ [Next]_vars => AloneInv'
  <1>. SUFFICES ASSUME AloneInv, [Next]_vars  PROVE AloneOK'
    BY RunInvStep DEF AloneInv
  <1>1. RunInv /\ TypeInv /\ AloneOK /\ TypeOK
    BY DEF AloneInv, RunInv, TypeInv
  <1>2. CASE \E i \in Masters : MasterStep(i)
    <2>1. PICK i \in Masters : MasterStep(i)
      BY <1>2
    <2>2. overlap' = overlap
      BY <1>1, <2>1, TablesStep
    <2>. QED  BY <2>1, <2>2, AloneStep DEF AloneOK
  <1>3. CASE ProjectStep
    <2>1. UNCHANGED <<state, rows, m, overlap>>
      BY <1>1, <1>3, ProjectStepTypes
    <2>2. \/ tasks' = tasks
          \/ \E t \in TaskIds : tasks[t] = "open" /\ tasks' = [tasks EXCEPT ![t] = "terminal"]
      BY <1>1, <1>3, ProjectStepTypes
    <2>3. tasks \in [TaskIds -> {"absent", "open", "terminal"}] /\ NewTasks \subseteq TaskIds
      BY <1>1 DEF TypeOK, TaskIds
    <2>4. Open' \subseteq Open
      BY <2>2, <2>3 DEF Open
    <2>5. \A i \in Masters : Created(i)' = Created(i)
      BY <2>2, <2>3 DEF Created
    <2>6. InFlight' = InFlight
      BY <2>1 DEF InFlight
    <2>. QED  BY <1>1, <2>1, <2>4, <2>5, <2>6 DEF AloneOK, InFlight
  <1>4. CASE UNCHANGED vars
    BY <1>1, <1>4 DEF vars, AloneOK, Open, InFlight, Created
  <1>. QED  BY <1>2, <1>3, <1>4 DEF Next

\* Of runs that do not overlap, every open task that some row names is among the active
\* ones when no run is in flight (NewTasksAreActive): the list that a run writes over was
\* read when no other could change it.
THEOREM ActiveTasksAreKept == Spec => []NewTasksAreActive
  <1>1. Init => AloneInv
    <2>. SUFFICES ASSUME Init  PROVE AloneOK
      BY RunInvInit DEF AloneInv
    <2>1. InFlight = {} /\ \A j \in Masters : rows[j].created = {}
      BY DEF Init, InFlight
    <2>. QED  BY <2>1 DEF AloneOK
  <1>2. Spec => []AloneInv
    BY <1>1, AloneInvStep, PTL DEF Spec
  <1>3. ASSUME AloneInv, overlap = 1, NEW i \in Masters, NEW t \in rows[i].created,
               tasks[t] = "open"
        PROVE  t \in state.active
    <2>1. t \in TaskIds
      BY <1>3 DEF AloneInv, RunInv, RunOK, Created, TaskIds
    <2>. QED  BY <1>3, <2>1 DEF AloneInv, AloneOK, Open
  <1>4. AloneInv => NewTasksAreActive
    BY <1>3 DEF NewTasksAreActive
  <1>. QED  BY <1>2, <1>4, PTL

-----------------------------------------------------------------------------
(* The token limit.                                                        *)

\* The runs that have read the ledger, have been let through on it or will be, and have
\* not charged yet.
Pending ==
    {i \in Masters : /\ \/ m[i].pc = "load" /\ "budget" \notin m[i].load
                        \/ m[i].pc \in {"authorize", "call", "tokens"}
                     /\ TokensAllowed(m[i].usage)}
ChargeOK(i) ==
    /\ m[i].pc \in {"call", "tokens"} => TokensAllowed(m[i].usage)
    /\ m[i].pc = "tokens" => m[i].used \in Usages
OvershootOK ==
    /\ Cardinality(InFlight) <= overlap
    /\ \A i \in Masters : ChargeOK(i)
    /\ \/ usage.tokens = 0 /\ Pending = {}
       \/ usage.tokens + LargestCall * Cardinality(Pending)
             <= TokenLimit - Estimate + overlap * LargestCall
OvershootInv == TypeInv /\ OvershootOK

LEMMA LargestCallBounds ==
    LargestCall \in Nat /\ \A u \in Usages : u.tokens \in Nat /\ u.tokens <= LargestCall
  <1>. DEFINE f == [u \in Usages |-> u.tokens]
              T == {u.tokens : u \in Usages} \cup {Estimate}
  <1>1. \A u \in Usages : u.tokens \in Nat
    BY MasterAssumption
  <1>2. f \in [Usages -> Int] /\ Total(f) \in Nat
    BY <1>1, MasterAssumption, TotalType
  <1>3. \A u \in Usages : u.tokens <= Total(f)
    BY <1>2, MasterAssumption, TotalBoundsEach
  <1>. HIDE DEF f
  <1>4. /\ T \subseteq Nat /\ T # {} /\ Total(f) + Estimate \in Nat
        /\ \A n \in T : n <= Total(f) + Estimate
    BY <1>1, <1>2, <1>3, MasterAssumption
  <1>. HIDE DEF T
  <1>5. Max(T) \in T /\ \A n \in T : n <= Max(T)
    BY <1>4, LargestOf
  <1>6. Max(T) \in Nat /\ LargestCall = Max(T)
    BY <1>4, <1>5 DEF LargestCall, T
  <1>. QED  BY <1>1, <1>5, <1>6 DEF T

LEMMA Times == \A a, b, c \in Nat : a <= b => c * a <= c * b
  <1>. SUFFICES ASSUME NEW a \in Nat, NEW b \in Nat, NEW c \in Nat, a <= b
                PROVE  c * a <= c * b
    OBVIOUS
  <1>1. PICK k \in Nat : b = a + k
    <2>1. b - a \in Nat /\ b = a + (b - a)
      OBVIOUS
    <2>. QED  BY <2>1
  <1>2. c * b = c * a + c * k /\ c * k \in Nat /\ c * a \in Nat
    BY <1>1
  <1>. QED  BY <1>2

LEMMA PendingIsFinite ==
    IsFiniteSet(Pending) /\ Cardinality(Pending) \in Nat /\ Pending \subseteq InFlight
  <1>1. Pending \subseteq InFlight
    BY DEF Pending, InFlight
  <1>. QED  BY <1>1, InFlightIsFinite, FS_Subset, FS_CardinalityType

\* Most steps charge nothing and let nobody else through.
Free(i) ==
    /\ usage'.tokens = usage.tokens
    /\ i \in Pending' => i \in Pending
    /\ ChargeOK(i)'

LEMMA FreeStep ==
    ASSUME TypeInv, NEW i \in Masters, ChargeOK(i), MasterStep(i)
    PROVE  LoadPart(i, "budget") \/ RecordTokens(i) \/ Free(i)
  <1>1. m[i] \in MasterRow /\ TypeOK
    BY DEF TypeInv, TypeOK
  <1>. DEFINE Later == PC \ {"load", "authorize", "call", "tokens"}
  <1>2. ASSUME NEW pc \in PC, Goto(i, pc)
        PROVE  m'[i].pc = pc /\ m'[i].usage = m[i].usage /\ m'[i].load = m[i].load
    <2>1. m'[i] = [m[i] EXCEPT !.pc = pc]
      BY <1>1, <1>2, GoingTypes
    <2>. QED  BY <1>1, <2>1 DEF MasterRow
  <1>3. ASSUME m'[i].pc \in Later, usage'.tokens = usage.tokens
        PROVE  Free(i)
    BY <1>3 DEF Free, Pending, ChargeOK
  <1>4. ASSUME NEW r \in {"blocked", "rejected", "failed"}, Conclude(i, r), usage' = usage
        PROVE  Free(i)
    <2>1. m'[i] = [m[i] EXCEPT !.pc = "row", !.action = "BLOCKED", !.result = r]
      BY <1>1, <1>4, ConcludingTypes
    <2>2. m'[i].pc = "row"
      BY <1>1, <2>1 DEF MasterRow
    <2>. QED  BY <1>3, <1>4, <2>2 DEF PC
  <1>5. ASSUME m[i].pc = "load", m'[i].pc = "load", m'[i].usage = m[i].usage, usage' = usage,
               "budget" \notin m'[i].load => "budget" \notin m[i].load
        PROVE  Free(i)
    BY <1>5 DEF Free, Pending, ChargeOK, TokensAllowed
  <1>6. CASE Start(i)
    <2>1. m'[i] = [m[i] EXCEPT !.pc = "load", !.load = Parts \ {"insert"}]
      BY <1>1, <1>6, StartRow
    <2>2. m'[i].pc = "load" /\ "budget" \in m'[i].load
      BY <1>1, <2>1 DEF MasterRow, Parts
    <2>. QED  BY <1>6, <2>2 DEF Start, Free, Pending, ChargeOK
  <1>7. CASE LoadState(i)
    <2>1. m'[i] = [m[i] EXCEPT !.load = (m[i].load \ {"state"})
                                  \cup (IF state.exists THEN {} ELSE {"insert"})]
      BY <1>1, <1>7, LoadStateRow
    <2>2. /\ m'[i].pc = m[i].pc /\ m'[i].usage = m[i].usage
          /\ "budget" \notin m'[i].load => "budget" \notin m[i].load
      BY <1>1, <2>1 DEF MasterRow
    <2>. QED  BY <1>5, <1>7, <2>2 DEF LoadState, At
  <1>8. CASE InsertState(i)
    <2>1. \/ m'[i] = [m[i] EXCEPT !.pc = "error"]
          \/ m'[i] = [m[i] EXCEPT !.load = m[i].load \ {"insert"}]
      BY <1>1, <1>8, InsertStateRow
    <2>2. m[i].pc = "load" /\ usage' = usage
      BY <1>8 DEF InsertState, At
    <2>3. \/ m'[i].pc = "error"
          \/ /\ m'[i].pc = m[i].pc /\ m'[i].usage = m[i].usage
             /\ "budget" \notin m'[i].load => "budget" \notin m[i].load
      BY <1>1, <2>1 DEF MasterRow
    <2>. QED  BY <1>3, <1>5, <2>2, <2>3 DEF PC
  <1>9. CASE Loaded(i)
    <2>1. m'[i].pc = "authorize" /\ m'[i].usage = m[i].usage
      BY <1>2, <1>9 DEF Loaded, PC
    <2>. QED  BY <1>9, <2>1 DEF Loaded, At, Free, Pending, ChargeOK, TokensAllowed
  <1>10. CASE Authorize(i)
    <2>1. CASE Conclude(i, "blocked")
      BY <1>4, <1>10, <2>1 DEF Authorize
    <2>2. CASE ~Conclude(i, "blocked")
      <3>1. TokensAllowed(m[i].usage) /\ Goto(i, "call") /\ m[i].pc = "authorize" /\ usage' = usage
        BY <1>10, <2>2 DEF Authorize, At
      <3>2. m'[i].pc = "call" /\ m'[i].usage = m[i].usage
        BY <1>2, <3>1 DEF PC
      <3>. QED  BY <3>1, <3>2 DEF Free, Pending, ChargeOK, TokensAllowed
    <2>. QED  BY <2>1, <2>2
  <1>11. CASE \E part \in {"contract", "criteria", "rest"} : LoadPart(i, part)
    <2>1. PICK part \in {"contract", "criteria", "rest"} : LoadPart(i, part)
      BY <1>11
    <2>2. m'[i] = [m[i] EXCEPT !.load = m[i].load \ {part},
                               !.usage = IF part = "budget" THEN usage ELSE m[i].usage,
                               !.gate = GateAfter(i, part)]
      BY <1>1, <2>1, LoadPartRow
    <2>3. /\ m'[i].pc = m[i].pc /\ m'[i].usage = m[i].usage
          /\ "budget" \notin m'[i].load => "budget" \notin m[i].load
      BY <1>1, <2>2 DEF MasterRow
    <2>. QED  BY <1>5, <2>1, <2>3 DEF LoadPart, At
  <1>12. CASE \E d \in Decisions, u \in Usages : ModelAnswers(i, d, u)
    <2>1. PICK d \in Decisions, u \in Usages : ModelAnswers(i, d, u)
      BY <1>12
    <2>2. m'[i] = Answered(i, d, u)
      BY <1>1, <2>1, ModelAnswersRow
    <2>3. m'[i].pc = "tokens" /\ m'[i].usage = m[i].usage /\ m'[i].used = u
      BY <1>1, <2>2 DEF Answered, MasterRow
    <2>4. m[i].pc = "call" /\ usage' = usage
      BY <2>1 DEF ModelAnswers, At
    <2>. QED  BY <2>3, <2>4 DEF Free, Pending, ChargeOK, TokensAllowed
  <1>13. CASE \E transient \in BOOLEAN : ModelFails(i, transient)
    <2>1. m[i].pc = "call" /\ usage' = usage
      BY <1>13 DEF ModelFails, At
    <2>2. CASE Conclude(i, "failed")
      BY <1>4, <2>1, <2>2
    <2>3. CASE m'[i] = [m[i] EXCEPT !.attempt = m[i].attempt + 1]
      <3>1. m'[i].pc = "call" /\ m'[i].usage = m[i].usage
        BY <1>1, <2>1, <2>3 DEF MasterRow
      <3>. QED  BY <2>1, <3>1 DEF Free, Pending, ChargeOK, TokensAllowed
    <2>. QED  BY <1>1, <1>13, <2>2, <2>3, ModelFailsRow
  <1>14. CASE RecordDollars(i)
    <2>1. usage'.tokens = usage.tokens
      BY <1>1, <1>14 DEF RecordDollars, TypeOK
    <2>. QED  BY <1>2, <1>3, <1>14, <2>1 DEF RecordDollars, PC
  <1>15. CASE Decide(i)
    <2>1. usage' = usage
      BY <1>15 DEF Decide
    <2>2. CASE Conclude(i, "rejected")
      BY <1>4, <2>1, <2>2
    <2>3. CASE ~Conclude(i, "rejected")
      <3>1. m'[i] = [m[i] EXCEPT
                  !.pc = IF Enforced(i) \in Planning THEN "list" ELSE "row",
                  !.action = Enforced(i),
                  !.result = IF Enforced(i) = "BLOCKED" THEN "blocked" ELSE "completed"]
        BY <1>1, <1>15, <2>3, DecideRow
      <3>2. m'[i].pc = IF Enforced(i) \in Planning THEN "list" ELSE "row"
        BY <1>1, <3>1 DEF MasterRow
      <3>. QED  BY <1>3, <2>1, <3>2 DEF PC
    <2>. QED  BY <2>2, <2>3
  <1>16. CASE ListTasks(i)
    <2>1. m'[i] = [m[i] EXCEPT !.pc = "create", !.todo = KeysOf(m[i].decision),
                               !.known = {t \in TaskIds : tasks[t] # "absent"}]
      BY <1>1, <1>16, ListTasksRow
    <2>2. m'[i].pc = "create"
      BY <1>1, <2>1 DEF MasterRow
    <2>. QED  BY <1>3, <1>16, <2>2 DEF ListTasks, PC
  <1>17. CASE CreateTask(i)
    <2>1. usage' = usage
      BY <1>17 DEF CreateTask
    <2>2. CASE Conclude(i, "rejected")
      BY <1>4, <2>1, <2>2
    <2>3. CASE ~Conclude(i, "rejected")
      <3>1. m'[i] = [m[i] EXCEPT !.pc = "depend", !.todo = m[i].todo \ {NextKey(i)},
                               !.task = NewTask(i), !.known = m[i].known \cup {NewTask(i)},
                               !.deps = DependsOn(i, NewProposal(i))]
        BY <1>17, <2>3, CreateTaskRow
      <3>2. m'[i].pc = "depend"
        BY <1>1, <3>1 DEF MasterRow
      <3>. QED  BY <1>3, <2>1, <3>2 DEF PC
    <2>. QED  BY <2>2, <2>3
  <1>18. CASE AddDependency(i)
    <2>1. usage' = usage /\ m[i].pc = "depend"
      BY <1>18 DEF AddDependency, At
    <2>2. CASE m'[i] = [m[i] EXCEPT !.deps = Tail(m[i].deps)]
      <3>1. m'[i].pc = "depend"
        BY <1>1, <2>1, <2>2 DEF MasterRow
      <3>. QED  BY <1>3, <2>1, <3>1 DEF PC
    <2>3. CASE Goto(i, "create")
      BY <1>2, <1>3, <2>1, <2>3 DEF PC
    <2>4. CASE Conclude(i, "rejected")
      BY <1>4, <2>1, <2>4
    <2>. QED  BY <1>18, <2>2, <2>3, <2>4, AddDependencyRow
  <1>19. CASE SyncRead(i)
    <2>1. m'[i] = [m[i] EXCEPT !.pc = "setactive",
                               !.active = NextActive(state.active, Created(i))]
      BY <1>1, <1>19, SyncReadRow
    <2>2. m'[i].pc = "setactive"
      BY <1>1, <2>1 DEF MasterRow
    <2>. QED  BY <1>3, <1>19, <2>2 DEF SyncRead, PC
  <1>20. CASE SetActive(i)
    BY <1>2, <1>3, <1>20 DEF SetActive, PC
  <1>21. CASE WriteRow(i)
    BY <1>2, <1>3, <1>21 DEF WriteRow, PC
  <1>22. CASE UpdatePhase(i)
    BY <1>2, <1>3, <1>22 DEF UpdatePhase, PC
  <1>23. CASE EnqueueRead(i)
    <2>1. m'[i] = [m[i] EXCEPT !.pc = "inbox", !.ids = state.inbox]
      BY <1>1, <1>23, EnqueueReadRow
    <2>2. m'[i].pc = "inbox"
      BY <1>1, <2>1 DEF MasterRow
    <2>. QED  BY <1>3, <1>23, <2>2 DEF EnqueueRead, PC
  <1>24. CASE EnqueueWrite(i)
    BY <1>2, <1>3, <1>24 DEF EnqueueWrite, PC
  <1>. QED
    BY <1>6, <1>7, <1>8, <1>9, <1>10, <1>11, <1>12, <1>13, <1>14, <1>15, <1>16,
       <1>17, <1>18, <1>19, <1>20, <1>21, <1>22, <1>23, <1>24 DEF MasterStep

\* No more runs are in flight than may be.
LEMMA InFlightStep ==
    ASSUME TypeInv, Cardinality(InFlight) <= overlap, NEW i \in Masters, MasterStep(i)
    PROVE  Cardinality(InFlight') <= overlap'
  <1>1. OthersStay(i) /\ overlap' = overlap /\ overlap \in Nat
    BY RowsStep, TablesStep, OverlapTypes DEF TypeInv, TypeOK
  <1>2. InFlight' \subseteq InFlight \cup {i}
    BY <1>1 DEF InFlight, OthersStay
  <1>3. CASE Start(i)
    <2>1. Cardinality(InFlight) < overlap
      BY <1>3 DEF Start
    <2>2. /\ IsFiniteSet(InFlight \cup {i})
          /\ \/ Cardinality(InFlight \cup {i}) = Cardinality(InFlight)
             \/ Cardinality(InFlight \cup {i}) = Cardinality(InFlight) + 1
      BY InFlightIsFinite, FS_AddElement
    <2>3. /\ Cardinality(InFlight') <= Cardinality(InFlight \cup {i})
          /\ Cardinality(InFlight') \in Nat
      BY <1>2, <2>2, FS_Subset, FS_CardinalityType
    <2>. QED  BY <1>1, <2>1, <2>2, <2>3, InFlightIsFinite
  <1>4. CASE ~Start(i)
    <2>1. i \in InFlight
      BY <1>4 DEF InFlight, MasterStep, At, LoadState, InsertState, Loaded, Authorize, LoadPart,
           ModelAnswers, ModelFails, RecordTokens, RecordDollars, Decide, ListTasks, CreateTask,
           AddDependency, SyncRead, SetActive, WriteRow, UpdatePhase, EnqueueRead, EnqueueWrite
    <2>2. InFlight' \subseteq InFlight
      BY <1>2, <2>1
    <2>3. Cardinality(InFlight') <= Cardinality(InFlight) /\ Cardinality(InFlight') \in Nat
      BY <2>2, InFlightIsFinite, FS_Subset, FS_CardinalityType
    <2>. QED  BY <1>1, <2>3, InFlightIsFinite
  <1>. QED  BY <1>3, <1>4

LEMMA OvershootStep ==
    ASSUME OvershootInv, NEW i \in Masters, MasterStep(i)
    PROVE  OvershootOK'
  <1>. DEFINE n == Cardinality(Pending)
              room == TokenLimit - Estimate + overlap * LargestCall
  <1>1. TypeInv /\ TypeOK /\ OvershootOK /\ m[i] \in MasterRow
    BY DEF OvershootInv, TypeInv, TypeOK
  <1>2. OthersStay(i) /\ overlap' = overlap /\ overlap \in Nat
    BY <1>1, RowsStep, TablesStep, OverlapTypes DEF TypeOK
  <1>3. Cardinality(InFlight') <= overlap'
    BY <1>1, InFlightStep DEF OvershootOK
  <1>4. \A j \in Masters : j # i => ChargeOK(j)' /\ (j \in Pending' <=> j \in Pending)
    BY <1>1, <1>2 DEF OthersStay, ChargeOK, OvershootOK, Pending, TokensAllowed
  <1>5. /\ LargestCall \in Nat /\ TokenLimit \in Nat /\ Estimate \in Nat /\ n \in Nat
        /\ usage.tokens \in Nat /\ usage'.tokens \in Nat
        /\ IsFiniteSet(Pending') /\ Cardinality(Pending') \in Nat /\ Pending' \subseteq InFlight'
        /\ IsFiniteSet(InFlight') /\ Cardinality(InFlight') \in Nat
    <2>1. Pending' \subseteq InFlight'
      BY DEF Pending, InFlight
    <2>2. IsFiniteSet(InFlight')
      BY MasterAssumption, FS_Subset DEF InFlight
    <2>3. usage' \in [tokens : Nat, usd : Nat]
      BY <1>1, TablesStep
    <2>. QED
      BY <1>1, <2>1, <2>2, <2>3, MasterAssumption, LargestCallBounds, PendingIsFinite, FS_Subset,
         FS_CardinalityType DEF TypeOK
  <1>. DEFINE Room == \/ usage'.tokens = 0 /\ Pending' = {}
                      \/ usage'.tokens + LargestCall * Cardinality(Pending') <= room
  <1>6. ASSUME Room, ChargeOK(i)'
        PROVE  OvershootOK'
    <2>1. \A j \in Masters : ChargeOK(j)'
      BY <1>4, <1>6
    <2>2. LargestCall' = LargestCall
      BY DEF LargestCall
    <2>. QED  BY <1>2, <1>3, <1>6, <2>1, <2>2 DEF OvershootOK
  <1>7. ASSUME usage'.tokens = usage.tokens, i \in Pending' => i \in Pending
        PROVE  Room
    <2>1. Pending' \subseteq Pending
      BY <1>4, <1>7 DEF Pending
    <2>2. Cardinality(Pending') <= n
      BY <2>1, PendingIsFinite, FS_Subset
    <2>3. LargestCall * Cardinality(Pending') <= LargestCall * n
      BY <1>5, <2>2, Times
    <2>4. LargestCall * Cardinality(Pending') \in Nat /\ LargestCall * n \in Nat /\ room \in Int
      BY <1>2, <1>5
    <2>5. CASE usage.tokens = 0 /\ Pending = {}
      BY <1>7, <2>1, <2>5
    <2>6. CASE usage.tokens + LargestCall * n <= room
      <3>. HIDE DEF room, n
      <3>. QED  BY <1>5, <1>7, <2>3, <2>4, <2>6
    <2>. QED  BY <1>1, <2>5, <2>6 DEF OvershootOK
  <1>8. CASE Free(i)
    BY <1>6, <1>7, <1>8 DEF Free
  <1>9. CASE LoadPart(i, "budget")
    <2>1. m'[i] = [m[i] EXCEPT !.load = m[i].load \ {"budget"}, !.usage = usage,
                               !.gate = GateAfter(i, "budget")]
      BY <1>1, <1>9, LoadPartRow
    <2>2. m'[i].pc = "load" /\ m'[i].usage = usage /\ usage' = usage
      <3>1. m[i].pc = "load" /\ usage' = usage
        BY <1>9 DEF LoadPart, At
      <3>. QED  BY <1>1, <2>1, <3>1 DEF MasterRow
    <2>3. ChargeOK(i)'
      BY <2>2 DEF ChargeOK
    <2>4. CASE i \notin Pending'
      BY <1>6, <1>7, <2>2, <2>3, <2>4
    <2>5. CASE i \in Pending'
      <3>1. usage.tokens + Estimate <= TokenLimit
        BY <2>2, <2>5 DEF Pending, TokensAllowed
      <3>2. Cardinality(Pending') <= overlap
        <4>1. Cardinality(Pending') <= Cardinality(InFlight')
          BY <1>5, FS_Subset
        <4>. QED  BY <1>2, <1>3, <1>5, <4>1
      <3>3. LargestCall * Cardinality(Pending') <= LargestCall * overlap
        BY <1>2, <1>5, <3>2, Times
      <3>4. LargestCall * overlap = overlap * LargestCall /\ LargestCall * overlap \in Nat
            /\ LargestCall * Cardinality(Pending') \in Nat
        BY <1>2, <1>5
      <3>5. usage.tokens + LargestCall * Cardinality(Pending') <= room
        BY <1>5, <3>1, <3>3, <3>4
      <3>. QED  BY <1>6, <2>2, <2>3, <3>5
    <2>. QED  BY <2>4, <2>5
  <1>10. CASE RecordTokens(i)
    <2>1. m'[i] = [m[i] EXCEPT !.pc = "dollars"]
      BY <1>1, <1>10, GoingTypes DEF RecordTokens, PC
    <2>2. m'[i].pc = "dollars" /\ m[i].pc = "tokens"
      BY <1>1, <1>10, <2>1 DEF RecordTokens, At, MasterRow
    <2>3. ChargeOK(i)' /\ i \notin Pending'
      BY <2>2 DEF ChargeOK, Pending
    <2>4. i \in Pending /\ m[i].used \in Usages
      BY <1>1, <2>2 DEF OvershootOK, ChargeOK, Pending
    <2>5. usage'.tokens = usage.tokens + m[i].used.tokens
      BY <1>1, <1>10 DEF RecordTokens, TypeOK
    <2>6. m[i].used.tokens \in Nat /\ m[i].used.tokens <= LargestCall
      BY <2>4, LargestCallBounds
    <2>7. Pending' = Pending \ {i}
      BY <1>4, <2>3 DEF Pending
    <2>8. Cardinality(Pending') = n - 1
      BY <2>4, <2>7, PendingIsFinite, FS_RemoveElement
    <2>9. usage.tokens + LargestCall * n <= room
      BY <1>1, <2>4 DEF OvershootOK
    <2>10. LargestCall * Cardinality(Pending') = LargestCall * n - LargestCall
           /\ LargestCall * n \in Nat /\ room \in Int
      BY <1>2, <1>5, <2>8
    <2>11. usage'.tokens + LargestCall * Cardinality(Pending') <= room
      <3>. HIDE DEF room, n
      <3>. QED  BY <1>5, <2>5, <2>6, <2>9, <2>10
    <2>. QED  BY <1>6, <2>3, <2>11
  <1>. QED  BY <1>1, <1>8, <1>9, <1>10, FreeStep DEF OvershootOK

LEMMA OvershootInvStep == OvershootInv /\ [Next]_vars => OvershootInv'
  <1>. SUFFICES ASSUME OvershootInv, [Next]_vars  PROVE OvershootOK'
    BY TypeInvStep DEF OvershootInv
  <1>1. TypeInv /\ TypeOK /\ OvershootOK
    BY DEF OvershootInv, TypeInv
  <1>2. CASE \E i \in Masters : MasterStep(i)
    BY <1>2, OvershootStep
  <1>3. CASE UNCHANGED <<usage, m, overlap>>
    BY <1>1, <1>3 DEF OvershootOK, InFlight, Pending, ChargeOK, LargestCall, TokensAllowed
  <1>. QED  BY <1>1, <1>2, <1>3, ProjectStepTypes DEF Next, vars

\* The token limit is passed by no more than what the runs that may be in flight together
\* can charge, however many runs there are (OvershootIsBounded): every run that may still
\* charge has seen room for its estimate.
THEOREM TokensAreBounded == Spec => []OvershootIsBounded
  <1>1. Init => OvershootInv
    <2>. SUFFICES ASSUME Init  PROVE OvershootOK
      BY TypeInvInit DEF OvershootInv
    <2>1. \A i \in Masters : m[i].pc = "new"
      BY DEF Init
    <2>2. InFlight = {} /\ Pending = {} /\ usage.tokens = 0
      BY <2>1 DEF Init, InFlight, Pending, NoUsage
    <2>3. Cardinality(InFlight) = 0 /\ overlap \in Nat
      BY <2>2, FS_EmptySet, OverlapTypes DEF Init
    <2>. QED  BY <2>1, <2>2, <2>3 DEF OvershootOK, ChargeOK
  <1>2. Spec => []OvershootInv
    BY <1>1, OvershootInvStep, PTL DEF Spec
  <1>3. ASSUME OvershootInv
        PROVE  OvershootIsBounded
    <2>1. CASE usage.tokens = 0
      BY <2>1 DEF OvershootIsBounded
    <2>2. CASE usage.tokens + LargestCall * Cardinality(Pending)
                 <= TokenLimit - Estimate + overlap * LargestCall
      <3>1. LargestCall * Cardinality(Pending) \in Nat
        BY LargestCallBounds, PendingIsFinite
      <3>2. usage.tokens \in Nat /\ overlap * LargestCall \in Nat
        BY <1>3, LargestCallBounds, OverlapTypes DEF OvershootInv, TypeInv, TypeOK
      <3>. QED  BY <2>2, <3>1, <3>2, MasterAssumption DEF OvershootIsBounded
    <2>. QED  BY <1>3, <2>1, <2>2 DEF OvershootInv, OvershootOK
  <1>. QED  BY <1>2, <1>3, PTL
=============================================================================
