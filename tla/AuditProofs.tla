------------------------------ MODULE AuditProofs ------------------------------
(***************************************************************************)
(* Proofs about Budget and Audit, for any sets of requests, resources,     *)
(* amounts, entries, tasks, runs, verifiers, messages and audits.          *)
(***************************************************************************)
EXTENDS Audit, TotalsProofs

-----------------------------------------------------------------------------
(* Budget: the type invariant, and that every acknowledged spend is in the *)
(* ledger.                                                                 *)

\* What a request has on its way to an answer: the step it waits for belongs to its
\* kind, and the entry of a budget entry is a real one.
RequestOK(q) ==
    /\ req[q].pc = "add_write" => req[q].kind = "add"
    /\ req[q].pc = "granted" => req[q].kind \in {"add", "increase"}
    /\ req[q].pc \in {"inc_read", "inc_write"} => req[q].kind = "increase"
    /\ req[q].pc \in {"entry_read", "entry_write"} => req[q].kind = "entry"
    /\ req[q].kind = "entry" => req[q].entry \in Entry /\ req[q].id \in EntryIds
    /\ req[q].kind # "none" => req[q].entry \in Entry

LedgerInv ==
    /\ TypeOK
    /\ \A q \in Requests : RequestOK(q)
    /\ AcknowledgedIsRecorded

-----------------------------------------------------------------------------

\* An amount is never zero, so no entry is the missing one.
LEMMA EntriesAreReal == NoEntry \notin Entry
  BY AmountsAssumption DEF NoEntry, Entry

\* The requests other than q are as they were.
Others(q) == /\ req' \in [Requests -> RequestRow]
             /\ \A p \in Requests : p # q => req'[p] = req[p]

\* A step of request q that leaves the entries alone keeps the invariant if it keeps
\* the types and does what it should to q.
LEMMA StepOfOne ==
  ASSUME LedgerInv, NEW q \in Requests, Others(q), RequestOK(q)', UNCHANGED entries,
         ledger' \in BOOLEAN, limits' \in Limits,
         (req[q].kind = "entry" /\ req[q].answer = "ok" => entries[req[q].id] = req[q].entry)'
  PROVE  LedgerInv'
  <1>1. TypeOK'
    BY DEF LedgerInv, TypeOK, Others
  <1>2. \A p \in Requests : RequestOK(p)'
    <2>1. TAKE p \in Requests
    <2>2. CASE p = q
      BY <2>2
    <2>3. CASE p # q
      BY <2>3 DEF LedgerInv, Others, RequestOK
    <2>. QED  BY <2>2, <2>3
  <1>3. AcknowledgedIsRecorded'
    <2>1. SUFFICES ASSUME NEW p \in Requests, req'[p].kind = "entry", req'[p].answer = "ok"
                   PROVE  entries'[req'[p].id] = req'[p].entry
      BY DEF AcknowledgedIsRecorded
    <2>2. CASE p = q
      BY <2>1, <2>2
    <2>3. CASE p # q
      BY <2>1, <2>3 DEF LedgerInv, Others, AcknowledgedIsRecorded
    <2>. QED  BY <2>2, <2>3
  <1>. QED  BY <1>1, <1>2, <1>3 DEF LedgerInv

\* What begins a request: it has read the row of the ledger.
LEMMA Beginning ==
  ASSUME LedgerInv, NEW q \in Requests, NEW r \in Resources, NEW a \in Amounts,
         NEW kind \in Kind \ {"none"}, NEW id \in EntryIds \cup {"none"},
         NEW pc \in PC, NEW answer \in Answer,
         Begin(q, kind, [res |-> r, amount |-> a], id, pc, answer)
  PROVE  /\ Others(q)
         /\ req'[q] = [pc |-> pc, kind |-> kind, entry |-> [res |-> r, amount |-> a], id |-> id,
                       found |-> ledger, seen |-> limits, answer |-> answer]
         /\ req'[q].entry \in Entry
  <1>. DEFINE e == [res |-> r, amount |-> a]
              row == [pc |-> pc, kind |-> kind, entry |-> e, id |-> id,
                      found |-> ledger, seen |-> limits, answer |-> answer]
  <1>1. req \in [Requests -> RequestRow] /\ ledger \in BOOLEAN /\ limits \in Limits
    BY DEF LedgerInv, TypeOK
  <1>2. e \in Entry
    BY DEF Entry
  <1>. HIDE DEF e
  <1>3. row \in RequestRow /\ row.entry = e
    BY <1>1, <1>2 DEF RequestRow
  <1>4. req' = [req EXCEPT ![q] = row]
    BY DEF Begin, e
  <1>. HIDE DEF row
  <1>5. Others(q) /\ req'[q] = row
    BY <1>1, <1>3, <1>4 DEF Others
  <1>6. row = [pc |-> pc, kind |-> kind, entry |-> e, id |-> id,
               found |-> ledger, seen |-> limits, answer |-> answer]
    BY DEF row
  <1>. QED  BY <1>2, <1>3, <1>5, <1>6 DEF e

\* What takes a request one step on, and what answers it.
LEMMA Going ==
  ASSUME LedgerInv, NEW q \in Requests, NEW pc \in PC, Goto(q, pc)
  PROVE  Others(q) /\ req'[q] = [req[q] EXCEPT !.pc = pc]
  BY DEF LedgerInv, TypeOK, Goto, Others, RequestRow

LEMMA Replying ==
  ASSUME LedgerInv, NEW q \in Requests, NEW answer \in Answer, Reply(q, answer)
  PROVE  Others(q) /\ req'[q] = [req[q] EXCEPT !.pc = "done", !.answer = answer]
  <1>. DEFINE row == [req[q] EXCEPT !.pc = "done", !.answer = answer]
  <1>1. req \in [Requests -> RequestRow]
    BY DEF LedgerInv, TypeOK
  <1>2. row \in RequestRow
    BY <1>1 DEF RequestRow, PC
  <1>3. req' = [req EXCEPT ![q] = row]
    BY <1>1 DEF Reply
  <1>. HIDE DEF row
  <1>4. Others(q) /\ req'[q] = row
    BY <1>1, <1>2, <1>3 DEF Others
  <1>. QED  BY <1>4 DEF row

-----------------------------------------------------------------------------

LEMMA AddReadKeeps ==
  ASSUME LedgerInv, NEW q \in Requests, NEW r \in Resources, NEW a \in Amounts, AddRead(q, r, a)
  PROVE  LedgerInv'
  <1>1. PICK pc \in {"done", "add_write"}, answer \in {"conflict", "none"} :
          Begin(q, "add", [res |-> r, amount |-> a], "none", pc, answer)
    BY DEF AddRead
  <1>2. /\ "add" \in Kind \ {"none"} /\ "none" \in EntryIds \cup {"none"}
        /\ pc \in PC /\ answer \in Answer
    BY DEF Kind, PC, Answer
  <1>3. /\ Others(q) /\ req'[q].pc = pc /\ req'[q].kind = "add" /\ req'[q].entry \in Entry
        /\ req'[q].answer = answer
    <2>1. /\ Others(q) /\ req'[q].entry \in Entry
          /\ req'[q] = [pc |-> pc, kind |-> "add", entry |-> [res |-> r, amount |-> a],
                        id |-> "none", found |-> ledger, seen |-> limits, answer |-> answer]
      BY <1>1, <1>2, Beginning
    <2>. QED  BY <2>1
  <1>. QED  BY <1>3, StepOfOne DEF AddRead, RequestOK, LedgerInv, TypeOK

\* What has written a grant is still to be answered.
LEMMA GrantedKeeps ==
  ASSUME LedgerInv, NEW q \in Requests, req[q].kind \in {"add", "increase"},
         req[q].entry \in Entry, Goto(q, "granted"), UNCHANGED entries,
         ledger' \in BOOLEAN, limits' \in Limits
  PROVE  LedgerInv'
  <1>1. Others(q) /\ req'[q] = [req[q] EXCEPT !.pc = "granted"]
    BY Going DEF PC
  <1>2. req[q] \in RequestRow
    BY DEF LedgerInv, TypeOK
  <1>3. /\ req'[q].pc = "granted" /\ req'[q].kind = req[q].kind
        /\ req'[q].entry = req[q].entry
    BY <1>1, <1>2 DEF RequestRow
  <1>. QED  BY <1>1, <1>3, StepOfOne DEF RequestOK

LEMMA AddFirstKeeps ==
  ASSUME LedgerInv, NEW q \in Requests, AddFirst(q)
  PROVE  LedgerInv'
  <1>1. req[q].kind = "add" /\ req[q].entry \in Entry /\ req[q] \in RequestRow
    BY DEF LedgerInv, RequestOK, AddFirst, At, TypeOK
  <1>2. ledger' \in BOOLEAN /\ limits' \in Limits /\ UNCHANGED entries
    <2>1. req[q].entry.amount \in Nat /\ NotConfigured \in Nat
      BY <1>1, AmountsAssumption DEF Entry, NotConfigured
    <2>. QED  BY <2>1 DEF AddFirst, LedgerInv, TypeOK, Limits
  <1>3. CASE Reply(q, "error")
    <2>1. Others(q) /\ req'[q] = [req[q] EXCEPT !.pc = "done", !.answer = "error"]
      BY <1>3, Replying DEF Answer
    <2>2. req'[q].pc = "done" /\ req'[q].kind = "add" /\ req'[q].entry \in Entry
      BY <1>1, <2>1 DEF RequestRow
    <2>. QED  BY <1>2, <2>1, <2>2, StepOfOne DEF RequestOK
  <1>4. CASE Goto(q, "granted")
    BY <1>1, <1>2, <1>4, GrantedKeeps
  <1>. QED  BY <1>3, <1>4 DEF AddFirst

LEMMA AddNextKeeps ==
  ASSUME LedgerInv, NEW q \in Requests, AddNext(q)
  PROVE  LedgerInv'
  <1>1. req[q].kind = "add" /\ req[q].entry \in Entry /\ req[q] \in RequestRow
    BY DEF LedgerInv, RequestOK, AddNext, At, TypeOK
  <1>2. ledger' \in BOOLEAN /\ limits' \in Limits /\ UNCHANGED entries
    BY <1>1, AmountsAssumption DEF AddNext, LedgerInv, TypeOK, Limits, Entry, RequestRow
  <1>. QED  BY <1>1, <1>2, GrantedKeeps DEF AddNext

LEMMA IncreaseCheckKeeps ==
  ASSUME LedgerInv, NEW q \in Requests, NEW r \in Resources, NEW a \in Amounts,
         IncreaseCheck(q, r, a)
  PROVE  LedgerInv'
  <1>1. PICK pc \in {"done", "inc_read"}, answer \in {"missing", "none"} :
          Begin(q, "increase", [res |-> r, amount |-> a], "none", pc, answer)
    BY DEF IncreaseCheck
  <1>2. /\ "increase" \in Kind \ {"none"} /\ "none" \in EntryIds \cup {"none"}
        /\ pc \in PC /\ answer \in Answer
    BY DEF Kind, PC, Answer
  <1>3. /\ Others(q) /\ req'[q].pc = pc /\ req'[q].kind = "increase" /\ req'[q].entry \in Entry
        /\ req'[q].answer = answer
    <2>1. /\ Others(q) /\ req'[q].entry \in Entry
          /\ req'[q] = [pc |-> pc, kind |-> "increase", entry |-> [res |-> r, amount |-> a],
                        id |-> "none", found |-> ledger, seen |-> limits, answer |-> answer]
      BY <1>1, <1>2, Beginning
    <2>. QED  BY <2>1
  <1>. QED  BY <1>3, StepOfOne DEF IncreaseCheck, RequestOK, LedgerInv, TypeOK

LEMMA IncreaseReadKeeps ==
  ASSUME LedgerInv, NEW q \in Requests, IncreaseRead(q)
  PROVE  LedgerInv'
  <1>1. req[q].kind = "increase" /\ req[q].entry \in Entry /\ req[q] \in RequestRow
    BY DEF LedgerInv, RequestOK, IncreaseRead, At, TypeOK
  <1>2. /\ Others(q)
        /\ req'[q].pc \in {"inc_write", "done"} /\ req'[q].kind = "increase" /\ req'[q].entry \in Entry
    <2>1. CASE Reply(q, "error")
      <3>1. Others(q) /\ req'[q] = [req[q] EXCEPT !.pc = "done", !.answer = "error"]
        BY <2>1, Replying DEF Answer
      <3>. QED  BY <1>1, <3>1 DEF RequestRow
    <2>2. CASE req' = [req EXCEPT ![q].pc = "inc_write", ![q].seen = limits]
      BY <1>1, <2>2 DEF LedgerInv, TypeOK, Others, RequestRow, PC
    <2>. QED  BY <2>1, <2>2 DEF IncreaseRead
  <1>. QED  BY <1>2, StepOfOne DEF IncreaseRead, RequestOK, LedgerInv, TypeOK

LEMMA IncreaseWriteKeeps ==
  ASSUME LedgerInv, NEW q \in Requests, IncreaseWrite(q)
  PROVE  LedgerInv'
  <1>1. req[q].kind = "increase" /\ req[q].entry \in Entry /\ req[q] \in RequestRow
    BY DEF LedgerInv, RequestOK, IncreaseWrite, At, TypeOK
  <1>2. ledger' \in BOOLEAN /\ limits' \in Limits /\ UNCHANGED entries
    <2>1. /\ req[q].entry.amount \in Nat /\ req[q].seen \in [Resources -> Nat]
          /\ req[q].entry.res \in Resources
      BY <1>1, AmountsAssumption DEF Entry, RequestRow, Limits
    <2>. DEFINE seen == req[q].seen
                lim == Increased(seen, req[q].entry.res, req[q].entry.amount)
    <2>2. lim \in [Resources -> Nat]
      <3>. HIDE DEF seen
      <3>1. lim = [seen EXCEPT ![req[q].entry.res] = seen[req[q].entry.res] + req[q].entry.amount]
        BY DEF Increased
      <3>2. seen[req[q].entry.res] + req[q].entry.amount \in Nat
        BY <2>1 DEF seen
      <3>. QED  BY <2>1, <3>1, <3>2 DEF seen
    <2>. QED  BY <2>2 DEF IncreaseWrite, LedgerInv, TypeOK, Limits
  <1>. QED  BY <1>1, <1>2, GrantedKeeps DEF IncreaseWrite

LEMMA AnswerGrantKeeps ==
  ASSUME LedgerInv, NEW q \in Requests, AnswerGrant(q)
  PROVE  LedgerInv'
  <1>1. /\ req[q].kind \in {"add", "increase"} /\ req[q].entry \in Entry
        /\ req[q] \in RequestRow
    BY DEF LedgerInv, RequestOK, AnswerGrant, At, TypeOK
  <1>2. Others(q) /\ req'[q] = [req[q] EXCEPT !.pc = "done", !.answer = "ok"]
    BY Replying DEF AnswerGrant, Answer
  <1>3. /\ req'[q].pc = "done" /\ req'[q].kind \in {"add", "increase"}
        /\ req'[q].entry \in Entry
    BY <1>1, <1>2 DEF RequestRow
  <1>. QED  BY <1>2, <1>3, StepOfOne DEF AnswerGrant, RequestOK, LedgerInv, TypeOK

LEMMA EntryCheckKeeps ==
  ASSUME LedgerInv, NEW q \in Requests, NEW i \in EntryIds, NEW r \in Resources, NEW a \in Amounts,
         EntryCheck(q, i, r, a)
  PROVE  LedgerInv'
  <1>. DEFINE e == [res |-> r, amount |-> a]
  <1>1. PICK pc \in {"done", "entry_read"}, answer \in {"conflict", "ok", "none"} :
          /\ Begin(q, "entry", e, i, pc, answer)
          /\ answer = "ok" => entries[i] = e
    BY DEF EntryCheck, AnswerExisting
  <1>2. /\ Others(q)
        /\ req'[q] = [pc |-> pc, kind |-> "entry", entry |-> e, id |-> i,
                      found |-> ledger, seen |-> limits, answer |-> answer]
        /\ req'[q].entry \in Entry
    <2>1. /\ "entry" \in Kind \ {"none"} /\ i \in EntryIds \cup {"none"}
          /\ pc \in PC /\ answer \in Answer
      BY DEF Kind, PC, Answer
    <2>. QED  BY <1>1, <2>1, Beginning
  <1>3. UNCHANGED <<ledger, limits, entries>>
    BY DEF EntryCheck
  <1>4. RequestOK(q)'
    BY <1>2 DEF RequestOK
  <1>. HIDE DEF e
  <1>5. (req[q].kind = "entry" /\ req[q].answer = "ok" => entries[req[q].id] = req[q].entry)'
    BY <1>1, <1>2, <1>3
  <1>. QED  BY <1>2, <1>3, <1>4, <1>5, StepOfOne DEF LedgerInv, TypeOK

LEMMA EntryReadKeeps ==
  ASSUME LedgerInv, NEW q \in Requests, EntryRead(q)
  PROVE  LedgerInv'
  <1>1. /\ req[q].kind = "entry" /\ req[q].entry \in Entry /\ req[q].id \in EntryIds
        /\ req[q] \in RequestRow
        /\ req[q].answer = "ok" => entries[req[q].id] = req[q].entry
    BY DEF LedgerInv, RequestOK, EntryRead, At, TypeOK, AcknowledgedIsRecorded
  <1>2. CASE Goto(q, "entry_write")
    <2>1. Others(q) /\ req'[q] = [req[q] EXCEPT !.pc = "entry_write"]
      BY <1>2, Going DEF PC
    <2>2. /\ req'[q].pc = "entry_write" /\ req'[q].kind = "entry" /\ req'[q].id = req[q].id
          /\ req'[q].entry = req[q].entry /\ req'[q].answer = req[q].answer
      BY <1>1, <2>1 DEF RequestRow
    <2>. QED  BY <1>1, <2>1, <2>2, StepOfOne DEF EntryRead, RequestOK, LedgerInv, TypeOK
  <1>3. CASE Reply(q, "error")
    <2>1. Others(q) /\ req'[q] = [req[q] EXCEPT !.pc = "done", !.answer = "error"]
      BY <1>3, Replying DEF Answer
    <2>2. /\ req'[q].pc = "done" /\ req'[q].kind = "entry" /\ req'[q].id = req[q].id
          /\ req'[q].entry = req[q].entry /\ req'[q].answer = "error"
      BY <1>1, <2>1 DEF RequestRow
    <2>. QED  BY <1>1, <2>1, <2>2, StepOfOne DEF EntryRead, RequestOK, LedgerInv, TypeOK
  <1>. QED  BY <1>2, <1>3 DEF EntryRead

\* The INSERT: what other requests were told of this id they were told of a row that
\* existed, and there was none.
LEMMA EntryWriteKeeps ==
  ASSUME LedgerInv, NEW q \in Requests, EntryWrite(q)
  PROVE  LedgerInv'
  <1>1. /\ req[q].kind = "entry" /\ req[q].entry \in Entry /\ req[q].id \in EntryIds
        /\ req[q] \in RequestRow
    BY DEF LedgerInv, RequestOK, EntryWrite, At, TypeOK
  <1>2. CASE entries[req[q].id] # NoEntry
    <2>1. Reply(q, "error") /\ UNCHANGED <<ledger, limits, entries>>
      BY <1>2 DEF EntryWrite
    <2>2. Others(q) /\ req'[q] = [req[q] EXCEPT !.pc = "done", !.answer = "error"]
      BY <2>1, Replying DEF Answer
    <2>3. /\ req'[q].pc = "done" /\ req'[q].kind = "entry" /\ req'[q].id = req[q].id
          /\ req'[q].entry = req[q].entry /\ req'[q].answer = "error"
      BY <1>1, <2>2 DEF RequestRow
    <2>. QED  BY <1>1, <2>1, <2>2, <2>3, StepOfOne DEF RequestOK, LedgerInv, TypeOK
  <1>3. CASE entries[req[q].id] = NoEntry
    <2>1. /\ entries' = [entries EXCEPT ![req[q].id] = req[q].entry]
          /\ Reply(q, "ok") /\ UNCHANGED <<ledger, limits>>
      BY <1>3 DEF EntryWrite
    <2>2. Others(q) /\ req'[q] = [req[q] EXCEPT !.pc = "done", !.answer = "ok"]
      BY <2>1, Replying DEF Answer
    <2>3. /\ req'[q].pc = "done" /\ req'[q].kind = "entry" /\ req'[q].id = req[q].id
          /\ req'[q].entry = req[q].entry
      BY <1>1, <2>2 DEF RequestRow
    <2>4. TypeOK'
      BY <1>1, <2>1, <2>2 DEF LedgerInv, TypeOK, Others
    <2>5. \A p \in Requests : RequestOK(p)'
      <3>1. TAKE p \in Requests
      <3>2. CASE p = q
        BY <1>1, <2>3, <3>2 DEF RequestOK
      <3>3. CASE p # q
        BY <2>2, <3>3 DEF LedgerInv, Others, RequestOK
      <3>. QED  BY <3>2, <3>3
    <2>6. AcknowledgedIsRecorded'
      <3>1. SUFFICES ASSUME NEW p \in Requests, req'[p].kind = "entry", req'[p].answer = "ok"
                     PROVE  entries'[req'[p].id] = req'[p].entry
        BY DEF AcknowledgedIsRecorded
      <3>2. CASE p = q
        BY <1>1, <2>1, <2>3, <3>2 DEF LedgerInv, TypeOK
      <3>3. CASE p # q
        <4>1. req'[p] = req[p]
          BY <2>2, <3>3 DEF Others
        <4>2. /\ entries[req[p].id] = req[p].entry
              /\ req[p].entry \in Entry /\ req[p].id \in EntryIds
          BY <3>1, <4>1 DEF LedgerInv, AcknowledgedIsRecorded, RequestOK
        <4>3. req[p].id # req[q].id
          BY <1>3, <4>2, EntriesAreReal
        <4>. QED  BY <2>1, <4>1, <4>2, <4>3 DEF LedgerInv, TypeOK
      <3>. QED  BY <3>2, <3>3
    <2>. QED  BY <2>4, <2>5, <2>6 DEF LedgerInv
  <1>. QED  BY <1>2, <1>3

-----------------------------------------------------------------------------

LEMMA Initially == Init => LedgerInv
  <1>. SUFFICES ASSUME Init  PROVE LedgerInv
    OBVIOUS
  <1>1. TypeOK
    BY DEF Init, TypeOK, Limits, NotConfigured, RequestRow, PC, Kind, Answer
  <1>2. \A q \in Requests : RequestOK(q) /\ req[q].kind = "none"
    BY DEF Init, RequestOK
  <1>. QED  BY <1>1, <1>2 DEF LedgerInv, AcknowledgedIsRecorded

LEMMA Inductive == LedgerInv /\ [Next]_vars => LedgerInv'
  <1>. SUFFICES ASSUME LedgerInv, [Next]_vars  PROVE LedgerInv'
    OBVIOUS
  <1>1. ASSUME NEW q \in Requests, NEW r \in Resources, NEW a \in Amounts, AddRead(q, r, a)
        PROVE  LedgerInv'
    BY <1>1, AddReadKeeps
  <1>2. ASSUME NEW q \in Requests, NEW r \in Resources, NEW a \in Amounts, IncreaseCheck(q, r, a)
        PROVE  LedgerInv'
    BY <1>2, IncreaseCheckKeeps
  <1>3. ASSUME NEW q \in Requests, AddFirst(q) \/ AddNext(q)  PROVE LedgerInv'
    BY <1>3, AddFirstKeeps, AddNextKeeps
  <1>4. ASSUME NEW q \in Requests, IncreaseRead(q) \/ IncreaseWrite(q)  PROVE LedgerInv'
    BY <1>4, IncreaseReadKeeps, IncreaseWriteKeeps
  <1>5. ASSUME NEW q \in Requests, NEW i \in EntryIds, NEW r \in Resources, NEW a \in Amounts,
               EntryCheck(q, i, r, a)
        PROVE  LedgerInv'
    BY <1>5, EntryCheckKeeps
  <1>6. ASSUME NEW q \in Requests, EntryRead(q) \/ EntryWrite(q)  PROVE LedgerInv'
    BY <1>6, EntryReadKeeps, EntryWriteKeeps
  <1>7. ASSUME NEW q \in Requests, AnswerGrant(q)  PROVE LedgerInv'
    BY <1>7, AnswerGrantKeeps
  <1>8. CASE UNCHANGED vars
    BY <1>8 DEF vars, LedgerInv, TypeOK, RequestOK, AcknowledgedIsRecorded
  <1>. QED  BY <1>1, <1>2, <1>3, <1>4, <1>5, <1>6, <1>7, <1>8 DEF Next, Answered

-----------------------------------------------------------------------------
(* Budget: no limit is higher than the sum of the grants that were written. *)

\* A request that has been answered takes no more steps, and what a request has read of
\* the limits had been granted by then, so that it may still be written back.
GrantInv ==
    /\ \A q \in Requests : req[q].answer # "none" => req[q].pc = "done"
    /\ \A q \in Requests, r \in Resources : req[q].seen[r] <= Granted(r)
    /\ NeverOvergranted

\* What a step of a request may do before its grant is written: it reads all limits or
\* none, and what it writes is what it has read and what it grants with it, or the limit
\* as it was.
Granting(q) ==
    /\ Others(q)
    /\ req[q].answer = "none" /\ req[q].pc # "granted"
    /\ req'[q].answer # "none" => req'[q].pc = "done"
    /\ \A r \in Resources :
          /\ req'[q].seen[r] \in {req[q].seen[r], limits[r]}
          /\ limits'[r] <= limits[r] \/ limits'[r] <= req[q].seen[r] + Grant(q, r)'

LEMMA GrantType ==
    ASSUME LedgerInv, NEW q \in Requests, NEW r \in Resources
    PROVE  Grant(q, r) \in Nat
  BY AmountsAssumption DEF LedgerInv, RequestOK, Grant, Entry

LEMMA GrantedType ==
    ASSUME LedgerInv, NEW r \in Resources
    PROVE  limits[r] \in Nat /\ Granted(r) \in Nat
  <1>1. limits \in [Resources -> Nat]
    BY DEF LedgerInv, TypeOK, Limits
  <1>2. [p \in Requests |-> Grant(p, r)] \in [Requests -> Int]
    BY GrantType
  <1>. QED  BY <1>1, <1>2, RequestsAssumption, TotalType DEF Granted

LEMMA LimitTypes ==
    ASSUME LedgerInv, NEW q \in Requests, NEW r \in Resources
    PROVE  limits[r] \in Nat /\ req[q].seen[r] \in Nat /\ Granted(r) \in Nat
  <1>1. req[q] \in RequestRow
    BY DEF LedgerInv, TypeOK
  <1>2. req[q].seen \in [Resources -> Nat]
    BY <1>1 DEF RequestRow, Limits
  <1>. QED  BY <1>2, GrantedType

\* A request that had not written its grant had granted nothing, so it comes on top.
LEMMA GrantedGrows ==
    ASSUME LedgerInv, LedgerInv', NEW q \in Requests, Granting(q), NEW r \in Resources
    PROVE  Granted(r)' = Granted(r) + Grant(q, r)'
  <1>. DEFINE f == [p \in Requests |-> Grant(p, r)]
              g == [p \in Requests |-> Grant(p, r)']
  <1>1. f \in [Requests -> Int] /\ g \in [Requests -> Int] /\ Grant(q, r)' \in Nat
    <2>1. \A p \in Requests : Grant(p, r) \in Nat
      BY GrantType
    <2>2. \A p \in Requests : Grant(p, r)' \in Nat
      BY AmountsAssumption DEF LedgerInv, RequestOK, Grant, Entry
    <2>. QED  BY <2>1, <2>2
  <1>2. \A p \in Requests \ {q} : g[p] = f[p]
    BY DEF Granting, Others, Grant
  <1>3. f[q] = 0
    BY DEF Granting, Grant
  <1>4. Granted(r) = Total(f) /\ Granted(r)' = Total(g)
    BY DEF Granted
  <1>5. g[q] = Grant(q, r)'
    OBVIOUS
  <1>. HIDE DEF f, g
  <1>6. Total(g) = Total(f) - Positive(f[q]) + Positive(g[q])
    BY <1>1, <1>2, RequestsAssumption, TotalUpdate
  <1>7. Total(f) \in Nat
    BY <1>1, RequestsAssumption, TotalType
  <1>. QED  BY <1>1, <1>3, <1>4, <1>5, <1>6, <1>7 DEF Positive

LEMMA GrantingKeeps ==
    ASSUME LedgerInv, LedgerInv', GrantInv, NEW q \in Requests, Granting(q)
    PROVE  GrantInv'
  <1>1. ASSUME NEW r \in Resources
        PROVE  /\ Granted(r) \in Nat /\ Grant(q, r)' \in Nat
               /\ Granted(r)' = Granted(r) + Grant(q, r)'
    <2>1. Granted(r) \in Nat
      BY LimitTypes
    <2>2. Grant(q, r)' \in Nat
      BY AmountsAssumption DEF LedgerInv, RequestOK, Grant, Entry
    <2>. QED  BY <2>1, <2>2, GrantedGrows
  <1>2. \A p \in Requests : req'[p].answer # "none" => req'[p].pc = "done"
    BY DEF GrantInv, Granting, Others
  <1>3. ASSUME NEW p \in Requests, NEW r \in Resources
        PROVE  req'[p].seen[r] <= Granted(r)'
    <2>1. req[p].seen[r] <= Granted(r) /\ limits[r] <= Granted(r)
      BY DEF GrantInv, NeverOvergranted
    <2>2. req'[p].seen[r] \in {req[p].seen[r], limits[r]}
      BY DEF Granting, Others
    <2>. QED  BY <1>1, <2>1, <2>2, LimitTypes
  <1>4. ASSUME NEW r \in Resources
        PROVE  limits'[r] <= Granted(r)'
    <2>1. req[q].seen[r] <= Granted(r) /\ limits[r] <= Granted(r)
      BY DEF GrantInv, NeverOvergranted
    <2>2. limits'[r] \in Nat
      BY DEF LedgerInv, TypeOK, Limits
    <2>3. limits'[r] <= limits[r] \/ limits'[r] <= req[q].seen[r] + Grant(q, r)'
      BY DEF Granting
    <2>. QED  BY <1>1, <2>1, <2>2, <2>3, LimitTypes
  <1>. QED  BY <1>2, <1>3, <1>4 DEF GrantInv, NeverOvergranted

\* Every step of a request is one of these.
LEMMA BeginningGrants ==
    ASSUME LedgerInv, GrantInv, NEW q \in Requests, NEW r \in Resources, NEW a \in Amounts,
           NEW kind \in Kind \ {"none"}, NEW id \in EntryIds \cup {"none"},
           NEW pc \in PC, NEW answer \in Answer,
           At(q, "new"), Begin(q, kind, [res |-> r, amount |-> a], id, pc, answer),
           answer # "none" => pc = "done", UNCHANGED limits
    PROVE  Granting(q)
  <1>1. /\ Others(q)
        /\ req'[q].seen = limits /\ req'[q].answer = answer /\ req'[q].pc = pc
    <2>1. /\ Others(q)
          /\ req'[q] = [pc |-> pc, kind |-> kind, entry |-> [res |-> r, amount |-> a], id |-> id,
                        found |-> ledger, seen |-> limits, answer |-> answer]
      BY Beginning
    <2>. QED  BY <2>1
  <1>2. req[q].answer = "none" /\ req[q].pc # "granted"
    BY DEF GrantInv, At
  <1>3. \A s \in Resources : limits'[s] <= limits[s]
    BY LimitTypes
  <1>. QED  BY <1>1, <1>2, <1>3 DEF Granting

LEMMA ReplyingGrants ==
    ASSUME LedgerInv, LedgerInv', GrantInv, NEW q \in Requests,
           req[q].pc \notin {"done", "granted"}, NEW answer \in Answer, Reply(q, answer),
           UNCHANGED limits
    PROVE  Granting(q)
  <1>1. Others(q) /\ req'[q] = [req[q] EXCEPT !.pc = "done", !.answer = answer]
    BY Replying
  <1>2. req'[q].pc = "done" /\ req'[q].answer = answer /\ req'[q].seen = req[q].seen
    <2>1. req[q] \in RequestRow
      BY DEF LedgerInv, TypeOK
    <2>. QED  BY <1>1, <2>1 DEF RequestRow
  <1>3. req[q].answer = "none"
    BY DEF GrantInv
  <1>4. \A r \in Resources : limits'[r] <= limits[r]
    BY LimitTypes
  <1>. QED  BY <1>1, <1>2, <1>3, <1>4 DEF Granting

LEMMA WritingGrants ==
    ASSUME LedgerInv, LedgerInv', GrantInv, NEW q \in Requests,
           req[q].pc \notin {"done", "granted"}, req[q].kind \in {"add", "increase"},
           Goto(q, "granted"),
           \A r \in Resources :
               \/ limits'[r] <= req[q].seen[r]
               \/ /\ req[q].entry.res = r
                  /\ limits'[r] <= req[q].seen[r] + req[q].entry.amount
    PROVE  Granting(q)
  <1>1. Others(q) /\ req'[q] = [req[q] EXCEPT !.pc = "granted"]
    BY Going DEF PC
  <1>2. /\ req'[q].pc = "granted" /\ req'[q].answer = req[q].answer
        /\ req'[q].seen = req[q].seen
        /\ req'[q].kind = req[q].kind /\ req'[q].entry = req[q].entry
    <2>1. req[q] \in RequestRow
      BY DEF LedgerInv, TypeOK
    <2>. QED  BY <1>1, <2>1 DEF RequestRow
  <1>3. req[q].answer = "none"
    BY DEF GrantInv
  <1>4. ASSUME NEW r \in Resources
        PROVE  limits'[r] <= req[q].seen[r] + Grant(q, r)'
    <2>1. limits'[r] \in Nat
      BY DEF LedgerInv, TypeOK, Limits
    <2>2. Grant(q, r)' \in Nat
      BY AmountsAssumption DEF LedgerInv, RequestOK, Grant, Entry
    <2>3. CASE limits'[r] <= req[q].seen[r]
      BY <2>1, <2>2, <2>3, LimitTypes
    <2>4. CASE /\ req[q].entry.res = r
               /\ limits'[r] <= req[q].seen[r] + req[q].entry.amount
      BY <1>2, <2>4 DEF Grant
    <2>. QED  BY <2>3, <2>4
  <1>. QED  BY <1>1, <1>2, <1>3, <1>4 DEF Granting

\* The answer to a grant changes no sum: what was written had been counted.
LEMMA AnsweringKeeps ==
    ASSUME LedgerInv, LedgerInv', GrantInv, NEW q \in Requests, AnswerGrant(q)
    PROVE  GrantInv'
  <1>1. Others(q) /\ req'[q] = [req[q] EXCEPT !.pc = "done", !.answer = "ok"]
    BY Replying DEF AnswerGrant, Answer
  <1>2. /\ req[q] \in RequestRow /\ req[q].pc = "granted"
        /\ req[q].kind \in {"add", "increase"}
    BY DEF LedgerInv, TypeOK, RequestOK, AnswerGrant, At
  <1>3. /\ req'[q].pc = "done" /\ req'[q].answer = "ok" /\ req'[q].seen = req[q].seen
        /\ req'[q].kind = req[q].kind /\ req'[q].entry = req[q].entry
    BY <1>1, <1>2 DEF RequestRow
  <1>4. UNCHANGED limits
    BY DEF AnswerGrant
  <1>5. ASSUME NEW r \in Resources
        PROVE  Granted(r)' = Granted(r)
    <2>1. \A p \in Requests \ {q} : Grant(p, r)' = Grant(p, r)
      BY <1>1 DEF Others, Grant
    <2>2. Grant(q, r)' = Grant(q, r)
      BY <1>2, <1>3 DEF Grant
    <2>3. [p \in Requests |-> Grant(p, r)'] = [p \in Requests |-> Grant(p, r)]
      BY <2>1, <2>2
    <2>. QED  BY <2>3 DEF Granted
  <1>6. \A p \in Requests : /\ req'[p].answer # "none" => req'[p].pc = "done"
                            /\ req'[p].seen = req[p].seen
    BY <1>1, <1>3 DEF GrantInv, Others
  <1>. QED  BY <1>4, <1>5, <1>6 DEF GrantInv, NeverOvergranted

\* ... as a look at each action shows.
LEMMA EveryStepGrants ==
    ASSUME LedgerInv, LedgerInv', GrantInv, Next, ~UNCHANGED vars
    PROVE  \E q \in Requests : Granting(q) \/ AnswerGrant(q)
  <1>1. ASSUME NEW q \in Requests, NEW r \in Resources, NEW a \in Amounts,
               AddRead(q, r, a) \/ IncreaseCheck(q, r, a)
        PROVE  Granting(q)
    <2>1. PICK kind \in {"add", "increase"}, pc \in {"done", "add_write", "inc_read"},
               answer \in {"conflict", "missing", "none"} :
            /\ Begin(q, kind, [res |-> r, amount |-> a], "none", pc, answer)
            /\ answer # "none" => pc = "done"
      BY <1>1 DEF AddRead, IncreaseCheck
    <2>2. /\ kind \in Kind \ {"none"} /\ "none" \in EntryIds \cup {"none"}
          /\ pc \in PC /\ answer \in Answer
      BY DEF Kind, PC, Answer
    <2>3. At(q, "new") /\ UNCHANGED limits
      BY <1>1 DEF AddRead, IncreaseCheck
    <2>. QED  BY <2>1, <2>2, <2>3, BeginningGrants
  <1>2. ASSUME NEW q \in Requests, NEW i \in EntryIds, NEW r \in Resources, NEW a \in Amounts,
               EntryCheck(q, i, r, a)
        PROVE  Granting(q)
    <2>1. PICK pc \in {"done", "entry_read"}, answer \in {"conflict", "ok", "none"} :
            /\ Begin(q, "entry", [res |-> r, amount |-> a], i, pc, answer)
            /\ answer # "none" => pc = "done"
      BY <1>2 DEF EntryCheck, AnswerExisting
    <2>2. /\ "entry" \in Kind \ {"none"} /\ i \in EntryIds \cup {"none"}
          /\ pc \in PC /\ answer \in Answer
      BY DEF Kind, PC, Answer
    <2>3. At(q, "new") /\ UNCHANGED limits
      BY <1>2 DEF EntryCheck
    <2>. QED  BY <2>1, <2>2, <2>3, BeginningGrants
  <1>3. ASSUME NEW q \in Requests, AddFirst(q) \/ AddNext(q)
        PROVE  Granting(q)
    <2>1. /\ req[q].kind = "add" /\ req[q].entry \in Entry
          /\ req[q].pc \notin {"done", "granted"}
          /\ req[q].seen \in [Resources -> Nat]
      BY <1>3 DEF LedgerInv, RequestOK, AddFirst, AddNext, At, TypeOK, RequestRow, Limits
    <2>2. \A r \in Resources : limits[r] \in Nat /\ req[q].seen[r] \in Nat
      BY LimitTypes
    <2>3. req[q].entry.amount \in Nat
      BY <2>1, AmountsAssumption DEF Entry
    <2>4. CASE Reply(q, "error") /\ UNCHANGED limits
      BY <2>1, <2>4, ReplyingGrants DEF Answer
    <2>5. CASE Goto(q, "granted") /\ AddFirst(q) /\ ~ledger
      <3>1. \A r \in Resources :
                limits'[r] = IF r = req[q].entry.res THEN req[q].entry.amount ELSE 0
        BY <2>5 DEF AddFirst, NotConfigured
      <3>. QED  BY <2>1, <2>2, <2>3, <2>5, <3>1, WritingGrants
    <2>6. CASE Goto(q, "granted") /\ AddNext(q)
      <3>1. limits' = [req[q].seen EXCEPT ![req[q].entry.res] = req[q].entry.amount]
        BY <2>6 DEF AddNext
      <3>2. \A r \in Resources :
                limits'[r] = IF r = req[q].entry.res THEN req[q].entry.amount ELSE req[q].seen[r]
        BY <2>1, <3>1
      <3>. QED  BY <2>1, <2>2, <2>3, <2>6, <3>2, WritingGrants
    <2>. QED  BY <1>3, <2>4, <2>5, <2>6 DEF AddFirst, AddNext
  <1>4. ASSUME NEW q \in Requests, IncreaseRead(q)
        PROVE  Granting(q)
    <2>1. req[q].pc \notin {"done", "granted"} /\ req[q] \in RequestRow /\ req[q].answer = "none"
      BY <1>4 DEF LedgerInv, IncreaseRead, At, TypeOK, GrantInv
    <2>2. UNCHANGED limits /\ \A r \in Resources : limits'[r] <= limits[r]
      BY <1>4, LimitTypes DEF IncreaseRead
    <2>3. CASE Reply(q, "error")
      BY <2>1, <2>2, <2>3, ReplyingGrants DEF Answer
    <2>4. CASE req' = [req EXCEPT ![q].pc = "inc_write", ![q].seen = limits]
      BY <2>1, <2>2, <2>4 DEF LedgerInv, TypeOK, Others, RequestRow, PC, Granting
    <2>. QED  BY <1>4, <2>3, <2>4 DEF IncreaseRead
  <1>5. ASSUME NEW q \in Requests, IncreaseWrite(q)
        PROVE  Granting(q)
    <2>1. /\ req[q].kind = "increase" /\ req[q].entry \in Entry /\ req[q].pc \notin {"done", "granted"}
          /\ req[q].seen \in [Resources -> Nat]
      BY <1>5 DEF LedgerInv, RequestOK, IncreaseWrite, At, TypeOK, RequestRow, Limits
    <2>2. req[q].entry.amount \in Nat
      BY <2>1, AmountsAssumption DEF Entry
    <2>3. limits' = [req[q].seen EXCEPT ![req[q].entry.res] = @ + req[q].entry.amount]
      BY <1>5 DEF IncreaseWrite, Increased
    <2>4. \A r \in Resources :
              limits'[r] = IF r = req[q].entry.res THEN req[q].seen[r] + req[q].entry.amount
                                                   ELSE req[q].seen[r]
      BY <2>1, <2>3
    <2>5. Goto(q, "granted")
      BY <1>5 DEF IncreaseWrite
    <2>6. \A r \in Resources : req[q].seen[r] \in Nat
      BY LimitTypes
    <2>. QED  BY <2>1, <2>2, <2>4, <2>5, <2>6, WritingGrants
  <1>6. ASSUME NEW q \in Requests, EntryRead(q) \/ EntryWrite(q)
        PROVE  Granting(q)
    <2>1. req[q].pc \notin {"done", "granted"} /\ req[q] \in RequestRow /\ req[q].answer = "none"
      BY <1>6 DEF LedgerInv, EntryRead, EntryWrite, At, TypeOK, GrantInv
    <2>2. UNCHANGED limits /\ \A r \in Resources : limits'[r] <= limits[r]
      BY <1>6, LimitTypes DEF EntryRead, EntryWrite
    <2>3. ASSUME NEW answer \in Answer, Reply(q, answer)
          PROVE  Granting(q)
      BY <2>1, <2>2, <2>3, ReplyingGrants
    <2>4. CASE Goto(q, "entry_write")
      <3>1. Others(q) /\ req'[q] = [req[q] EXCEPT !.pc = "entry_write"]
        BY <2>4, Going DEF PC
      <3>. QED  BY <2>1, <2>2, <3>1 DEF Granting, RequestRow
    <2>. QED  BY <1>6, <2>3, <2>4 DEF EntryRead, EntryWrite, Answer
  <1>. QED  BY <1>1, <1>2, <1>3, <1>4, <1>5, <1>6 DEF Next, Answered

LEMMA GrantsInitially == Init => GrantInv
  <1>. SUFFICES ASSUME Init  PROVE GrantInv
    OBVIOUS
  <1>1. LedgerInv
    BY Initially
  <1>2. \A r \in Resources : limits[r] = 0 /\ \A q \in Requests : req[q].seen[r] = 0
    BY DEF Init, NotConfigured
  <1>3. \A q \in Requests : req[q].answer = "none"
    BY DEF Init
  <1>4. \A r \in Resources : Granted(r) \in Nat
    BY <1>1, GrantedType
  <1>. QED  BY <1>2, <1>3, <1>4 DEF GrantInv, NeverOvergranted

LEMMA GrantsInductive == LedgerInv /\ GrantInv /\ [Next]_vars => LedgerInv' /\ GrantInv'
  <1>. SUFFICES ASSUME LedgerInv, GrantInv, [Next]_vars  PROVE LedgerInv' /\ GrantInv'
    OBVIOUS
  <1>1. LedgerInv'
    BY Inductive
  <1>2. CASE UNCHANGED vars
    BY <1>1, <1>2 DEF vars, GrantInv, NeverOvergranted, Granted, Grant
  <1>3. CASE Next /\ ~UNCHANGED vars
    BY <1>1, <1>3, EveryStepGrants, GrantingKeeps, AnsweringKeeps
  <1>. QED  BY <1>1, <1>2, <1>3

\* The type invariant of the budget calls.
THEOREM TypeCorrect == Spec => []TypeOK
  BY Initially, Inductive, PTL DEF Spec, LedgerInv

\* Every answer 200 or 201 of POST /budget-entries names an entry that the ledger holds
\* with that resource and that amount (handlePostBudgetEntry, recordBudgetEntry).
THEOREM AcknowledgedSpendIsRecorded == Spec => []AcknowledgedIsRecorded
  BY Initially, Inductive, PTL DEF Spec, LedgerInv

\* No hard limit is ever higher than the sum of the grants whose INSERT or UPDATE was made,
\* whether their operators were told or not, however many requests lose each other's
\* updates of limits_json (addBudgetResource, increaseBudgetResource).
THEOREM NothingIsOvergranted == Spec => []NeverOvergranted
  <1>1. Init => LedgerInv /\ GrantInv
    BY Initially, GrantsInitially
  <1>. QED  BY <1>1, GrantsInductive, PTL DEF Spec, GrantInv
-----------------------------------------------------------------------------
(* Audit: an audit that nothing disturbed is exact.                        *)

\* What an audit carries along.
InputShape(in) ==
    in = [runs |-> in.runs, reports |-> in.reports, tasks |-> in.tasks,
          verifiers |-> in.verifiers, results |-> in.results, ledger |-> in.ledger,
          limits |-> in.limits, spent |-> in.spent, late |-> in.late, expired |-> in.expired]
AuditShape(row) ==
    row = [pc |-> row.pc, calm |-> row.calm, input |-> row.input, left |-> row.left,
           detected |-> row.detected, found |-> row.found, answer |-> row.answer]

\* Spending begins after the ledger has been created.
FundedInv ==
    /\ ~ledger => \A i \in EntryIds : entries[i] = NoEntry
    /\ \A q \in Requests : req[q].pc = "entry_write" => ledger

\* What a report is about has ended.
ReportsInv == \A r \in world.reports : world.runs[r].status \in RT!Terminal

\* Besides the types: what an audit has read it drops with the evaluation, and a finding
\* that was there when an audit looked for it stays there until it is written.
AuditRowOK(a) ==
    /\ AuditShape(audit[a])
    /\ InputShape(audit[a].input)
    /\ audit[a].calm \in BOOLEAN
    /\ audit[a].pc = "idle" => ~audit[a].calm
    /\ audit[a].pc \notin {"reports", "read"} => audit[a].input = NoInput
    /\ audit[a].pc = "write" =>
          audit[a].left # {} /\ (audit[a].found => NextKey(a) \in DOMAIN findings)

TypeInv ==
    /\ AuditTypeOK
    /\ audit = [a \in Audits |-> audit[a]]
    /\ \A a \in Audits : AuditRowOK(a)

\* What an audit of this moment would detect, and the runs that it would list.
Detected == EvaluateAuditRules(WholeInput)
Listed == {r \in Runs : world.runs[r].status # "absent"}

\* What a calm audit has read is still so.
ReadingOK(a) ==
    LET in == audit[a].input
        left == audit[a].left
    IN  /\ audit[a].pc \in {"reports", "read"} => in.runs = world.runs /\ in.late = Overdue
        /\ audit[a].pc = "reports" =>
              /\ in.reports = (world.reports \cap Listed) \ left
              /\ in.spent = NoInput.spent
        /\ audit[a].pc = "read" =>
              /\ in.reports = world.reports
              /\ "tasks" \notin left => in.tasks = world.tasks
              /\ "verifiers" \notin left => in.verifiers = world.verifiers
              /\ "results" \notin left => in.results = world.results
              /\ "expired" \notin left => in.expired = Expired(Overdue)
              /\ "limits" \in left => in.spent = NoInput.spent /\ "entries" \notin left
              /\ "limits" \notin left => /\ in.ledger = ledger /\ in.limits = limits
                                         /\ \/ "entries" \in left
                                            \/ in.spent = [r \in Resources |-> Consumed(r)]

\* What a calm audit has detected is what there is, and what it has written so far is there.
SyncingOK(a) ==
    LET left == audit[a].left
        writing == audit[a].pc \in {"select", "write"}
        written == audit[a].pc \in {"active", "resolve", "list", "done"}
    IN  /\ writing \/ written => audit[a].detected = Detected
        /\ writing => left \subseteq Detected /\ Detected \ left \subseteq ActiveKeys
        /\ written => Detected \subseteq ActiveKeys
        /\ audit[a].pc = "resolve" =>
              left \cap Detected = {} /\ ActiveKeys \subseteq Detected \cup left
        /\ audit[a].pc \in {"list", "done"} => ActiveKeys = Detected
        /\ audit[a].pc = "done" => audit[a].answer = Detected

\* An audit is only calm as long as all that overlap it are.
CalmTogether == \A a \in Audits, b \in InFlight : audit[a].calm => audit[b].calm

CalmInv ==
    /\ CalmTogether
    /\ \A a \in Audits : audit[a].calm => ReadingOK(a) /\ SyncingOK(a)
-----------------------------------------------------------------------------
(* Audit: the steps and what they leave alone                              *)

\* What every step of the lifecycle, a verdict or a verifier has in common.
LEMMA ChangesOfTheWorld ==
    ASSUME WorldStep
    PROVE  /\ changes < MaxChanges /\ changes' = changes + 1
           /\ Disturbed /\ UNCHANGED <<vars, table, scene>>
  <1>1. ASSUME NEW next, Changes(next)
        PROVE  /\ changes < MaxChanges /\ changes' = changes + 1
               /\ Disturbed /\ UNCHANGED <<vars, table, scene>>
    BY <1>1 DEF Changes
  <1>. QED
    BY <1>1 DEF WorldStep, InsertRun, UndoRun, ClaimRun, FileReport, TimePasses, EndRun,
                VerifyTask, CreateVerifierRun, CompleteVerifierRun, RecordTestResult

LEMMA AuditsOnlyRead ==
    ASSUME NEW a \in Audits, AuditStep(a)
    PROVE  UNCHANGED <<vars, observed, foreign, scene>>
  BY DEF AuditStep, ListRuns, ReadReport, ReadTable, Evaluate, SelectFinding, WriteFinding,
         ListActive, ResolveFinding, ListFindings, table

\* For the ledger, every step is one of Budget or none.
LEMMA LedgerMovesAlone == AuditNext => [Next]_vars
  <1>1. WorldStep => UNCHANGED vars
    BY ChangesOfTheWorld
  <1>2. \A a \in Audits : AuditStep(a) => UNCHANGED vars
    BY AuditsOnlyRead
  <1>. QED  BY <1>1, <1>2 DEF AuditNext, BudgetStep, OtherProjectFinds

LEMMA LedgerKept ==
    ASSUME LedgerInv, GrantInv, [AuditNext]_auditVars
    PROVE  LedgerInv' /\ GrantInv'
  BY LedgerMovesAlone, GrantsInductive DEF auditVars

\* Nothing is spent before the ledger has been created: an entry is written after it was
\* seen, and it stays.
LEMMA SpendingIsFunded == LedgerInv /\ FundedInv /\ [Next]_vars => FundedInv'
  <1>. SUFFICES ASSUME LedgerInv, FundedInv, [Next]_vars  PROVE FundedInv'
    OBVIOUS
  <1>. USE DEF FundedInv
  <1>1. \A q \in Requests : req[q] \in RequestRow
    BY DEF LedgerInv, TypeOK
  <1>2. ASSUME NEW q \in Requests, NEW r \in Resources, NEW a \in Amounts,
               AddRead(q, r, a) \/ IncreaseCheck(q, r, a)
        PROVE  FundedInv'
    <2>1. PICK kind \in {"add", "increase"}, pc \in {"done", "add_write", "inc_read"},
               answer \in {"conflict", "missing", "none"} :
            Begin(q, kind, [res |-> r, amount |-> a], "none", pc, answer)
      BY <1>2 DEF AddRead, IncreaseCheck
    <2>2. /\ kind \in Kind \ {"none"} /\ "none" \in EntryIds \cup {"none"}
          /\ pc \in PC /\ answer \in Answer
      BY DEF Kind, PC, Answer
    <2>3. Others(q) /\ req'[q].pc = pc
      <3>1. /\ Others(q)
            /\ req'[q] = [pc |-> pc, kind |-> kind, entry |-> [res |-> r, amount |-> a],
                          id |-> "none", found |-> ledger, seen |-> limits, answer |-> answer]
        BY <2>1, <2>2, Beginning
      <3>. QED  BY <3>1
    <2>4. UNCHANGED <<ledger, entries>>
      BY <1>2 DEF AddRead, IncreaseCheck
    <2>. QED  BY <2>3, <2>4 DEF Others
  <1>3. ASSUME NEW q \in Requests, NEW i \in EntryIds, NEW r \in Resources, NEW a \in Amounts,
               EntryCheck(q, i, r, a)
        PROVE  FundedInv'
    <2>1. PICK pc \in {"done", "entry_read"}, answer \in {"conflict", "ok", "none"} :
            Begin(q, "entry", [res |-> r, amount |-> a], i, pc, answer)
      BY <1>3 DEF EntryCheck, AnswerExisting
    <2>2. /\ "entry" \in Kind \ {"none"} /\ i \in EntryIds \cup {"none"}
          /\ pc \in PC /\ answer \in Answer
      BY DEF Kind, PC, Answer
    <2>3. Others(q) /\ req'[q].pc = pc
      <3>1. /\ Others(q)
            /\ req'[q] = [pc |-> pc, kind |-> "entry", entry |-> [res |-> r, amount |-> a],
                          id |-> i, found |-> ledger, seen |-> limits, answer |-> answer]
        BY <2>1, <2>2, Beginning
      <3>. QED  BY <3>1
    <2>4. UNCHANGED <<ledger, entries>>
      BY <1>3 DEF EntryCheck
    <2>. QED  BY <2>3, <2>4 DEF Others
  <1>4. ASSUME NEW q \in Requests, NEW answer \in Answer, Reply(q, answer)
        PROVE  \A p \in Requests : req'[p].pc = "entry_write" => req[p].pc = "entry_write"
    <2>1. Others(q) /\ req'[q] = [req[q] EXCEPT !.pc = "done", !.answer = answer]
      BY <1>4, Replying
    <2>2. req'[q].pc = "done"
      BY <1>1, <2>1 DEF RequestRow
    <2>. QED  BY <2>1, <2>2 DEF Others
  <1>5. ASSUME NEW q \in Requests,
               \/ AddFirst(q) \/ AddNext(q) \/ IncreaseWrite(q)
               \/ AnswerGrant(q) \/ EntryWrite(q)
        PROVE  FundedInv'
    <2>1. (\E answer \in Answer : Reply(q, answer)) \/ Goto(q, "granted")
      BY <1>5 DEF AddFirst, AddNext, IncreaseWrite, AnswerGrant, EntryWrite, Answer
    <2>2. \A p \in Requests : req'[p].pc = "entry_write" => req[p].pc = "entry_write"
      <3>1. CASE Goto(q, "granted")
        <4>1. Others(q) /\ req'[q] = [req[q] EXCEPT !.pc = "granted"]
          BY <3>1, Going DEF PC
        <4>2. req'[q].pc = "granted"
          BY <1>1, <4>1 DEF RequestRow
        <4>. QED  BY <4>1, <4>2 DEF Others
      <3>. QED  BY <1>4, <2>1, <3>1
    <2>3. ledger \in BOOLEAN /\ (ledger => ledger') /\ (UNCHANGED entries \/ ledger)
      BY <1>5 DEF LedgerInv, TypeOK, AddFirst, AddNext, IncreaseWrite, AnswerGrant, EntryWrite, At
    <2>. QED  BY <2>2, <2>3
  <1>6. ASSUME NEW q \in Requests, IncreaseRead(q)
        PROVE  FundedInv'
    <2>1. CASE Reply(q, "error")
      BY <1>4, <1>6, <2>1 DEF IncreaseRead, Answer
    <2>2. CASE req' = [req EXCEPT ![q].pc = "inc_write", ![q].seen = limits]
      BY <1>1, <1>6, <2>2 DEF IncreaseRead, LedgerInv, TypeOK, RequestRow
    <2>. QED  BY <1>6, <2>1, <2>2 DEF IncreaseRead
  <1>7. ASSUME NEW q \in Requests, EntryRead(q)
        PROVE  FundedInv'
    <2>1. CASE Reply(q, "error")
      BY <1>4, <1>7, <2>1 DEF EntryRead, Answer
    <2>2. CASE ledger /\ Goto(q, "entry_write")
      BY <1>1, <1>7, <2>2 DEF EntryRead
    <2>. QED  BY <1>7, <2>1, <2>2 DEF EntryRead
  <1>8. CASE UNCHANGED vars
    BY <1>8 DEF vars
  <1>. QED  BY <1>2, <1>3, <1>5, <1>6, <1>7, <1>8 DEF Next, Answered

\* Without a ledger, nothing has been consumed.
LEMMA NothingConsumed ==
    ASSUME \A i \in EntryIds : entries[i] = NoEntry, NEW r \in Resources
    PROVE  Consumed(r) = 0
  <1>. DEFINE f == [i \in EntryIds |-> IF entries[i].res = r THEN entries[i].amount ELSE 0]
  <1>1. \A i \in EntryIds : f[i] = 0
    BY DEF NoEntry
  <1>2. Units(f) = {}
    <2>1. \A i \in EntryIds : {i} \X (1 .. f[i]) = {}
      BY <1>1
    <2>2. DOMAIN f = EntryIds
      OBVIOUS
    <2>. HIDE DEF f
    <2>. QED  BY <2>1, <2>2 DEF Units
  <1>. QED  BY <1>2, FS_EmptySet DEF Consumed, Total
-----------------------------------------------------------------------------
(* Audit: the tables that are observed                                     *)

\* A run that moves with its task: from a status that has no report yet.
LEMMA MoveKeepsWorld ==
    ASSUME world \in World, ReportsInv, NEW r \in Runs, NEW to \in RT!RunStatus,
           NEW message \in Messages \cup {"none"}, NEW taskTo \in RT!TaskStatus,
           Assigned(r), world.runs[r].status \notin RT!Terminal,
           world' = MoveRun(r, to, message, taskTo)
    PROVE  world' \in World /\ ReportsInv'
  <1>. DEFINE t == world.runs[r].task
  <1>1. t \in Tasks
    BY DEF Assigned
  <1>2. /\ world'.tasks = [world.tasks EXCEPT ![t].status = taskTo]
        /\ world'.runs = [world.runs EXCEPT ![r].status = to, ![r].message = message]
        /\ world'.reports = world.reports /\ world'.overdue = world.overdue \ {r}
        /\ world'.verifiers = world.verifiers /\ world'.results = world.results
    BY DEF MoveRun, World
  <1>3. world'.tasks \in [Tasks -> [status : RT!TaskStatus, assigned : Runs \cup {"none"}]]
    BY <1>1, <1>2 DEF World
  <1>4. world'.runs \in [Runs -> [status : RT!RunStatus, task : Tasks \cup {"none"},
                                  message : Messages \cup {"none"}]]
    BY <1>2 DEF World
  <1>5. world' = [tasks |-> world'.tasks, runs |-> world'.runs, reports |-> world'.reports,
                  overdue |-> world'.overdue, verifiers |-> world'.verifiers,
                  results |-> world'.results]
    BY DEF MoveRun, World
  <1>6. world' \in World
    BY <1>2, <1>3, <1>4, <1>5 DEF World
  <1>7. ReportsInv'
    BY <1>2 DEF ReportsInv, World
  <1>. QED  BY <1>6, <1>7

LEMMA Worldly ==
    ASSUME world \in World, ReportsInv, WorldStep
    PROVE  world' \in World /\ ReportsInv'
  <1>1. ASSUME NEW r \in Runs, NEW t \in Tasks, InsertRun(r, t)
        PROVE  world' \in World /\ ReportsInv'
    <2>. DEFINE row == [status |-> "queued", task |-> t, message |-> "none"]
    <2>1. /\ world.runs[r].status = "absent"
          /\ \/ world' = [world EXCEPT !.runs[r] = row,
                             !.tasks[t] = [status |-> "assigned", assigned |-> r]]
             \/ world' = [world EXCEPT !.runs[r] = row]
      BY <1>1 DEF InsertRun, Changes, AbsentRun
    <2>2. r \notin world.reports
      BY <2>1 DEF ReportsInv, RT!Terminal
    <2>3. row \in [status : RT!RunStatus, task : Tasks \cup {"none"},
                   message : Messages \cup {"none"}]
      BY DEF RT!RunStatus, RT!Active
    <2>4. [status |-> "assigned", assigned |-> r]
             \in [status : RT!TaskStatus, assigned : Runs \cup {"none"}]
      BY DEF RT!TaskStatus
    <2>5. world' \in World
      <3>1. CASE world' = [world EXCEPT !.runs[r] = row]
        BY <2>3, <3>1 DEF World
      <3>2. CASE world' = [world EXCEPT !.runs[r] = row,
                              !.tasks[t] = [status |-> "assigned", assigned |-> r]]
        <4>1. [world EXCEPT !.runs[r] = row] \in World
          BY <2>3 DEF World
        <4>2. world' = [[world EXCEPT !.runs[r] = row] EXCEPT
                           !.tasks[t] = [status |-> "assigned", assigned |-> r]]
          BY <3>2
        <4>. QED  BY <2>4, <4>1, <4>2 DEF World
      <3>. QED  BY <2>1, <3>1, <3>2
    <2>6. world'.reports = world.reports /\ world'.runs = [world.runs EXCEPT ![r] = row]
      BY <2>1 DEF World
    <2>7. ReportsInv'
      BY <2>2, <2>6 DEF ReportsInv, World
    <2>. QED  BY <2>5, <2>7
  <1>2. ASSUME NEW r \in Runs, UndoRun(r)
        PROVE  world' \in World /\ ReportsInv'
    <2>1. /\ world.runs[r].status = "queued"
          /\ world' = [world EXCEPT !.runs[r] = AbsentRun, !.overdue = @ \ {r}]
      BY <1>2 DEF UndoRun, Changes
    <2>2. r \notin world.reports
      BY <2>1 DEF ReportsInv, RT!Terminal
    <2>3. AbsentRun \in [status : RT!RunStatus, task : Tasks \cup {"none"},
                         message : Messages \cup {"none"}]
      BY DEF RT!RunStatus, AbsentRun
    <2>5. world' \in World
      BY <2>1, <2>3 DEF World
    <2>6. world'.reports = world.reports /\ world'.runs = [world.runs EXCEPT ![r] = AbsentRun]
      BY <2>1 DEF World
    <2>7. ReportsInv'
      BY <2>2, <2>6 DEF ReportsInv, World
    <2>. QED  BY <2>5, <2>7
  <1>3. ASSUME NEW r \in Runs, ClaimRun(r)
        PROVE  world' \in World /\ ReportsInv'
    BY <1>3, MoveKeepsWorld
       DEF ClaimRun, Changes, RT!RunStatus, RT!Active, RT!Terminal, RT!TaskStatus
  <1>4. ASSUME NEW r \in Runs, NEW move \in RT!MoveName, NEW m \in Messages, EndRun(r, move, m)
        PROVE  world' \in World /\ ReportsInv'
    <2>1. /\ RT!Move[move].from \notin RT!Terminal /\ RT!Move[move].to \in RT!RunStatus
          /\ RT!Move[move].taskTo \in RT!TaskStatus
      BY DEF RT!MoveName, RT!Move, RT!Terminal, RT!RunStatus, RT!Active, RT!TaskStatus
    <2>. DEFINE message == CASE move = "timeout" -> TimeoutMessage
                             [] move = "fail" -> m
                             [] OTHER -> "none"
    <2>2. message \in Messages \cup {"none"}
      BY MessagesAssumption
    <2>3. /\ world.runs[r].status = RT!Move[move].from /\ Assigned(r)
          /\ world' = MoveRun(r, RT!Move[move].to, message, RT!Move[move].taskTo)
      BY <1>4 DEF EndRun, Changes
    <2>. HIDE DEF message
    <2>. QED  BY <2>1, <2>2, <2>3, MoveKeepsWorld
  <1>5. ASSUME NEW r \in Runs, FileReport(r)
        PROVE  world' \in World /\ ReportsInv'
    BY <1>5 DEF FileReport, Changes, World, ReportsInv
  <1>6. ASSUME NEW r \in Runs, TimePasses(r)
        PROVE  world' \in World /\ ReportsInv'
    BY <1>6 DEF TimePasses, Changes, World, ReportsInv
  <1>7. ASSUME NEW t \in Tasks, NEW verdict \in DOMAIN RT!Verdict, VerifyTask(t, verdict)
        PROVE  world' \in World /\ ReportsInv'
    <2>1. RT!Verdict[verdict] \in RT!TaskStatus
      BY DEF RT!Verdict, RT!TaskStatus
    <2>2. world' = [world EXCEPT !.tasks[t].status = RT!Verdict[verdict]]
      BY <1>7 DEF VerifyTask, Changes
    <2>3. world'.tasks = [world.tasks EXCEPT ![t].status = RT!Verdict[verdict]]
      BY <2>2 DEF World
    <2>4. world'.tasks \in [Tasks -> [status : RT!TaskStatus, assigned : Runs \cup {"none"}]]
      BY <2>1, <2>3 DEF World
    <2>5. world' = [world EXCEPT !.tasks = world'.tasks]
      BY <2>2, <2>3 DEF World
    <2>. HIDE DEF World
    <2>6. world' \in World
      BY <2>4, <2>5 DEF World
    <2>7. world'.runs = world.runs /\ world'.reports = world.reports
      BY <2>2 DEF World
    <2>. QED  BY <2>6, <2>7 DEF ReportsInv
  <1>8. ASSUME NEW v \in Verifiers, NEW t \in Tasks, CreateVerifierRun(v, t)
        PROVE  world' \in World /\ ReportsInv'
    BY <1>8 DEF CreateVerifierRun, Changes, World, ReportsInv
  <1>9. ASSUME NEW v \in Verifiers, NEW o \in Outcomes, CompleteVerifierRun(v, o)
        PROVE  world' \in World /\ ReportsInv'
    <2>. DEFINE row == [world.verifiers[v] EXCEPT !.status = "completed", !.outcome = o]
    <2>1. row \in [status : {"absent", "pending", "completed"}, task : Tasks \cup {"none"},
                   outcome : Outcomes \cup {"none"}]
      <3>1. world.verifiers[v] \in [status : {"absent", "pending", "completed"},
                                    task : Tasks \cup {"none"}, outcome : Outcomes \cup {"none"}]
        BY DEF World
      <3>. QED  BY <3>1
    <2>2. world' = [world EXCEPT !.verifiers[v] = row]
      BY <1>9 DEF CompleteVerifierRun, Changes, World
    <2>. HIDE DEF row
    <2>. QED  BY <2>1, <2>2 DEF World, ReportsInv
  <1>10. ASSUME NEW x \in Results, NEW v \in Verifiers, NEW o \in Outcomes,
                RecordTestResult(x, v, o)
         PROVE  world' \in World /\ ReportsInv'
    BY <1>10 DEF RecordTestResult, Changes, World, ReportsInv
  <1>. QED
    BY <1>1, <1>2, <1>3, <1>4, <1>5, <1>6, <1>7, <1>8, <1>9, <1>10 DEF WorldStep
-----------------------------------------------------------------------------
(* Audit: the type invariant                                               *)

\* A step of one audit.
OnlyAudit(a) ==
    /\ audit' = [b \in Audits |-> audit'[b]]
    /\ \A b \in Audits : b # a => audit'[b] = audit[b]

LEMMA SetRow ==
    ASSUME audit = [b \in Audits |-> audit[b]], NEW a \in Audits, NEW row, Set(a, row)
    PROVE  OnlyAudit(a) /\ audit'[a] = row
  BY DEF Set, OnlyAudit

\* What the findings of a project are, apart from the audits.
FindingsOK ==
    /\ \A k \in DOMAIN findings : findings[k] \in FindingStatus
    /\ \A j, k \in DOMAIN findings : FindingId(j) = FindingId(k) => j = k
    /\ foreign \cap {FindingId(k) : k \in DOMAIN findings} = {}

LEMMA FindingsAreOK == TypeInv => FindingsOK
  BY DEF TypeInv, AuditTypeOK, FindingsOK

\* A finding is written under an id that nobody has, or that is its own.
LEMMA WritingKeeps ==
    ASSUME FindingsOK, NEW k, k \in DOMAIN findings \/ FindingId(k) \notin Taken,
           findings' = Written(k), UNCHANGED foreign
    PROVE  FindingsOK' /\ DOMAIN findings' = DOMAIN findings \cup {k}
  <1>1. /\ DOMAIN findings' = DOMAIN findings \cup {k}
        /\ \A j \in DOMAIN findings' :
              findings'[j] = IF j = k THEN "active" ELSE findings[j]
    BY DEF Written
  <1>3. \A j \in DOMAIN findings' : findings'[j] \in FindingStatus
    BY <1>1 DEF FindingsOK, FindingStatus
  <1>4. ASSUME NEW i \in DOMAIN findings', NEW j \in DOMAIN findings',
               FindingId(i) = FindingId(j)
        PROVE  i = j
    BY <1>1, <1>4 DEF FindingsOK, Taken
  <1>5. foreign \cap {FindingId(j) : j \in DOMAIN findings'} = {}
    BY <1>1 DEF FindingsOK, Taken
  <1>. QED  BY <1>1, <1>3, <1>4, <1>5 DEF FindingsOK

LEMMA ResolvingKeeps ==
    ASSUME FindingsOK, NEW k, findings' = [findings EXCEPT ![k] = "resolved"], UNCHANGED foreign
    PROVE  FindingsOK' /\ DOMAIN findings' = DOMAIN findings
  BY DEF FindingsOK, FindingStatus

\* A step of one audit keeps the types if it keeps those of its own row.
LEMMA StepOfOneAudit ==
    ASSUME TypeInv, LedgerInv', NEW a \in Audits, OnlyAudit(a), AuditRowOK(a)',
           audit'[a].pc \in AuditPC, audit'[a].input.reports \subseteq Runs,
           FindingsOK', DOMAIN findings \subseteq DOMAIN findings', UNCHANGED <<observed, scene>>
    PROVE  TypeInv'
  <1>1. ASSUME NEW b \in Audits, b # a
        PROVE  /\ AuditRowOK(b)'
               /\ audit'[b].pc \in AuditPC /\ audit'[b].input.reports \subseteq Runs
    <2>1. audit'[b] = audit[b]
      BY <1>1 DEF OnlyAudit
    <2>2. NextKey(b)' = NextKey(b)
      BY <2>1 DEF NextKey
    <2>. QED  BY <2>1, <2>2 DEF TypeInv, AuditTypeOK, AuditRowOK
  <1>2. \A b \in Audits : /\ audit'[b].pc \in {"done", "failed"} => audit'[b].input = NoInput
                          /\ AuditRowOK(b)'
                          /\ audit'[b].pc \in AuditPC /\ audit'[b].input.reports \subseteq Runs
    BY <1>1 DEF AuditRowOK
  <1>3. /\ TypeOK' /\ world' \in World /\ scene' \in Scene
        /\ changes' \in 0 .. MaxChanges
    BY DEF LedgerInv, TypeInv, AuditTypeOK, observed
  <1>4. AuditTypeOK'
    BY <1>2, <1>3 DEF AuditTypeOK, FindingsOK
  <1>. QED  BY <1>2, <1>4 DEF TypeInv, OnlyAudit, FindingsOK

LEMMA RowOf ==
    ASSUME TypeInv, NEW a \in Audits
    PROVE  /\ AuditShape(audit[a]) /\ InputShape(audit[a].input)
           /\ audit[a].calm \in BOOLEAN /\ audit[a].pc \in AuditPC
           /\ audit[a].input.reports \subseteq Runs
           /\ audit = [b \in Audits |-> audit[b]]
  BY DEF TypeInv, AuditTypeOK, AuditRowOK

\* What a step of an audit makes of its row.
Becomes(a, pc, calm, input, left, detected, found, answer) ==
    /\ OnlyAudit(a)
    /\ AuditShape(audit'[a])
    /\ audit'[a].pc = pc /\ audit'[a].calm = calm
    /\ audit'[a].input = input /\ audit'[a].left = left
    /\ audit'[a].detected = detected /\ audit'[a].found = found /\ audit'[a].answer = answer

LEMMA ListRunsRow ==
    ASSUME TypeInv, NEW a \in Audits, ListRuns(a)
    PROVE  Becomes(a, "reports", \A b \in InFlight : audit[b].calm, [NoInput EXCEPT !.runs = world.runs, !.late = Overdue],
                   Listed,
                   audit[a].detected, audit[a].found, audit[a].answer)
  <1>. DEFINE calm == \A b \in InFlight : audit[b].calm
  <1>. HIDE DEF calm
  <1>0. audit[a].input = NoInput
    BY DEF TypeInv, AuditRowOK, ListRuns, AuditAt
  <1>1. PICK old : old = audit[a]
    OBVIOUS
  <1>2. AuditShape(old)
    BY <1>1, RowOf
  <1>3. PICK row : row = [old EXCEPT !.pc = "reports", !.calm = calm,
                                     !.input.runs = world.runs, !.input.late = Overdue,
                                     !.left = Listed]
    OBVIOUS
  <1>4. /\ AuditShape(row)
        /\ row.pc = "reports" /\ row.calm = calm
        /\ row.input = [old.input EXCEPT !.runs = world.runs, !.late = Overdue]
        /\ row.left = Listed /\ row.detected = old.detected
        /\ row.found = old.found /\ row.answer = old.answer
    BY <1>2, <1>3 DEF AuditShape
  <1>5. OnlyAudit(a) /\ audit'[a] = row
    <2>1. Set(a, row)
      BY <1>1, <1>3 DEF ListRuns, Listed, calm
    <2>. QED  BY <2>1, RowOf, SetRow
  <1>. QED  BY <1>1, <1>4, <1>5, <1>0 DEF Becomes, calm

LEMMA ReadReportRow ==
    ASSUME TypeInv, NEW a \in Audits, ReadReport(a)
    PROVE  \/ /\ audit[a].left = {}
              /\ Becomes(a, "read", audit[a].calm, audit[a].input, Reads,
                         audit[a].detected, audit[a].found, audit[a].answer)
           \/ \E r \in audit[a].left :
                 Becomes(a, audit[a].pc, audit[a].calm,
                         [audit[a].input EXCEPT !.reports = @ \cup (world.reports \cap {r})],
                         audit[a].left \ {r},
                         audit[a].detected, audit[a].found, audit[a].answer)
  <1>1. CASE audit[a].left = {}
    <2>1. PICK old : old = audit[a]
      OBVIOUS
    <2>2. AuditShape(old)
      BY <2>1, RowOf
    <2>3. PICK row : row = [old EXCEPT !.pc = "read", !.left = Reads]
      OBVIOUS
    <2>4. /\ AuditShape(row)
          /\ row.pc = "read" /\ row.calm = old.calm
          /\ row.input = old.input
          /\ row.left = Reads /\ row.detected = old.detected
          /\ row.found = old.found /\ row.answer = old.answer
      BY <2>2, <2>3 DEF AuditShape
    <2>5. OnlyAudit(a) /\ audit'[a] = row
      <3>1. Set(a, row)
        BY <2>1, <2>3, <1>1 DEF ReadReport
      <3>. QED  BY <3>1, RowOf, SetRow
    <2>. QED  BY <2>1, <2>4, <2>5, <1>1 DEF Becomes
  <1>2. CASE audit[a].left # {}
    <2>. DEFINE r == CHOOSE s \in audit[a].left : TRUE
    <2>0. r \in audit[a].left
      BY <1>2
    <2>. HIDE DEF r
    <2>1. PICK old : old = audit[a]
      OBVIOUS
    <2>2. AuditShape(old)
      BY <2>1, RowOf
    <2>3. PICK row : row = [old EXCEPT !.left = @ \ {r},
                                     !.input.reports = @ \cup (world.reports \cap {r})]
      OBVIOUS
    <2>4. /\ AuditShape(row)
          /\ row.pc = old.pc /\ row.calm = old.calm
          /\ row.input = [old.input EXCEPT !.reports = @ \cup (world.reports \cap {r})]
          /\ row.left = old.left \ {r} /\ row.detected = old.detected
          /\ row.found = old.found /\ row.answer = old.answer
      BY <2>2, <2>3 DEF AuditShape
    <2>5. OnlyAudit(a) /\ audit'[a] = row
      <3>1. Set(a, row)
        BY <2>1, <2>3, <1>2 DEF ReadReport, r
      <3>. QED  BY <3>1, RowOf, SetRow
    <2>. QED  BY <2>1, <2>4, <2>5, <2>0 DEF Becomes
  <1>. QED  BY <1>1, <1>2

\* What a read adds to the input.
Got(in, what) ==
    CASE what = "tasks" -> [in EXCEPT !.tasks = world.tasks]
      [] what = "verifiers" -> [in EXCEPT !.verifiers = world.verifiers]
      [] what = "results" -> [in EXCEPT !.results = world.results]
      [] what = "limits" -> [in EXCEPT !.ledger = ledger, !.limits = limits]
      [] what = "expired" -> [in EXCEPT !.expired = Expired(in.late)]
      [] what = "entries" -> [in EXCEPT !.spent = [r \in Resources |-> Consumed(r)]]
LeftAfter(left, what) ==
    (left \ {what}) \cup (IF what = "limits" /\ ledger THEN {"entries"} ELSE {})

LEMMA ReadTableRow ==
    ASSUME TypeInv, NEW a \in Audits, NEW what \in Reads \cup {"entries"}, ReadTable(a, what)
    PROVE  Becomes(a, audit[a].pc, audit[a].calm, Got(audit[a].input, what),
                   LeftAfter(audit[a].left, what),
                   audit[a].detected, audit[a].found, audit[a].answer)
  <1>. DEFINE in == audit[a].input
              got == Got(in, what)
              next == LeftAfter(audit[a].left, what)
  <1>0. Set(a, [audit[a] EXCEPT !.input = got, !.left = next])
    BY DEF ReadTable, Got, LeftAfter
  <1>. HIDE DEF got, next
  <1>1. PICK old : old = audit[a]
    OBVIOUS
  <1>2. AuditShape(old)
    BY <1>1, RowOf
  <1>3. PICK row : row = [old EXCEPT !.input = got, !.left = next]
    OBVIOUS
  <1>4. /\ AuditShape(row)
        /\ row.pc = old.pc /\ row.calm = old.calm
        /\ row.input = got
        /\ row.left = next /\ row.detected = old.detected
        /\ row.found = old.found /\ row.answer = old.answer
    BY <1>2, <1>3 DEF AuditShape
  <1>5. OnlyAudit(a) /\ audit'[a] = row
    <2>1. Set(a, row)
      BY <1>1, <1>3, <1>0
    <2>. QED  BY <2>1, RowOf, SetRow
  <1>. QED  BY <1>1, <1>4, <1>5 DEF Becomes, got, next

LEMMA EvaluateRow ==
    ASSUME TypeInv, NEW a \in Audits, Evaluate(a)
    PROVE  Becomes(a, "select", audit[a].calm, NoInput,
                   EvaluateAuditRules(audit[a].input),
                   EvaluateAuditRules(audit[a].input), audit[a].found, audit[a].answer)
  <1>. DEFINE keys == EvaluateAuditRules(audit[a].input)
  <1>0. Set(a, [audit[a] EXCEPT !.pc = "select", !.input = NoInput,
                                !.detected = keys, !.left = keys])
    BY DEF Evaluate
  <1>. HIDE DEF keys
  <1>1. PICK old : old = audit[a]
    OBVIOUS
  <1>2. AuditShape(old)
    BY <1>1, RowOf
  <1>3. PICK row : row = [old EXCEPT !.pc = "select", !.input = NoInput,
                                     !.detected = keys, !.left = keys]
    OBVIOUS
  <1>4. /\ AuditShape(row)
        /\ row.pc = "select" /\ row.calm = old.calm
        /\ row.input = NoInput
        /\ row.left = keys /\ row.detected = keys
        /\ row.found = old.found /\ row.answer = old.answer
    BY <1>2, <1>3 DEF AuditShape
  <1>5. OnlyAudit(a) /\ audit'[a] = row
    <2>1. Set(a, row)
      BY <1>1, <1>3, <1>0
    <2>. QED  BY <2>1, RowOf, SetRow
  <1>. QED  BY <1>1, <1>4, <1>5 DEF Becomes, keys

LEMMA SelectedRow ==
    ASSUME TypeInv, NEW a \in Audits, SelectFinding(a), audit[a].left = {}
    PROVE  Becomes(a, "active", audit[a].calm, audit[a].input,
                   audit[a].left,
                   audit[a].detected, audit[a].found, audit[a].answer)
  <1>1. PICK old : old = audit[a]
    OBVIOUS
  <1>2. AuditShape(old)
    BY <1>1, RowOf
  <1>3. PICK row : row = [old EXCEPT !.pc = "active"]
    OBVIOUS
  <1>4. /\ AuditShape(row)
        /\ row.pc = "active" /\ row.calm = old.calm
        /\ row.input = old.input
        /\ row.left = old.left /\ row.detected = old.detected
        /\ row.found = old.found /\ row.answer = old.answer
    BY <1>2, <1>3 DEF AuditShape
  <1>5. OnlyAudit(a) /\ audit'[a] = row
    <2>1. Set(a, row)
      BY <1>1, <1>3 DEF SelectFinding
    <2>. QED  BY <2>1, RowOf, SetRow
  <1>. QED  BY <1>1, <1>4, <1>5 DEF Becomes

LEMMA SelectRow ==
    ASSUME TypeInv, NEW a \in Audits, SelectFinding(a), audit[a].left # {}
    PROVE  Becomes(a, "write", audit[a].calm, audit[a].input,
                   audit[a].left,
                   audit[a].detected, NextKey(a) \in DOMAIN findings, audit[a].answer)
  <1>1. PICK old : old = audit[a]
    OBVIOUS
  <1>2. AuditShape(old)
    BY <1>1, RowOf
  <1>3. PICK row : row = [old EXCEPT !.pc = "write", !.found = NextKey(a) \in DOMAIN findings]
    OBVIOUS
  <1>4. /\ AuditShape(row)
        /\ row.pc = "write" /\ row.calm = old.calm
        /\ row.input = old.input
        /\ row.left = old.left /\ row.detected = old.detected
        /\ row.found = (NextKey(a) \in DOMAIN findings) /\ row.answer = old.answer
    BY <1>2, <1>3 DEF AuditShape
  <1>5. OnlyAudit(a) /\ audit'[a] = row
    <2>1. Set(a, row)
      BY <1>1, <1>3 DEF SelectFinding
    <2>. QED  BY <2>1, RowOf, SetRow
  <1>. QED  BY <1>1, <1>4, <1>5 DEF Becomes

LEMMA FailedRow ==
    ASSUME TypeInv, NEW a \in Audits, WriteFinding(a),
           ~audit[a].found, FindingId(NextKey(a)) \in Taken
    PROVE  Becomes(a, "failed", audit[a].calm, audit[a].input,
                   {},
                   audit[a].detected, audit[a].found, audit[a].answer)
  <1>1. PICK old : old = audit[a]
    OBVIOUS
  <1>2. AuditShape(old)
    BY <1>1, RowOf
  <1>3. PICK row : row = [old EXCEPT !.pc = "failed", !.left = {}]
    OBVIOUS
  <1>4. /\ AuditShape(row)
        /\ row.pc = "failed" /\ row.calm = old.calm
        /\ row.input = old.input
        /\ row.left = {} /\ row.detected = old.detected
        /\ row.found = old.found /\ row.answer = old.answer
    BY <1>2, <1>3 DEF AuditShape
  <1>5. OnlyAudit(a) /\ audit'[a] = row
    <2>1. Set(a, row)
      BY <1>1, <1>3 DEF WriteFinding
    <2>. QED  BY <2>1, RowOf, SetRow
  <1>. QED  BY <1>1, <1>4, <1>5 DEF Becomes

LEMMA WrittenRow ==
    ASSUME TypeInv, NEW a \in Audits, WriteFinding(a),
           audit[a].found \/ FindingId(NextKey(a)) \notin Taken
    PROVE  Becomes(a, "select", audit[a].calm, audit[a].input,
                   audit[a].left \ {NextKey(a)},
                   audit[a].detected, audit[a].found, audit[a].answer)
  <1>1. PICK old : old = audit[a]
    OBVIOUS
  <1>2. AuditShape(old)
    BY <1>1, RowOf
  <1>3. PICK row : row = [old EXCEPT !.pc = "select", !.left = @ \ {NextKey(a)}]
    OBVIOUS
  <1>4. /\ AuditShape(row)
        /\ row.pc = "select" /\ row.calm = old.calm
        /\ row.input = old.input
        /\ row.left = old.left \ {NextKey(a)} /\ row.detected = old.detected
        /\ row.found = old.found /\ row.answer = old.answer
    BY <1>2, <1>3 DEF AuditShape
  <1>5. OnlyAudit(a) /\ audit'[a] = row
    <2>1. Set(a, row)
      BY <1>1, <1>3 DEF WriteFinding
    <2>. QED  BY <2>1, RowOf, SetRow
  <1>. QED  BY <1>1, <1>4, <1>5 DEF Becomes

LEMMA ListActiveRow ==
    ASSUME TypeInv, NEW a \in Audits, ListActive(a)
    PROVE  Becomes(a, "resolve", audit[a].calm, audit[a].input,
                   ToResolve(a),
                   audit[a].detected, audit[a].found, audit[a].answer)
  <1>1. PICK old : old = audit[a]
    OBVIOUS
  <1>2. AuditShape(old)
    BY <1>1, RowOf
  <1>3. PICK row : row = [old EXCEPT !.pc = "resolve", !.left = ToResolve(a)]
    OBVIOUS
  <1>4. /\ AuditShape(row)
        /\ row.pc = "resolve" /\ row.calm = old.calm
        /\ row.input = old.input
        /\ row.left = ToResolve(a) /\ row.detected = old.detected
        /\ row.found = old.found /\ row.answer = old.answer
    BY <1>2, <1>3 DEF AuditShape
  <1>5. OnlyAudit(a) /\ audit'[a] = row
    <2>1. Set(a, row)
      BY <1>1, <1>3 DEF ListActive
    <2>. QED  BY <2>1, RowOf, SetRow
  <1>. QED  BY <1>1, <1>4, <1>5 DEF Becomes

LEMMA ResolvedRow ==
    ASSUME TypeInv, NEW a \in Audits, ResolveFinding(a), audit[a].left = {}
    PROVE  Becomes(a, "list", audit[a].calm, audit[a].input,
                   audit[a].left,
                   audit[a].detected, audit[a].found, audit[a].answer)
  <1>1. PICK old : old = audit[a]
    OBVIOUS
  <1>2. AuditShape(old)
    BY <1>1, RowOf
  <1>3. PICK row : row = [old EXCEPT !.pc = "list"]
    OBVIOUS
  <1>4. /\ AuditShape(row)
        /\ row.pc = "list" /\ row.calm = old.calm
        /\ row.input = old.input
        /\ row.left = old.left /\ row.detected = old.detected
        /\ row.found = old.found /\ row.answer = old.answer
    BY <1>2, <1>3 DEF AuditShape
  <1>5. OnlyAudit(a) /\ audit'[a] = row
    <2>1. Set(a, row)
      BY <1>1, <1>3 DEF ResolveFinding
    <2>. QED  BY <2>1, RowOf, SetRow
  <1>. QED  BY <1>1, <1>4, <1>5 DEF Becomes

LEMMA ResolveRow ==
    ASSUME TypeInv, NEW a \in Audits, ResolveFinding(a), audit[a].left # {}
    PROVE  Becomes(a, audit[a].pc, audit[a].calm, audit[a].input,
                   audit[a].left \ {NextKey(a)},
                   audit[a].detected, audit[a].found, audit[a].answer)
  <1>1. PICK old : old = audit[a]
    OBVIOUS
  <1>2. AuditShape(old)
    BY <1>1, RowOf
  <1>3. PICK row : row = [old EXCEPT !.left = @ \ {NextKey(a)}]
    OBVIOUS
  <1>4. /\ AuditShape(row)
        /\ row.pc = old.pc /\ row.calm = old.calm
        /\ row.input = old.input
        /\ row.left = old.left \ {NextKey(a)} /\ row.detected = old.detected
        /\ row.found = old.found /\ row.answer = old.answer
    BY <1>2, <1>3 DEF AuditShape
  <1>5. OnlyAudit(a) /\ audit'[a] = row
    <2>1. Set(a, row)
      BY <1>1, <1>3 DEF ResolveFinding
    <2>. QED  BY <2>1, RowOf, SetRow
  <1>. QED  BY <1>1, <1>4, <1>5 DEF Becomes

LEMMA ListFindingsRow ==
    ASSUME TypeInv, NEW a \in Audits, ListFindings(a)
    PROVE  Becomes(a, "done", audit[a].calm, audit[a].input,
                   audit[a].left,
                   audit[a].detected, audit[a].found, ActiveKeys)
  <1>1. PICK old : old = audit[a]
    OBVIOUS
  <1>2. AuditShape(old)
    BY <1>1, RowOf
  <1>3. PICK row : row = [old EXCEPT !.pc = "done", !.answer = ActiveKeys]
    OBVIOUS
  <1>4. /\ AuditShape(row)
        /\ row.pc = "done" /\ row.calm = old.calm
        /\ row.input = old.input
        /\ row.left = old.left /\ row.detected = old.detected
        /\ row.found = old.found /\ row.answer = ActiveKeys
    BY <1>2, <1>3 DEF AuditShape
  <1>5. OnlyAudit(a) /\ audit'[a] = row
    <2>1. Set(a, row)
      BY <1>1, <1>3 DEF ListFindings
    <2>. QED  BY <2>1, RowOf, SetRow
  <1>. QED  BY <1>1, <1>4, <1>5 DEF Becomes

LEMMA RowKeeps ==
    ASSUME TypeInv, LedgerInv', NEW a \in Audits, AuditStep(a),
           NEW pc \in AuditPC, NEW calm \in BOOLEAN, NEW input, NEW left, NEW detected,
           NEW found, NEW answer, Becomes(a, pc, calm, input, left, detected, found, answer),
           pc # "idle", InputShape(input), input.reports \subseteq Runs,
           pc \notin {"reports", "read"} => input = NoInput,
           pc = "write" => /\ left # {} /\ left = audit[a].left
                           /\ found = (NextKey(a) \in DOMAIN findings),
           FindingsOK', DOMAIN findings \subseteq DOMAIN findings'
    PROVE  TypeInv'
  <1>1. UNCHANGED <<observed, scene>>
    BY AuditsOnlyRead
  <1>2. pc = "write" => NextKey(a)' = NextKey(a)
    BY DEF Becomes, NextKey
  <1>3. AuditRowOK(a)'
    BY <1>2 DEF Becomes, AuditRowOK
  <1>. QED  BY <1>1, <1>3, StepOfOneAudit DEF Becomes

LEMMA NoInputIsOne == InputShape(NoInput) /\ NoInput.reports = {}
  BY DEF NoInput, InputShape

\* What reading adds to an input.
LEMMA GotIsOne ==
    ASSUME NEW in, InputShape(in), NEW what \in Reads \cup {"entries"}
    PROVE  /\ InputShape(Got(in, what)) /\ Got(in, what).reports = in.reports
           /\ Got(in, what).runs = in.runs /\ Got(in, what).late = in.late
           /\ Got(in, what).tasks = IF what = "tasks" THEN world.tasks ELSE in.tasks
           /\ Got(in, what).verifiers =
                 IF what = "verifiers" THEN world.verifiers ELSE in.verifiers
           /\ Got(in, what).results = IF what = "results" THEN world.results ELSE in.results
           /\ Got(in, what).expired =
                 IF what = "expired" THEN Expired(in.late) ELSE in.expired
           /\ Got(in, what).ledger = IF what = "limits" THEN ledger ELSE in.ledger
           /\ Got(in, what).limits = IF what = "limits" THEN limits ELSE in.limits
           /\ Got(in, what).spent =
                 IF what = "entries" THEN [r \in Resources |-> Consumed(r)] ELSE in.spent
  <1>1. CASE what = "tasks"
    BY <1>1 DEF Got, InputShape
  <1>2. CASE what = "verifiers"
    BY <1>2 DEF Got, InputShape
  <1>3. CASE what = "results"
    BY <1>3 DEF Got, InputShape
  <1>4. CASE what = "limits"
    BY <1>4 DEF Got, InputShape
  <1>5. CASE what = "expired"
    BY <1>5 DEF Got, InputShape
  <1>6. CASE what = "entries"
    BY <1>6 DEF Got, InputShape
  <1>. QED  BY <1>1, <1>2, <1>3, <1>4, <1>5, <1>6 DEF Reads

LEMMA ReportsRead ==
    ASSUME NEW in, InputShape(in), NEW more, NEW out, out = [in EXCEPT !.reports = @ \cup more]
    PROVE  /\ InputShape(out) /\ out.reports = in.reports \cup more
           /\ out.runs = in.runs /\ out.tasks = in.tasks /\ out.verifiers = in.verifiers
           /\ out.results = in.results /\ out.ledger = in.ledger
           /\ out.limits = in.limits /\ out.spent = in.spent /\ out.late = in.late
           /\ out.expired = in.expired
  BY DEF InputShape

LEMMA RunsRead ==
    ASSUME NEW in, in = [NoInput EXCEPT !.runs = world.runs, !.late = Overdue]
    PROVE  /\ InputShape(in) /\ in.runs = world.runs /\ in.late = Overdue
           /\ in.reports = {} /\ in.tasks = NoInput.tasks /\ in.verifiers = NoInput.verifiers
           /\ in.results = NoInput.results /\ in.ledger = NoInput.ledger
           /\ in.limits = NoInput.limits /\ in.spent = NoInput.spent
           /\ in.expired = NoInput.expired
  BY DEF InputShape, NoInput

LEMMA AuditStepTypes ==
    ASSUME TypeInv, LedgerInv', NEW a \in Audits, AuditStep(a)
    PROVE  TypeInv'
  <1>1. /\ InputShape(audit[a].input) /\ audit[a].calm \in BOOLEAN
        /\ audit[a].pc \in AuditPC /\ audit[a].input.reports \subseteq Runs
    BY RowOf
  <1>2. audit[a].pc \notin {"reports", "read"} => audit[a].input = NoInput
    BY DEF TypeInv, AuditRowOK
  <1>3. FindingsOK
    BY FindingsAreOK
  <1>4. UNCHANGED findings => FindingsOK' /\ DOMAIN findings \subseteq DOMAIN findings'
    BY <1>3, AuditsOnlyRead DEF FindingsOK
  <1>. USE DEF AuditAt, AuditPC
  <1>5. CASE ListRuns(a)
    <2>. DEFINE in == [NoInput EXCEPT !.runs = world.runs, !.late = Overdue]
                calm == \A b \in InFlight : audit[b].calm
    <2>1. calm \in BOOLEAN
      OBVIOUS
    <2>2. InputShape(in) /\ in.reports = {}
      BY RunsRead
    <2>3. UNCHANGED findings
      BY <1>5 DEF ListRuns, table
    <2>4. Becomes(a, "reports", calm, in, Listed,
                  audit[a].detected, audit[a].found, audit[a].answer)
      BY <1>5, ListRunsRow
    <2>. HIDE DEF in, calm
    <2>. QED  BY <1>4, <2>1, <2>2, <2>3, <2>4, RowKeeps
  <1>6. CASE ReadReport(a)
    <2>1. UNCHANGED findings /\ audit[a].pc = "reports"
      BY <1>6 DEF ReadReport, table
    <2>2. CASE Becomes(a, "read", audit[a].calm, audit[a].input, Reads,
                       audit[a].detected, audit[a].found, audit[a].answer)
      BY <1>1, <1>4, <2>1, <2>2, RowKeeps
    <2>3. ASSUME NEW r \in audit[a].left,
                 Becomes(a, audit[a].pc, audit[a].calm,
                         [audit[a].input EXCEPT !.reports = @ \cup (world.reports \cap {r})],
                         audit[a].left \ {r},
                         audit[a].detected, audit[a].found, audit[a].answer)
          PROVE  TypeInv'
      <3>. DEFINE in == [audit[a].input EXCEPT !.reports = @ \cup (world.reports \cap {r})]
      <3>1. InputShape(in) /\ in.reports = audit[a].input.reports \cup (world.reports \cap {r})
        BY <1>1, ReportsRead
      <3>2. world.reports \subseteq Runs
        BY DEF TypeInv, AuditTypeOK, World
      <3>3. Becomes(a, audit[a].pc, audit[a].calm, in, audit[a].left \ {r},
                    audit[a].detected, audit[a].found, audit[a].answer)
        BY <2>3
      <3>. HIDE DEF in
      <3>. QED  BY <1>1, <1>4, <2>1, <3>1, <3>2, <3>3, RowKeeps
    <2>. QED  BY <1>6, <2>2, <2>3, ReadReportRow
  <1>7. ASSUME NEW what \in Reads \cup {"entries"}, ReadTable(a, what)
        PROVE  TypeInv'
    <2>1. UNCHANGED findings /\ audit[a].pc = "read"
      BY <1>7 DEF ReadTable, table
    <2>2. /\ InputShape(Got(audit[a].input, what))
          /\ Got(audit[a].input, what).reports = audit[a].input.reports
      BY <1>1, GotIsOne
    <2>3. Becomes(a, audit[a].pc, audit[a].calm, Got(audit[a].input, what),
                  LeftAfter(audit[a].left, what),
                  audit[a].detected, audit[a].found, audit[a].answer)
      BY <1>7, ReadTableRow
    <2>. QED  BY <1>1, <1>4, <2>1, <2>2, <2>3, RowKeeps
  <1>8. CASE Evaluate(a)
    <2>1. UNCHANGED findings
      BY <1>8 DEF Evaluate, table
    <2>. QED  BY <1>1, <1>4, <1>8, <2>1, EvaluateRow, NoInputIsOne, RowKeeps
  <1>9. CASE SelectFinding(a)
    <2>1. UNCHANGED findings /\ audit[a].pc = "select"
      BY <1>9 DEF SelectFinding, table
    <2>2. CASE audit[a].left = {}
      BY <1>1, <1>2, <1>4, <1>9, <2>1, <2>2, SelectedRow, RowKeeps
    <2>3. CASE audit[a].left # {}
      <3>1. Becomes(a, "write", audit[a].calm, audit[a].input, audit[a].left,
                    audit[a].detected, NextKey(a) \in DOMAIN findings, audit[a].answer)
        BY <1>9, <2>3, SelectRow
      <3>. QED  BY <1>1, <1>2, <1>4, <2>1, <2>3, <3>1, RowKeeps
    <2>. QED  BY <2>2, <2>3
  <1>10. CASE WriteFinding(a)
    <2>1. audit[a].pc = "write"
      BY <1>10 DEF WriteFinding
    <2>2. CASE ~audit[a].found /\ FindingId(NextKey(a)) \in Taken
      <3>1. UNCHANGED findings
        BY <1>10, <2>2 DEF WriteFinding
      <3>. QED  BY <1>1, <1>2, <1>4, <1>10, <2>1, <2>2, <3>1, FailedRow, RowKeeps
    <2>3. CASE audit[a].found \/ FindingId(NextKey(a)) \notin Taken
      <3>1. findings' = Written(NextKey(a)) /\ UNCHANGED foreign
        BY <1>10, <2>3 DEF WriteFinding
      <3>2. NextKey(a) \in DOMAIN findings \/ FindingId(NextKey(a)) \notin Taken
        BY <2>1, <2>3 DEF TypeInv, AuditRowOK
      <3>3. FindingsOK' /\ DOMAIN findings \subseteq DOMAIN findings'
        BY <1>3, <3>1, <3>2, WritingKeeps
      <3>. QED  BY <1>1, <1>2, <1>10, <2>1, <2>3, <3>3, WrittenRow, RowKeeps
    <2>. QED  BY <2>2, <2>3
  <1>11. CASE ListActive(a)
    <2>1. UNCHANGED findings /\ audit[a].pc = "active"
      BY <1>11 DEF ListActive, table
    <2>. QED  BY <1>1, <1>2, <1>4, <1>11, <2>1, ListActiveRow, RowKeeps
  <1>12. CASE ResolveFinding(a)
    <2>1. audit[a].pc = "resolve"
      BY <1>12 DEF ResolveFinding
    <2>2. CASE audit[a].left = {}
      <3>1. UNCHANGED findings
        BY <1>12, <2>2 DEF ResolveFinding
      <3>. QED  BY <1>1, <1>2, <1>4, <1>12, <2>1, <2>2, <3>1, ResolvedRow, RowKeeps
    <2>3. CASE audit[a].left # {}
      <3>1. findings' = [findings EXCEPT ![NextKey(a)] = "resolved"] /\ UNCHANGED foreign
        BY <1>12, <2>3 DEF ResolveFinding
      <3>2. FindingsOK' /\ DOMAIN findings \subseteq DOMAIN findings'
        BY <1>3, <3>1, ResolvingKeeps
      <3>. QED  BY <1>1, <1>2, <1>12, <2>1, <2>3, <3>2, ResolveRow, RowKeeps
    <2>. QED  BY <2>2, <2>3
  <1>13. CASE ListFindings(a)
    <2>1. UNCHANGED findings /\ audit[a].pc = "list"
      BY <1>13 DEF ListFindings, table
    <2>. QED  BY <1>1, <1>2, <1>4, <1>13, <2>1, ListFindingsRow, RowKeeps
  <1>. QED
    BY <1>5, <1>6, <1>7, <1>8, <1>9, <1>10, <1>11, <1>12, <1>13 DEF AuditStep
\* What is observed moves under the audits: each of them stays where it is.
LEMMA DisturbedRow ==
    ASSUME TypeInv, Disturbed
    PROVE  /\ audit' = [a \in Audits |-> audit'[a]]
           /\ \A a \in Audits :
                 /\ AuditShape(audit'[a]) /\ audit'[a].calm = FALSE
                 /\ audit'[a].pc = audit[a].pc /\ audit'[a].input = audit[a].input
                 /\ audit'[a].left = audit[a].left /\ audit'[a].found = audit[a].found
  <1>1. ASSUME NEW a \in Audits
        PROVE  /\ AuditShape(audit'[a]) /\ audit'[a].calm = FALSE
               /\ audit'[a].pc = audit[a].pc /\ audit'[a].input = audit[a].input
               /\ audit'[a].left = audit[a].left /\ audit'[a].found = audit[a].found
    <2>1. PICK old : old = audit[a]
      OBVIOUS
    <2>2. AuditShape(old)
      BY <2>1, RowOf
    <2>3. PICK row : row = [old EXCEPT !.calm = FALSE]
      OBVIOUS
    <2>4. /\ AuditShape(row) /\ row.calm = FALSE /\ row.pc = old.pc /\ row.input = old.input
          /\ row.left = old.left /\ row.found = old.found
      BY <2>2, <2>3 DEF AuditShape
    <2>5. audit'[a] = row
      BY <2>1, <2>3 DEF Disturbed
    <2>. QED  BY <2>1, <2>4, <2>5
  <1>. QED  BY <1>1 DEF Disturbed

LEMMA DisturbedKeeps ==
    ASSUME TypeInv, LedgerInv', Disturbed, UNCHANGED <<findings, foreign, scene>>,
           world' \in World, changes' \in 0 .. MaxChanges
    PROVE  TypeInv'
  <1>1. ASSUME NEW a \in Audits
        PROVE  /\ AuditRowOK(a)' /\ audit'[a].pc \in AuditPC
               /\ audit'[a].input.reports \subseteq Runs
               /\ audit'[a].pc \in {"done", "failed"} => audit'[a].input = NoInput
    <2>1. /\ AuditShape(audit'[a]) /\ audit'[a].calm = FALSE
          /\ audit'[a].pc = audit[a].pc /\ audit'[a].input = audit[a].input
          /\ audit'[a].left = audit[a].left /\ audit'[a].found = audit[a].found
      BY DisturbedRow
    <2>2. NextKey(a)' = NextKey(a)
      BY <2>1 DEF NextKey
    <2>. QED  BY <2>1, <2>2 DEF TypeInv, AuditTypeOK, AuditRowOK
  <1>2. TypeOK'
    BY DEF LedgerInv
  <1>3. AuditTypeOK'
    BY <1>1, <1>2 DEF TypeInv, AuditTypeOK
  <1>. QED  BY <1>1, <1>3, DisturbedRow DEF TypeInv

LEMMA StillTyped ==
    ASSUME TypeInv, LedgerInv', UNCHANGED <<audit, findings, world, changes, scene>>,
           foreign' \cap {FindingId(k) : k \in DOMAIN findings} = {}
    PROVE  TypeInv'
  <1>1. \A a \in Audits : NextKey(a)' = NextKey(a)
    BY DEF NextKey
  <1>2. TypeOK'
    BY DEF LedgerInv
  <1>3. AuditTypeOK'
    BY <1>2 DEF TypeInv, AuditTypeOK
  <1>. QED  BY <1>1, <1>3 DEF TypeInv, AuditRowOK

\* The invariant of an audit's surroundings and of its types, and its parts.
AuditInv == LedgerInv /\ GrantInv /\ FundedInv /\ ReportsInv /\ TypeInv

LEMMA AuditTyped ==
    ASSUME AuditInv, [AuditNext]_auditVars
    PROVE  AuditInv'
  <1>1. LedgerInv' /\ GrantInv' /\ FundedInv'
    BY LedgerKept, LedgerMovesAlone, SpendingIsFunded DEF AuditInv, auditVars
  <1>2. foreign \cap {FindingId(k) : k \in DOMAIN findings} = {} /\ world \in World
        /\ changes \in 0 .. MaxChanges
    BY DEF AuditInv, TypeInv, AuditTypeOK
  <1>3. ASSUME NEW a \in Audits, AuditStep(a)
        PROVE  ReportsInv' /\ TypeInv'
    BY <1>1, <1>3, AuditStepTypes, AuditsOnlyRead DEF AuditInv, ReportsInv, observed
  <1>4. ASSUME WorldStep
        PROVE  ReportsInv' /\ TypeInv'
    <2>1. world' \in World /\ ReportsInv'
      BY <1>2, <1>4, Worldly DEF AuditInv
    <2>2. /\ changes < MaxChanges /\ changes' = changes + 1
          /\ Disturbed /\ UNCHANGED <<findings, foreign, scene>>
      BY <1>4, ChangesOfTheWorld DEF table
    <2>3. changes' \in 0 .. MaxChanges
      BY <1>2, <2>2, BoundAssumption
    <2>. QED  BY <1>1, <2>1, <2>2, <2>3, DisturbedKeeps DEF AuditInv
  <1>5. ASSUME BudgetStep
        PROVE  ReportsInv' /\ TypeInv'
    <2>1. UNCHANGED <<world, changes, findings, foreign, scene>> /\ (UNCHANGED audit \/ Disturbed)
      BY <1>5 DEF BudgetStep, observed, table
    <2>2. ReportsInv'
      BY <2>1 DEF AuditInv, ReportsInv
    <2>3. TypeInv'
      BY <1>1, <1>2, <2>1, StillTyped, DisturbedKeeps DEF AuditInv
    <2>. QED  BY <2>2, <2>3
  <1>6. ASSUME NEW r \in Resources, NEW kind \in {"hard_exceeded", "soft_exceeded"},
               OtherProjectFinds(r, kind)
        PROVE  ReportsInv' /\ TypeInv'
    <2>1. UNCHANGED <<world, changes, findings, audit, scene>>
      BY <1>6 DEF OtherProjectFinds, observed
    <2>2. foreign' \cap {FindingId(k) : k \in DOMAIN findings} = {}
      BY <1>2, <1>6 DEF OtherProjectFinds, Taken
    <2>3. ReportsInv'
      BY <2>1 DEF AuditInv, ReportsInv
    <2>. QED  BY <1>1, <2>1, <2>2, <2>3, StillTyped DEF AuditInv
  <1>7. CASE UNCHANGED auditVars
    <2>1. UNCHANGED <<world, changes, findings, foreign, audit, scene>>
      BY <1>7 DEF auditVars, observed, table
    <2>2. ReportsInv'
      BY <2>1 DEF AuditInv, ReportsInv
    <2>. QED  BY <1>1, <1>2, <2>1, <2>2, StillTyped DEF AuditInv
  <1>. QED  BY <1>1, <1>3, <1>4, <1>5, <1>6, <1>7 DEF AuditInv, AuditNext

LEMMA AuditBegins == AuditInit => AuditInv
  <1>. SUFFICES ASSUME AuditInit  PROVE AuditInv
    OBVIOUS
  <1>1. Init
    BY DEF AuditInit
  <1>2. LedgerInv /\ GrantInv
    BY <1>1, Initially, GrantsInitially
  <1>3. FundedInv
    BY <1>1 DEF Init, FundedInv
  <1>4. PICK s \in Scenes : /\ world = s.world /\ findings = s.findings
                            /\ scene = [moves |-> s.moves, requests |-> s.requests,
                                       audits |-> s.audits, others |-> s.others]
    BY DEF AuditInit
  <1>5. ReportsInv
    BY <1>4, ScenesAssumption DEF ReportsInv
  <1>6. /\ audit = [a \in Audits |-> audit[a]]
        /\ \A a \in Audits : audit[a] = Idle
    BY DEF AuditInit
  <1>7. /\ AuditShape(Idle) /\ Idle.input = NoInput /\ Idle.calm = FALSE /\ Idle.pc = "idle"
    BY DEF AuditShape, Idle
  <1>8. \A a \in Audits : AuditRowOK(a) /\ audit[a].input.reports \subseteq Runs
    BY <1>6, <1>7, NoInputIsOne DEF AuditRowOK
  <1>9. AuditTypeOK
    BY <1>2, <1>4, <1>6, <1>7, <1>8, ScenesAssumption, BoundAssumption
       DEF AuditTypeOK, AuditInit, LedgerInv, AuditPC, Scene
  <1>. QED  BY <1>2, <1>3, <1>5, <1>6, <1>8, <1>9 DEF AuditInv, TypeInv
-----------------------------------------------------------------------------
(* Audit: an audit that nothing disturbed is exact                         *)

\* What is there to detect changes only with what is observed.
LEMMA StillThere ==
    ASSUME UNCHANGED <<world, ledger, limits, entries>>
    PROVE  /\ Detected' = Detected /\ Listed' = Listed /\ Overdue' = Overdue
           /\ Expired(Overdue)' = Expired(Overdue)
           /\ \A r \in Resources : Consumed(r)' = Consumed(r)
  <1>1. Overdue' = Overdue /\ Listed' = Listed
    BY DEF Overdue, Listed
  <1>2. Expired(Overdue)' = Expired(Overdue)
    BY DEF Overdue, Expired
  <1>3. \A r \in Resources : Consumed(r)' = Consumed(r)
    BY DEF Consumed
  <1>4. WholeInput' = WholeInput
    BY <1>1, <1>2, <1>3 DEF WholeInput
  <1>. QED  BY <1>1, <1>2, <1>3, <1>4 DEF Detected

\* A change of the findings that has no say in what is to be detected.
Agreeing == ActiveKeys \cap Detected \subseteq ActiveKeys'
            /\ ActiveKeys' \subseteq ActiveKeys \cup Detected

LEMMA OthersAgree ==
    ASSUME NEW b \in Audits, audit'[b] = audit[b], UNCHANGED <<world, ledger, limits, entries>>,
           Agreeing, ReadingOK(b), SyncingOK(b)
    PROVE  ReadingOK(b)' /\ SyncingOK(b)'
  <1>1. ReadingOK(b)'
    BY StillThere DEF ReadingOK
  <1>2. SyncingOK(b)'
    BY StillThere DEF SyncingOK, Agreeing
  <1>. QED  BY <1>1, <1>2

LEMMA TogetherKept ==
    ASSUME CalmTogether, NEW a \in Audits, OnlyAudit(a),
           \/ audit'[a].calm = audit[a].calm /\ a \in InFlight
           \/ audit'[a].calm = \A b \in InFlight : audit[b].calm
    PROVE  CalmTogether'
  <1>. SUFFICES ASSUME NEW x \in Audits, NEW y \in InFlight', audit'[x].calm
                PROVE  audit'[y].calm
    BY DEF CalmTogether
  <1>1. y \in Audits /\ (y # a => y \in InFlight)
    BY DEF InFlight, OnlyAudit
  <1>2. CASE x = y
    BY <1>2
  <1>3. CASE x # y /\ x = a
    BY <1>1, <1>3 DEF CalmTogether, OnlyAudit
  <1>4. CASE x # y /\ x # a
    BY <1>1, <1>4 DEF CalmTogether, OnlyAudit
  <1>. QED  BY <1>2, <1>3, <1>4

\* A step of one audit.
LEMMA CalmStep ==
    ASSUME CalmInv, NEW a \in Audits, AuditStep(a), OnlyAudit(a),
           \/ audit'[a].calm = audit[a].calm /\ a \in InFlight
           \/ audit'[a].calm = \A b \in InFlight : audit[b].calm,
           audit'[a].calm => ReadingOK(a)' /\ SyncingOK(a)',
           UNCHANGED findings \/ (audit[a].calm /\ a \in InFlight => Agreeing)
    PROVE  CalmInv'
  <1>1. UNCHANGED <<world, ledger, limits, entries>>
    BY AuditsOnlyRead DEF vars, observed
  <1>2. CalmTogether'
    BY TogetherKept DEF CalmInv
  <1>3. ASSUME NEW b \in Audits, b # a, audit'[b].calm
        PROVE  ReadingOK(b)' /\ SyncingOK(b)'
    <2>1. audit'[b] = audit[b] /\ ReadingOK(b) /\ SyncingOK(b)
      BY <1>3 DEF OnlyAudit, CalmInv
    <2>2. Agreeing
      <3>1. CASE UNCHANGED findings
        BY <3>1 DEF Agreeing, ActiveKeys
      <3>2. CASE ~UNCHANGED findings
        <4>1. a \in InFlight
          BY <3>2 DEF AuditStep, ListRuns, ReadReport, ReadTable, Evaluate, SelectFinding,
                      WriteFinding, ListActive, ResolveFinding, ListFindings, table, InFlight,
                      AuditAt
        <4>2. audit[a].calm
          BY <1>3, <2>1, <4>1 DEF CalmInv, CalmTogether
        <4>. QED  BY <3>2, <4>1, <4>2
      <3>. QED  BY <3>1, <3>2
    <2>. QED  BY <1>1, <2>1, <2>2, OthersAgree
  <1>. QED  BY <1>2, <1>3 DEF CalmInv
\* What the steps of an audit do to its own row.
LEMMA OwnCalmStep ==
    ASSUME AuditInv, CalmInv, NEW a \in Audits, AuditStep(a)
    PROVE  CalmInv'
  <1>1. UNCHANGED <<world, ledger, limits, entries>>
    BY AuditsOnlyRead DEF vars, observed
  <1>2. /\ Detected' = Detected /\ Listed' = Listed /\ Overdue' = Overdue
        /\ Expired(Overdue)' = Expired(Overdue)
        /\ \A r \in Resources : Consumed(r)' = Consumed(r)
    BY <1>1, StillThere
  <1>3. TypeInv /\ InputShape(audit[a].input)
    BY RowOf DEF AuditInv
  <1>4. audit[a].calm => ReadingOK(a) /\ SyncingOK(a)
    BY DEF CalmInv
  <1>. USE DEF AuditAt
  <1>5. CASE ListRuns(a)
    <2>. DEFINE in == [NoInput EXCEPT !.runs = world.runs, !.late = Overdue]
                calm == \A b \in InFlight : audit[b].calm
    <2>1. /\ in.runs = world.runs /\ in.late = Overdue /\ in.reports = {}
          /\ in.spent = NoInput.spent
      BY RunsRead
    <2>2. UNCHANGED findings
      BY <1>5 DEF ListRuns, table
    <2>3. Becomes(a, "reports", calm, in, Listed,
                  audit[a].detected, audit[a].found, audit[a].answer)
      BY <1>3, <1>5, ListRunsRow
    <2>. HIDE DEF in
    <2>4. ReadingOK(a)' /\ SyncingOK(a)'
      BY <1>1, <1>2, <2>1, <2>3 DEF Becomes, ReadingOK, SyncingOK
    <2>. QED  BY <2>2, <2>3, <2>4, CalmStep DEF Becomes
  <1>6. CASE ReadReport(a)
    <2>1. UNCHANGED findings /\ audit[a].pc = "reports" /\ a \in InFlight
      BY <1>6 DEF ReadReport, table, InFlight
    <2>2. \A r \in world.reports : r \in Listed
      BY <1>3 DEF AuditInv, ReportsInv, TypeInv, AuditTypeOK, World, Listed, RT!Terminal
    <2>3. CASE /\ audit[a].left = {}
               /\ Becomes(a, "read", audit[a].calm, audit[a].input, Reads,
                          audit[a].detected, audit[a].found, audit[a].answer)
      <3>1. audit[a].calm => audit[a].input.reports = world.reports
        BY <1>4, <2>1, <2>2, <2>3 DEF ReadingOK
      <3>2. audit[a].calm => ReadingOK(a)' /\ SyncingOK(a)'
        BY <1>1, <1>2, <1>4, <2>1, <2>3, <3>1 DEF Becomes, ReadingOK, SyncingOK, Reads
      <3>. QED  BY <2>1, <2>3, <3>2, CalmStep DEF Becomes
    <2>4. ASSUME NEW r \in audit[a].left,
                 Becomes(a, audit[a].pc, audit[a].calm,
                         [audit[a].input EXCEPT !.reports = @ \cup (world.reports \cap {r})],
                         audit[a].left \ {r},
                         audit[a].detected, audit[a].found, audit[a].answer)
          PROVE  CalmInv'
      <3>. DEFINE in == [audit[a].input EXCEPT !.reports = @ \cup (world.reports \cap {r})]
      <3>1. /\ in.reports = audit[a].input.reports \cup (world.reports \cap {r})
            /\ in.runs = audit[a].input.runs /\ in.late = audit[a].input.late
            /\ in.spent = audit[a].input.spent
        BY <1>3, ReportsRead
      <3>2. Becomes(a, audit[a].pc, audit[a].calm, in, audit[a].left \ {r},
                    audit[a].detected, audit[a].found, audit[a].answer)
        BY <2>4
      <3>. HIDE DEF in
      <3>3. audit[a].calm =>
                in.reports = (world.reports \cap Listed) \ (audit[a].left \ {r})
        BY <1>4, <2>1, <2>2, <3>1 DEF ReadingOK
      <3>4. audit[a].calm => ReadingOK(a)' /\ SyncingOK(a)'
        BY <1>1, <1>2, <1>4, <2>1, <3>1, <3>2, <3>3 DEF Becomes, ReadingOK, SyncingOK
      <3>. QED  BY <2>1, <3>2, <3>4, CalmStep DEF Becomes
    <2>. QED  BY <1>3, <1>6, <2>3, <2>4, ReadReportRow
  <1>7. ASSUME NEW what \in Reads \cup {"entries"}, ReadTable(a, what)
        PROVE  CalmInv'
    <2>. DEFINE old == audit[a].input
                in == Got(old, what)
                left == audit[a].left
                next == LeftAfter(left, what)
    <2>1. UNCHANGED findings /\ audit[a].pc = "read" /\ a \in InFlight /\ what \in left
      BY <1>7 DEF ReadTable, table, InFlight
    <2>2. /\ in.reports = old.reports /\ in.runs = old.runs /\ in.late = old.late
          /\ in.tasks = IF what = "tasks" THEN world.tasks ELSE old.tasks
          /\ in.verifiers = IF what = "verifiers" THEN world.verifiers ELSE old.verifiers
          /\ in.results = IF what = "results" THEN world.results ELSE old.results
          /\ in.expired = IF what = "expired" THEN Expired(old.late) ELSE old.expired
          /\ in.ledger = IF what = "limits" THEN ledger ELSE old.ledger
          /\ in.limits = IF what = "limits" THEN limits ELSE old.limits
          /\ in.spent = IF what = "entries" THEN [r \in Resources |-> Consumed(r)] ELSE old.spent
      BY <1>3, GotIsOne
    <2>3. Becomes(a, audit[a].pc, audit[a].calm, in, next,
                  audit[a].detected, audit[a].found, audit[a].answer)
      BY <1>3, <1>7, ReadTableRow
    <2>4. /\ \A other \in Reads : other \in next <=> other \in left /\ other # what
          /\ "entries" \in next <=> \/ "entries" \in left /\ what # "entries"
                                    \/ what = "limits" /\ ledger
      BY DEF LeftAfter, Reads
    <2>5. ~ledger => NoInput.spent = [r \in Resources |-> Consumed(r)]
      <3>1. NoInput.spent = [r \in Resources |-> 0]
        BY DEF NoInput
      <3>. QED  BY <3>1, NothingConsumed DEF AuditInv, FundedInv
    <2>. HIDE DEF in, next
    <2>6. SUFFICES ASSUME audit[a].calm  PROVE ReadingOK(a)' /\ SyncingOK(a)'
      BY <2>1, <2>3, CalmStep DEF Becomes
    <2>7. SyncingOK(a)'
      BY <2>1, <2>3 DEF Becomes, SyncingOK
    <2>8. /\ audit'[a].pc = "read" /\ audit'[a].input = in /\ audit'[a].left = next
      BY <2>1, <2>3 DEF Becomes
    <2>9. /\ old.runs = world.runs /\ old.late = Overdue /\ old.reports = world.reports
          /\ "tasks" \notin left => old.tasks = world.tasks
          /\ "verifiers" \notin left => old.verifiers = world.verifiers
          /\ "results" \notin left => old.results = world.results
          /\ "expired" \notin left => old.expired = Expired(Overdue)
          /\ "limits" \in left => old.spent = NoInput.spent /\ "entries" \notin left
          /\ "limits" \notin left => /\ old.ledger = ledger /\ old.limits = limits
                                     /\ \/ "entries" \in left
                                        \/ old.spent = [r \in Resources |-> Consumed(r)]
      BY <1>4, <2>1, <2>6 DEF ReadingOK
    <2>. HIDE DEF old, left
    <2>10. /\ "tasks" \notin next => in.tasks = world.tasks
           /\ "verifiers" \notin next => in.verifiers = world.verifiers
           /\ "results" \notin next => in.results = world.results
           /\ "expired" \notin next => in.expired = Expired(Overdue)
      BY <2>2, <2>4, <2>9 DEF Reads
    <2>11. "limits" \in next => in.spent = NoInput.spent /\ "entries" \notin next
      BY <2>1, <2>2, <2>4, <2>9 DEF Reads
    <2>12. "limits" \notin next => /\ in.ledger = ledger /\ in.limits = limits
                                   /\ \/ "entries" \in next
                                      \/ in.spent = [r \in Resources |-> Consumed(r)]
      BY <2>1, <2>2, <2>4, <2>5, <2>9 DEF Reads
    <2>13. [r \in Resources |-> Consumed(r)]' = [r \in Resources |-> Consumed(r)]
      BY <1>2
    <2>14. ReadingOK(a)'
      BY <1>1, <1>2, <2>2, <2>8, <2>9, <2>10, <2>11, <2>12, <2>13 DEF ReadingOK
    <2>. QED  BY <2>7, <2>14
  <1>8. CASE Evaluate(a)
    <2>1. UNCHANGED findings /\ audit[a].pc = "read" /\ audit[a].left = {} /\ a \in InFlight
      BY <1>8 DEF Evaluate, table, InFlight
    <2>2. audit[a].calm => audit[a].input = WholeInput
      BY <1>3, <1>4, <2>1 DEF ReadingOK, InputShape, WholeInput
    <2>3. Becomes(a, "select", audit[a].calm, NoInput, EvaluateAuditRules(audit[a].input),
                  EvaluateAuditRules(audit[a].input), audit[a].found, audit[a].answer)
      BY <1>3, <1>8, EvaluateRow
    <2>4. audit[a].calm => ReadingOK(a)' /\ SyncingOK(a)'
      BY <1>2, <2>2, <2>3 DEF Becomes, ReadingOK, SyncingOK, Detected
    <2>. QED  BY <2>1, <2>3, <2>4, CalmStep DEF Becomes
  <1>9. CASE SelectFinding(a)
    <2>1. UNCHANGED findings /\ audit[a].pc = "select" /\ a \in InFlight
      BY <1>9 DEF SelectFinding, table, InFlight
    <2>2. ActiveKeys' = ActiveKeys
      BY <2>1 DEF ActiveKeys
    <2>3. CASE audit[a].left = {}
      <3>1. Becomes(a, "active", audit[a].calm, audit[a].input, audit[a].left,
                    audit[a].detected, audit[a].found, audit[a].answer)
        BY <1>3, <1>9, <2>3, SelectedRow
      <3>2. audit[a].calm => ReadingOK(a)' /\ SyncingOK(a)'
        BY <1>2, <1>4, <2>1, <2>2, <2>3, <3>1 DEF Becomes, ReadingOK, SyncingOK
      <3>. QED  BY <2>1, <3>1, <3>2, CalmStep DEF Becomes
    <2>4. CASE audit[a].left # {}
      <3>1. Becomes(a, "write", audit[a].calm, audit[a].input, audit[a].left,
                    audit[a].detected, NextKey(a) \in DOMAIN findings, audit[a].answer)
        BY <1>3, <1>9, <2>4, SelectRow
      <3>2. audit[a].calm => ReadingOK(a)' /\ SyncingOK(a)'
        BY <1>2, <1>4, <2>1, <2>2, <3>1 DEF Becomes, ReadingOK, SyncingOK
      <3>. QED  BY <2>1, <3>1, <3>2, CalmStep DEF Becomes
    <2>. QED  BY <2>3, <2>4
  <1>10. CASE WriteFinding(a)
    <2>1. audit[a].pc = "write" /\ a \in InFlight
      BY <1>10 DEF WriteFinding, InFlight
    <2>2. CASE ~audit[a].found /\ FindingId(NextKey(a)) \in Taken
      <3>1. UNCHANGED findings
        BY <1>10, <2>2 DEF WriteFinding
      <3>2. Becomes(a, "failed", audit[a].calm, audit[a].input, {},
                    audit[a].detected, audit[a].found, audit[a].answer)
        BY <1>3, <1>10, <2>2, FailedRow
      <3>3. ReadingOK(a)' /\ SyncingOK(a)'
        BY <3>2 DEF Becomes, ReadingOK, SyncingOK
      <3>. QED  BY <2>1, <3>1, <3>2, <3>3, CalmStep DEF Becomes
    <2>3. CASE audit[a].found \/ FindingId(NextKey(a)) \notin Taken
      <3>. DEFINE k == NextKey(a)
      <3>1. Becomes(a, "select", audit[a].calm, audit[a].input, audit[a].left \ {k},
                    audit[a].detected, audit[a].found, audit[a].answer)
        BY <1>3, <1>10, <2>3, WrittenRow
      <3>2. k \in audit[a].left
        BY <2>1 DEF NextKey, AuditInv, TypeInv, AuditRowOK
      <3>3. ActiveKeys' = ActiveKeys \cup {k}
        BY <1>10, <2>3 DEF WriteFinding, Written, ActiveKeys
      <3>. HIDE DEF k
      <3>4. audit[a].calm => /\ audit[a].detected = Detected /\ k \in Detected
                             /\ audit[a].left \subseteq Detected
                             /\ Detected \ audit[a].left \subseteq ActiveKeys
        BY <1>4, <2>1, <3>2 DEF SyncingOK
      <3>5. audit[a].calm => ReadingOK(a)' /\ SyncingOK(a)'
        BY <1>2, <3>1, <3>3, <3>4 DEF Becomes, ReadingOK, SyncingOK
      <3>6. audit[a].calm => Agreeing
        BY <3>3, <3>4 DEF Agreeing
      <3>. QED  BY <2>1, <3>1, <3>5, <3>6, CalmStep DEF Becomes
    <2>. QED  BY <2>2, <2>3
  <1>11. CASE ListActive(a)
    <2>1. UNCHANGED findings /\ audit[a].pc = "active" /\ a \in InFlight
      BY <1>11 DEF ListActive, table, InFlight
    <2>2. ActiveKeys' = ActiveKeys
      BY <2>1 DEF ActiveKeys
    <2>3. Becomes(a, "resolve", audit[a].calm, audit[a].input, ToResolve(a),
                  audit[a].detected, audit[a].found, audit[a].answer)
      BY <1>3, <1>11, ListActiveRow
    <2>4. audit[a].calm => ReadingOK(a)' /\ SyncingOK(a)'
      BY <1>2, <1>4, <2>1, <2>2, <2>3 DEF Becomes, ReadingOK, SyncingOK, ToResolve
    <2>. QED  BY <2>1, <2>3, <2>4, CalmStep DEF Becomes
  <1>12. CASE ResolveFinding(a)
    <2>1. audit[a].pc = "resolve" /\ a \in InFlight
      BY <1>12 DEF ResolveFinding, InFlight
    <2>2. CASE audit[a].left = {}
      <3>1. UNCHANGED findings
        BY <1>12, <2>2 DEF ResolveFinding
      <3>2. ActiveKeys' = ActiveKeys
        BY <3>1 DEF ActiveKeys
      <3>3. Becomes(a, "list", audit[a].calm, audit[a].input, audit[a].left,
                    audit[a].detected, audit[a].found, audit[a].answer)
        BY <1>3, <1>12, <2>2, ResolvedRow
      <3>4. audit[a].calm => ReadingOK(a)' /\ SyncingOK(a)'
        BY <1>2, <1>4, <2>1, <2>2, <3>2, <3>3 DEF Becomes, ReadingOK, SyncingOK
      <3>. QED  BY <2>1, <3>1, <3>3, <3>4, CalmStep DEF Becomes
    <2>3. CASE audit[a].left # {}
      <3>. DEFINE k == NextKey(a)
      <3>1. Becomes(a, audit[a].pc, audit[a].calm, audit[a].input, audit[a].left \ {k},
                    audit[a].detected, audit[a].found, audit[a].answer)
        BY <1>3, <1>12, <2>3, ResolveRow
      <3>2. k \in audit[a].left
        BY <2>3 DEF NextKey
      <3>3. ActiveKeys' = ActiveKeys \ {k}
        BY <1>12, <2>3 DEF ResolveFinding, ActiveKeys
      <3>. HIDE DEF k
      <3>4. audit[a].calm => /\ audit[a].detected = Detected /\ k \notin Detected
                             /\ Detected \subseteq ActiveKeys
                             /\ audit[a].left \cap Detected = {}
                             /\ ActiveKeys \subseteq Detected \cup audit[a].left
        BY <1>4, <2>1, <3>2 DEF SyncingOK
      <3>5. audit[a].calm => ReadingOK(a)' /\ SyncingOK(a)'
        BY <1>2, <2>1, <3>1, <3>3, <3>4 DEF Becomes, ReadingOK, SyncingOK
      <3>6. audit[a].calm => Agreeing
        BY <3>3, <3>4 DEF Agreeing
      <3>. QED  BY <2>1, <3>1, <3>5, <3>6, CalmStep DEF Becomes
    <2>. QED  BY <2>2, <2>3
  <1>13. CASE ListFindings(a)
    <2>1. UNCHANGED findings /\ audit[a].pc = "list" /\ a \in InFlight
      BY <1>13 DEF ListFindings, table, InFlight
    <2>2. ActiveKeys' = ActiveKeys
      BY <2>1 DEF ActiveKeys
    <2>3. Becomes(a, "done", audit[a].calm, audit[a].input, audit[a].left,
                  audit[a].detected, audit[a].found, ActiveKeys)
      BY <1>3, <1>13, ListFindingsRow
    <2>4. audit[a].calm => ReadingOK(a)' /\ SyncingOK(a)'
      BY <1>2, <1>4, <2>1, <2>2, <2>3 DEF Becomes, ReadingOK, SyncingOK
    <2>. QED  BY <2>1, <2>3, <2>4, CalmStep DEF Becomes
  <1>. QED
    BY <1>5, <1>6, <1>7, <1>8, <1>9, <1>10, <1>11, <1>12, <1>13 DEF AuditStep
LEMMA CalmStays ==
    ASSUME AuditInv, CalmInv, [AuditNext]_auditVars
    PROVE  CalmInv'
  <1>1. ASSUME Disturbed  PROVE CalmInv'
    BY <1>1, DisturbedRow DEF AuditInv, CalmInv, CalmTogether
  <1>2. ASSUME UNCHANGED <<world, ledger, limits, entries, findings, audit>>  PROVE CalmInv'
    <2>1. Agreeing
      BY <1>2 DEF Agreeing, ActiveKeys
    <2>2. InFlight' = InFlight
      BY <1>2 DEF InFlight
    <2>. QED  BY <1>2, <2>1, <2>2, OthersAgree DEF CalmInv, CalmTogether
  <1>3. ASSUME NEW a \in Audits, AuditStep(a)  PROVE CalmInv'
    BY <1>3, OwnCalmStep
  <1>4. ASSUME WorldStep  PROVE CalmInv'
    BY <1>1, <1>4, ChangesOfTheWorld
  <1>5. ASSUME BudgetStep  PROVE CalmInv'
    BY <1>1, <1>2, <1>5 DEF BudgetStep, observed, table
  <1>6. ASSUME NEW r \in Resources, NEW kind \in {"hard_exceeded", "soft_exceeded"},
               OtherProjectFinds(r, kind)
        PROVE  CalmInv'
    BY <1>2, <1>6 DEF OtherProjectFinds, vars, observed
  <1>7. CASE UNCHANGED auditVars
    BY <1>2, <1>7 DEF auditVars, vars, observed, table
  <1>. QED  BY <1>3, <1>4, <1>5, <1>6, <1>7 DEF AuditNext

LEMMA CalmBegins == AuditInit => CalmInv
  <1>1. Idle.calm = FALSE
    BY DEF Idle
  <1>. QED  BY <1>1 DEF AuditInit, CalmInv, CalmTogether

LEMMA CalmAnswers == CalmInv => CalmAuditIsExact
  BY DEF CalmInv, SyncingOK, CalmAuditIsExact, AuditAt, Detected

\* The type invariant of the audits, of what they observe and of the findings: no two
\* findings share an id, also with those of other projects (syncAuditFindings).
THEOREM AuditsKeepTypes == AuditSpec => []AuditTypeOK
  <1>1. AuditInit => AuditInv
    BY AuditBegins
  <1>2. AuditInv /\ [AuditNext]_auditVars => AuditInv'
    BY AuditTyped
  <1>3. AuditInv => AuditTypeOK
    BY DEF AuditInv, TypeInv
  <1>. QED  BY <1>1, <1>2, <1>3, PTL DEF AuditSpec

\* An audit during which nothing moved that it observes leaves exactly the findings that
\* the rules yield, and answers with exactly them, however many audits overlap it, in
\* whatever order its reads arrive, and whatever findings there were
\* (runProjectAudit, loadAuditInputAsync, syncAuditFindings).
THEOREM CalmAuditsAreExact == AuditSpec => []CalmAuditIsExact
  <1>1. AuditInit => AuditInv /\ CalmInv
    BY AuditBegins, CalmBegins
  <1>2. AuditInv /\ CalmInv /\ [AuditNext]_auditVars => AuditInv' /\ CalmInv'
    BY AuditTyped, CalmStays
  <1>. QED  BY <1>1, <1>2, CalmAnswers, PTL DEF AuditSpec

\* Audits are no part of the ledger: what holds of its requests holds beside them
\* (recordBudgetEntry, addBudgetResource, increaseBudgetResource).
THEOREM LedgerBesideAudits == AuditSpec => [](NeverOvergranted /\ AcknowledgedIsRecorded)
  <1>1. AuditInit => AuditInv
    BY AuditBegins
  <1>2. AuditInv /\ [AuditNext]_auditVars => AuditInv'
    BY AuditTyped
  <1>3. AuditInv => NeverOvergranted /\ AcknowledgedIsRecorded
    BY DEF AuditInv, GrantInv, LedgerInv
  <1>. QED  BY <1>1, <1>2, <1>3, PTL DEF AuditSpec
=============================================================================
