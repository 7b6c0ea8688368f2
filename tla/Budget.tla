-------------------------------- MODULE Budget --------------------------------
(***************************************************************************)
(* The budget ledger of one project: the calls addBudgetResource,          *)
(* increaseBudgetResource and recordBudgetEntry of src/state/d1-store.ts   *)
(* behind the routes POST /budgets, POST /budgets/:id/increase and         *)
(* POST /budget-entries of src/api/router.ts.                              *)
(*                                                                         *)
(* A request is a process with one action per D1 statement.  All hard      *)
(* limits of a project live in ONE column, limits_json, that every change  *)
(* reads and writes back whole; the entries are rows of their own.  Soft   *)
(* limits, units, tasks and descriptions are left out: no decision that is *)
(* modelled looks at them.  A request that dies just takes no more steps.  *)
(***************************************************************************)
EXTENDS Totals

CONSTANTS
    Requests,     \* the API requests, in flight together
    Resources,    \* budget categories
    Amounts,      \* amounts a request may carry
    EntryIds      \* ids of budget entries, chosen by the client

ASSUME AmountsAssumption == Amounts \subseteq Nat \ {0}
ASSUME RequestsAssumption == IsFiniteSet(Requests)

NotConfigured == 0
NoEntry == [res |-> "none", amount |-> 0]

Entry == [res : Resources, amount : Amounts]
Limits == [Resources -> Nat]

VARIABLES
    ledger,    \* the row of budget_ledger exists
    limits,    \* limits_json: the hard limit of each resource
    entries,   \* budget_entries by id
    req        \* the requests

vars == <<ledger, limits, entries, req>>

PC == {"new", "add_write", "inc_read", "inc_write", "granted", "entry_read", "entry_write",
       "done"}
Answer == {"none", "ok", "conflict", "missing", "error"}
Kind == {"none", "add", "increase", "entry"}

\* What a request has been asked and what it has read so far.
RequestRow == [pc : PC, kind : Kind, entry : Entry \cup {NoEntry},
               id : EntryIds \cup {"none"},
               found : BOOLEAN, seen : Limits, answer : Answer]

TypeOK ==
    /\ ledger \in BOOLEAN
    /\ limits \in Limits
    /\ entries \in [EntryIds -> Entry \cup {NoEntry}]
    /\ req \in [Requests -> RequestRow]

Init ==
    /\ ledger = FALSE
    /\ limits = [r \in Resources |-> NotConfigured]
    /\ entries = [i \in EntryIds |-> NoEntry]
    /\ req = [q \in Requests |->
                 [pc |-> "new", kind |-> "none", entry |-> NoEntry, id |-> "none",
                  found |-> FALSE, seen |-> [r \in Resources |-> NotConfigured],
                  answer |-> "none"]]

-----------------------------------------------------------------------------

At(q, pc) == req[q].pc = pc
Goto(q, pc) == req' = [req EXCEPT ![q].pc = pc]
Reply(q, answer) == req' = [req EXCEPT ![q].pc = "done", ![q].answer = answer]

\* toBudgetResourceView(ledger, resource) is undefined without a hard limit
Configured(exists, lim, r) == exists /\ lim[r] # NotConfigured

\* toBudgetResourceView: what is left of the hard limit, never below zero
Consumed(r) == Total([i \in EntryIds |-> IF entries[i].res = r THEN entries[i].amount ELSE 0])

RemainingHardLimit(r) ==
    IF limits[r] > Consumed(r) THEN limits[r] - Consumed(r) ELSE 0

Begin(q, kind, e, id, pc, answer) ==
    req' = [req EXCEPT ![q] = [pc |-> pc, kind |-> kind, entry |-> e, id |-> id,
                               found |-> ledger, seen |-> limits, answer |-> answer]]

-----------------------------------------------------------------------------
(* POST /budgets: addBudgetResource                                        *)

\* the SELECT of getBudgetLedger, and BudgetResourceConflictError
AddRead(q, r, a) ==
    LET e == [res |-> r, amount |-> a]
    IN  /\ At(q, "new")
        /\ IF Configured(ledger, limits, r)
             THEN Begin(q, "add", e, "none", "done", "conflict")
             ELSE Begin(q, "add", e, "none", "add_write", "none")
        /\ UNCHANGED <<ledger, limits, entries>>

\* initializeBudgetLedger: project_id is the primary key
AddFirst(q) ==
    /\ At(q, "add_write")
    /\ ~req[q].found
    /\ IF ledger
         THEN Reply(q, "error") /\ UNCHANGED <<ledger, limits>>
         ELSE /\ ledger' = TRUE
              /\ limits' = [r \in Resources |->
                               IF r = req[q].entry.res THEN req[q].entry.amount
                                                       ELSE NotConfigured]
              /\ Goto(q, "granted")
    /\ UNCHANGED entries

\* UPDATE budget_ledger SET limits_json: the limits that were read, and the new one
AddNext(q) ==
    /\ At(q, "add_write")
    /\ req[q].found
    /\ limits' = [req[q].seen EXCEPT ![req[q].entry.res] = req[q].entry.amount]
    /\ Goto(q, "granted")
    /\ UNCHANGED <<ledger, entries>>

-----------------------------------------------------------------------------
(* POST /budgets/:budgetId/increase: increaseBudgetResource                *)

\* the route's own read
IncreaseCheck(q, r, a) ==
    LET e == [res |-> r, amount |-> a]
    IN  /\ At(q, "new")
        /\ IF Configured(ledger, limits, r)
             THEN Begin(q, "increase", e, "none", "inc_read", "none")
             ELSE Begin(q, "increase", e, "none", "done", "missing")
        /\ UNCHANGED <<ledger, limits, entries>>

\* the store's read; the limit may be gone by now
IncreaseRead(q) ==
    /\ At(q, "inc_read")
    /\ IF Configured(ledger, limits, req[q].entry.res)
         THEN req' = [req EXCEPT ![q].pc = "inc_write", ![q].seen = limits]
         ELSE Reply(q, "error")
    /\ UNCHANGED <<ledger, limits, entries>>

\* Mutation: the route adds the amount to what it read and the store adds it again.
IncreasedTwice(seen, r, a) == [seen EXCEPT ![r] = @ + a + a]

Increased(seen, r, a) == [seen EXCEPT ![r] = @ + a]

IncreaseWrite(q) ==
    /\ At(q, "inc_write")
    /\ limits' = Increased(req[q].seen, req[q].entry.res, req[q].entry.amount)
    /\ Goto(q, "granted")
    /\ UNCHANGED <<ledger, entries>>

-----------------------------------------------------------------------------
(* The answer to an operator                                               *)

\* The INSERT or UPDATE is done and the answer is on its way; if it is lost, or the
\* invocation dies before, this step is never taken, and the operator may ask again.
AnswerGrant(q) ==
    /\ At(q, "granted")
    /\ Reply(q, "ok")
    /\ UNCHANGED <<ledger, limits, entries>>

-----------------------------------------------------------------------------
(* POST /budget-entries: recordBudgetEntry                                 *)

\* Mutation: an entry that exists is acknowledged whatever it says.
AnswerAnyExisting(i, e) == "ok"

\* Mutation: a repeated entry is answered in a way that no caller knows.
AnswerAlreadyReported(i, e) == IF entries[i] = e THEN "already_reported" ELSE "conflict"

\* an entry that exists is acknowledged when it says the same
AnswerExisting(i, e) == IF entries[i] = e THEN "ok" ELSE "conflict"

EntryCheck(q, i, r, a) ==
    LET e == [res |-> r, amount |-> a]
    IN  /\ At(q, "new")
        /\ CASE ~Configured(ledger, limits, r) -> Begin(q, "entry", e, i, "done", "conflict")
             [] Configured(ledger, limits, r) /\ entries[i] # NoEntry ->
                    Begin(q, "entry", e, i, "done", AnswerExisting(i, e))
             [] OTHER -> Begin(q, "entry", e, i, "entry_read", "none")
        /\ UNCHANGED <<ledger, limits, entries>>

\* recordBudgetEntry reads the ledger again and wants only that it exists
EntryRead(q) ==
    /\ At(q, "entry_read")
    /\ IF ledger THEN Goto(q, "entry_write") ELSE Reply(q, "error")
    /\ UNCHANGED <<ledger, limits, entries>>

\* the batch: id is the primary key, so the second INSERT of an id fails
EntryWrite(q) ==
    /\ At(q, "entry_write")
    /\ IF entries[req[q].id] = NoEntry
         THEN entries' = [entries EXCEPT ![req[q].id] = req[q].entry] /\ Reply(q, "ok")
         ELSE Reply(q, "error") /\ UNCHANGED entries
    /\ UNCHANGED <<ledger, limits>>

-----------------------------------------------------------------------------

\* Every request has been answered.
Answered == (\A q \in Requests : At(q, "done")) /\ UNCHANGED vars

Next ==
    \/ \E q \in Requests :
          \/ \E r \in Resources, a \in Amounts : AddRead(q, r, a) \/ IncreaseCheck(q, r, a)
          \/ AddFirst(q)
          \/ AddNext(q)
          \/ IncreaseRead(q)
          \/ IncreaseWrite(q)
          \/ AnswerGrant(q)
          \/ \E i \in EntryIds, r \in Resources, a \in Amounts : EntryCheck(q, i, r, a)
          \/ EntryRead(q)
          \/ EntryWrite(q)
    \/ Answered

Spec == Init /\ [][Next]_vars

-----------------------------------------------------------------------------
(* Properties                                                              *)

\* What a request has granted, its INSERT or UPDATE being made, whether or not its
\* operator has been told; and all of them together.
Grant(q, r) ==
    IF /\ req[q].kind \in {"add", "increase"} /\ req[q].entry.res = r
       /\ req[q].pc = "granted" \/ req[q].answer = "ok"
      THEN req[q].entry.amount ELSE 0
Granted(r) == Total([q \in Requests |-> Grant(q, r)])

\* However the requests interleave, die or lose their answers, a hard limit is never higher
\* than the sum of the grants that were written, each counted once: a lost update of
\* limits_json, of this resource or of another in the same column, can only tighten a
\* budget.  An operator who was not answered and asks again has granted twice
\* (addBudgetResource, increaseBudgetResource).
NeverOvergranted == \A r \in Resources : limits[r] <= Granted(r)

\* A recorded spend is the one that was acknowledged: every 200 and 201 of
\* POST /budget-entries names an entry that the ledger holds with that resource and
\* that amount, also when two clients, or a client and its retry, send the same id
\* together (handlePostBudgetEntry, recordBudgetEntry).
AcknowledgedIsRecorded ==
    \A q \in Requests :
        req[q].kind = "entry" /\ req[q].answer = "ok" => entries[req[q].id] = req[q].entry
=============================================================================
