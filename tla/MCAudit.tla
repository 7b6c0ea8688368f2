------------------------------- MODULE MCAudit -------------------------------
(* Instances of Audit for TLC: one task with two runs, one verifier run with one *)
(* test result, and budget resources whose soft limit is 1, or that have none.   *)
EXTENDS Audit, TLC

CONSTANTS a1, tokens, t1, r1, r2, v1, x1, m1

MCSoftLimit == [r \in Resources |-> 1]
NoSoftLimit == [r \in Resources |-> 0]

Run(s, m) == [status |-> s, task |-> t1, message |-> m]
TaskIs(s, r) == [t \in Tasks |-> [status |-> s, assigned |-> r]]

\* the first run has failed, and has not been reported yet
Failed == [EmptyWorld EXCEPT !.tasks = TaskIs("failed", r1), !.runs[r1] = Run("failed", m1)]
\* it has been reported and retried
Retried == [Failed EXCEPT !.tasks = TaskIs("in_progress", r2), !.reports = {r1},
                          !.runs[r2] = Run("running", "none")]
\* the run has succeeded, and its verifier run has passed
Verified == [EmptyWorld EXCEPT !.tasks = TaskIs("awaiting_verification", r1), !.reports = {r1},
                 !.runs[r1] = Run("succeeded", "none"),
                 !.verifiers[v1] = [status |-> "completed", task |-> t1, outcome |-> "PASS"]]
\* an assignment that lost its race has left its row
Doubled == [EmptyWorld EXCEPT !.tasks = TaskIs("assigned", r1), !.runs[r1] = Run("queued", "none"),
                              !.runs[r2] = Run("queued", "none")]

None == [k \in {} |-> "active"]
Old == [k \in {Key("MISSING_REPORT", r1, ""), Key("DUPLICATE_ACTIVE_WORK", t1, "")} |->
            IF k[1] = "MISSING_REPORT" THEN "resolved" ELSE "active"]

\* one audit, or two over findings of before, while the runs move; one audit while two
\* requests move the ledger and other projects are audited; or all requests, alone
MCScenes ==
    [moves : {"runs"}, requests : {{}}, audits : {{a1}}, others : {{}},
     world : {EmptyWorld, Verified, Doubled}, findings : {None}]
    \cup [moves : {"runs"}, requests : {{}}, audits : {Audits}, others : {{}},
          world : {Failed, Retried}, findings : {Old}]
    \cup [moves : {"ledger"}, requests : {Q \in SUBSET Requests : Cardinality(Q) = 2},
          audits : {{a1}}, others : {{tokens}}, world : {EmptyWorld}, findings : {None}]
    \cup [moves : {"ledger"}, requests : {Requests}, audits : {{}}, others : {{}},
          world : {EmptyWorld}, findings : {None}]

Symmetry == Permutations(Requests)
=============================================================================
