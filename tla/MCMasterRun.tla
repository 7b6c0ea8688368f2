----------------------------- MODULE MCMasterRun -----------------------------
(* An instance of MasterRun for TLC. *)
EXTENDS MasterRun, TLC

T0 == <<"project", "t0">>
Propose(key, deps, existing) == [key |-> key, deps |-> deps, existing |-> existing]
Answer(action, proposals) == [action |-> action, proposals |-> proposals]

\* b waits for a, although the model lists it first; the others have a cycle, name
\* one task twice, and name a task that does not exist.
Chain == Answer("CREATE_TASKS", <<Propose("b", <<"a">>, <<>>), Propose("a", <<>>, <<T0>>)>>)
Cycle == Answer("REPLAN", <<Propose("a", <<"b">>, <<>>), Propose("b", <<"a">>, <<>>)>>)
Twice == Answer("CREATE_TASKS", <<Propose("a", <<>>, <<T0, T0>>)>>)
T9 == <<"project", "nowhere">>
Nowhere == {T9}
Unknown == Answer("REPLAN", <<Propose("a", <<>>, <<>>), Propose("b", <<"a">>, <<T9>>)>>)
Finish == Answer("FINISHED", <<>>)

TwoKeys == {"a", "b"}
OneTask == {T0}
AnyDecision == {Chain, Cycle, Twice, Unknown, Finish}
CheapAndDear == {[tokens |-> 1, usd |-> 1], [tokens |-> 3, usd |-> 2]}

\* A project with a contract whose criterion is still to be written, for runs one after
\* the other, and one whose first contract is met, for runs that overlap.
Begun == [EmptyProject EXCEPT !.contract = 1]
Accepted == [contract |-> 1, criterion |-> [v \in 1 .. MaxVersions |-> IF v = 1 THEN "PASS" ELSE "absent"],
             blocked |-> FALSE, verified |-> TRUE, regression |-> "PASS", evidence |-> TRUE]
AloneAndTogether == {[overlap |-> 1, project |-> Begun], [overlap |-> 2, project |-> Accepted]}

Symmetry == Permutations(Masters)
=============================================================================
