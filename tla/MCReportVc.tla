----------------------------- MODULE MCReportVc -----------------------------
EXTENDS ReportVc, TLC

\* Attempt ids, handler slots and accounts are interchangeable.
Symmetry == Permutations(Ids) \cup Permutations(Reqs) \cup Permutations(Users)

Made(purpose) == {i \in Ids : attempts[i].status # "absent" /\ attempts[i].purpose = purpose}

\* Bound: behaviours go on into the last tick with the attempts of one account: a link
\* and issues.  Accounts, links and verifiers meet before it.
OneAccountLast ==
  now = MaxNow =>
    /\ Cardinality({attempts[i].user : i \in Made("link") \cup Made("issue")}) <= 1
    /\ Cardinality(Made("link")) <= 1 /\ Made("verify") = {}
=============================================================================
