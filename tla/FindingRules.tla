----------------------------- MODULE FindingRules -----------------------------
(***************************************************************************)
(* What the memory store and the Postgres store share about findings and   *)
(* exceptions (store/store.go, postgres/postgres.go): the rows, which      *)
(* exception covers which finding, and what an observation does to the     *)
(* status that is stored.  Evidence is reduced to whether the newest of it *)
(* is older than the configured expiry, the expiration of an exception to  *)
(* the ticks that are left.                                                *)
(***************************************************************************)
EXTENDS Integers, FiniteSets

CONSTANTS
    FindingIds, ExceptionIds,
    FindingSource,      \* FindingSource[f]: the source that reports f
    FindingGroups,      \* correlation groups, which Correlate assigns anew
    ExceptionScopes,    \* scopes that users ask for: a finding, a group, a source
    MaxLifetime,        \* bound: longest lifetime of an exception, in ticks
    Reported            \* statuses that observations and Finding objects carry

Absent == [absent |-> TRUE]
Statuses == {"open", "in_review", "suppressed", "remediating", "resolved", "expired"}
FindingRows == [status : Statuses, group : FindingGroups, stale : BOOLEAN]
ExceptionRows == [scope : ExceptionScopes, status : {"active", "expired"},
                  left : 0 .. MaxLifetime]

ASSUME FindingAssumption ==
    /\ FindingSource \in [FindingIds -> STRING]
    /\ MaxLifetime \in Nat \ {0}
    /\ Reported \subseteq Statuses

\* exceptionMatches
ExceptionMatches(exception, f, group) ==
    exception.scope \in {f, group, FindingSource[f]}

\* SyncFinding: an observation that says open does not undo what people, an
\* exception or the operator decided.
Observed(existing, reported) ==
    IF /\ reported = "open" /\ existing # Absent
       /\ existing.status \in {"in_review", "suppressed", "remediating", "resolved"}
    THEN existing.status ELSE reported

\* UpdateFindingStatus: the states that it sets, and those it leaves alone.
ManualStatuses == {"open", "in_review"}
ClusterStatuses == {"resolved", "remediating"}

\* ExpireFindings
EvidenceExpires(row) == row.status \in ManualStatuses /\ row.stale

=============================================================================
