---------------------------- MODULE MemoryFindings ----------------------------
(***************************************************************************)
(* Findings and exceptions in the memory store (store/store.go).  Every    *)
(* method holds the store's mutex from its first read to its last write,   *)
(* so each of them is one step.  The remediation workflow is represented   *)
(* here by what decide and ExecuteRemediationPlan write into the finding.  *)
(***************************************************************************)
EXTENDS FindingRules

VARIABLES memFindings, memExceptions

memVars == <<memFindings, memExceptions>>

\* hasActiveExceptionLocked
MemCovered(f, group, exceptions) ==
    \E e \in ExceptionIds :
        /\ exceptions[e] # Absent
        /\ exceptions[e].status = "active" /\ exceptions[e].left > 0
        /\ ExceptionMatches(exceptions[e], f, group)

MemSuppressed(f) == memFindings[f] # Absent /\ memFindings[f].status = "suppressed"

MemInit ==
    /\ memFindings = [f \in FindingIds |-> Absent]
    /\ memExceptions = [e \in ExceptionIds |-> Absent]

\* SyncFinding, from a scanner, a Finding object or the correlated list.
MemSyncFinding(f, reported, group, stale) ==
    LET status == IF MemCovered(f, group, memExceptions) THEN "suppressed"
                  ELSE Observed(memFindings[f], reported)
    IN /\ memFindings' = [memFindings EXCEPT ![f] =
                            [status |-> status, group |-> group, stale |-> stale]]
       /\ UNCHANGED memExceptions

\* ExpireFindings
MemExpireFindings ==
    /\ memFindings' = [f \in FindingIds |->
         IF memFindings[f] # Absent /\ EvidenceExpires(memFindings[f])
         THEN [memFindings[f] EXCEPT !.status = "expired"] ELSE memFindings[f]]
    /\ UNCHANGED memExceptions

\* UpdateFindingStatus
MemUpdateStatus(f, status) ==
    /\ memFindings[f] # Absent
    /\ memFindings[f].status \notin ClusterStatuses
    /\ memFindings' = [memFindings EXCEPT ![f].status = status]
    /\ UNCHANGED memExceptions

\* decide sets in_review and ExecuteRemediationPlan remediating, whatever the
\* finding was.
MemWorkflow(f, status) ==
    /\ memFindings[f] # Absent
    /\ memFindings' = [memFindings EXCEPT ![f].status = status]
    /\ UNCHANGED memExceptions

\* CreateException suppresses every finding in scope.
MemCreateException(e, scope, left) ==
    LET exception == [scope |-> scope, status |-> "active", left |-> left] IN
    /\ memExceptions[e] = Absent
    /\ memExceptions' = [memExceptions EXCEPT ![e] = exception]
    /\ memFindings' = [f \in FindingIds |->
         IF memFindings[f] # Absent /\ ExceptionMatches(exception, f, memFindings[f].group)
         THEN [memFindings[f] EXCEPT !.status = "suppressed"] ELSE memFindings[f]]

\* A suppressed finding that is not covered any more is open again.
MemReopen(f, exceptions) ==
    IF MemSuppressed(f) /\ ~MemCovered(f, memFindings[f].group, exceptions)
    THEN [memFindings[f] EXCEPT !.status = "open"] ELSE memFindings[f]

\* DeleteException reopens only what the deleted exception covered.
MemDeleteException(e) ==
    LET rest == [memExceptions EXCEPT ![e] = Absent] IN
    /\ memExceptions[e] # Absent
    /\ memExceptions' = rest
    /\ memFindings' = [f \in FindingIds |->
         IF MemSuppressed(f) /\ ExceptionMatches(memExceptions[e], f, memFindings[f].group)
         THEN MemReopen(f, rest) ELSE memFindings[f]]

\* Nothing is reopened unless an exception runs out in this very call.
MemExpireChangedOnly ==
    LET aged == [e \in ExceptionIds |->
          IF memExceptions[e] # Absent /\ memExceptions[e].left = 0
          THEN [memExceptions[e] EXCEPT !.status = "expired"] ELSE memExceptions[e]]
    IN /\ memExceptions' = aged
       /\ memFindings' = [f \in FindingIds |->
            IF aged # memExceptions THEN MemReopen(f, aged) ELSE memFindings[f]]

\* expireExceptionsLocked, at the start of Dashboard, ListFindings and
\* ListExceptions: it reopens whatever is suppressed without cover.
MemExpireExceptions ==
    LET aged == [e \in ExceptionIds |->
          IF memExceptions[e] # Absent /\ memExceptions[e].left = 0
          THEN [memExceptions[e] EXCEPT !.status = "expired"] ELSE memExceptions[e]]
    IN /\ memExceptions' = aged
       /\ memFindings' = [f \in FindingIds |-> MemReopen(f, aged)]

\* Time passes: exceptions run out, and the evidence of some findings grows stale.
MemTick(stale) ==
    /\ memExceptions' = [e \in ExceptionIds |->
         IF memExceptions[e] # Absent /\ memExceptions[e].left > 0
         THEN [memExceptions[e] EXCEPT !.left = @ - 1] ELSE memExceptions[e]]
    /\ memFindings' = [f \in FindingIds |->
         IF f \in stale /\ memFindings[f] # Absent
         THEN [memFindings[f] EXCEPT !.stale = TRUE] ELSE memFindings[f]]

MemNext ==
    \/ \E f \in FindingIds, s \in Reported, g \in FindingGroups, old \in BOOLEAN :
         MemSyncFinding(f, s, g, old)
    \/ MemExpireFindings
    \/ \E f \in FindingIds :
         \/ \E s \in ManualStatuses : MemUpdateStatus(f, s)
         \/ \E s \in {"in_review", "remediating"} : MemWorkflow(f, s)
    \/ \E e \in ExceptionIds :
         \/ \E s \in ExceptionScopes, n \in 1 .. MaxLifetime : MemCreateException(e, s, n)
         \/ MemDeleteException(e)
    \/ MemExpireExceptions
    \/ \E stale \in SUBSET FindingIds : MemTick(stale)

\* The console and the agent list the findings again and again.
MemFairness == WF_memVars(MemExpireExceptions)

MemSpec == MemInit /\ [][MemNext]_memVars /\ MemFairness

-----------------------------------------------------------------------------

MemTypeOK ==
    /\ memFindings \in [FindingIds -> FindingRows \cup {Absent}]
    /\ memExceptions \in [ExceptionIds -> ExceptionRows \cup {Absent}]

\* A finding does not stay suppressed once nothing covers it: not when its
\* exception runs out or is deleted, and not when Correlate moves it to another
\* group so that the exception it was suppressed for no longer names it
\* (expireExceptionsLocked, DeleteException).
MemoryReopens ==
    \A f \in FindingIds :
        MemSuppressed(f) /\ ~MemCovered(f, memFindings[f].group, memExceptions)
            ~> \/ ~MemSuppressed(f)
               \/ MemCovered(f, memFindings[f].group, memExceptions)

=============================================================================
