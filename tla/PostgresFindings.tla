--------------------------- MODULE PostgresFindings ---------------------------
(***************************************************************************)
(* Findings and exceptions in the Postgres store (postgres/postgres.go).   *)
(* Most methods read rows, decide, and write whole rows back outside of a  *)
(* transaction, so requests interleave between the reads and the writes.   *)
(* ListExceptions, which SyncFinding and DeleteException call on their     *)
(* way, marks the exceptions that have run out and then reopens findings.  *)
(*                                                                         *)
(* An exception identifier is never used twice: Gone is a row that has     *)
(* been deleted.                                                           *)
(***************************************************************************)
EXTENDS FindingRules

CONSTANTS
    PgWorkers,          \* requests in progress, in any replica of the API
    PgFaults,           \* may requests be cut off and queries fail?
    PgFindingIds, PgExceptionIds, PgGroups, PgScopes, PgReported    \* what they work on

ASSUME PgAssumption ==
    /\ PgFindingIds \subseteq FindingIds /\ PgExceptionIds \subseteq ExceptionIds
    /\ PgGroups \subseteq FindingGroups /\ PgScopes \subseteq ExceptionScopes
    /\ PgReported \subseteq Reported

VARIABLES pgFindings, pgExceptions,
          pgJob         \* pgJob[w]: what the request w holds in memory

pgVars == <<pgFindings, pgExceptions, pgJob>>

Gone == [gone |-> TRUE]
IsException(row) == row # Absent /\ row # Gone
\* A copy of an exception; what is left of it is not looked at again.
Remembered(row) == IF IsException(row) THEN [row EXCEPT !.left = 0] ELSE row

\* op: the method; step: its next statement; copy: the finding to be saved;
\* early: the findings listed at the start, as far as they may be written;
\* seen: the exceptions as ListExceptions returns them; ran: those it found to
\* have run out; reopen: the suppressed findings it listed afterwards and has
\* not looked at yet.
Idle == [op |-> "none", step |-> "idle", subject |-> "none", copy |-> Absent,
         early |-> <<>>, seen |-> <<>>, ran |-> {}, reopen |-> <<>>]

PgInit ==
    /\ pgFindings = [f \in PgFindingIds |-> Absent]
    /\ pgExceptions = [e \in PgExceptionIds |-> Absent]
    /\ pgJob = [w \in PgWorkers |-> Idle]

\* The exceptions of a list that cover f; ListExceptions has already replaced
\* the status of those that have run out.
PgCovered(f, group, seen, except) ==
    \E e \in PgExceptionIds \ except :
        /\ IsException(seen[e]) /\ seen[e].status = "active"
        /\ ExceptionMatches(seen[e], f, group)

Suppressed(row) == row # Absent /\ row.status = "suppressed"

PgStart(w, job) == pgJob[w] = Idle /\ pgJob' = [pgJob EXCEPT ![w] = job]
PgDone(w) == pgJob' = [pgJob EXCEPT ![w] = Idle]

\* SyncFinding reads the stored row and keeps its status.
PgSyncRead(w, f, reported, group, stale) ==
    /\ PgStart(w, [Idle EXCEPT !.op = "sync", !.step = "list", !.subject = f,
         !.copy = [status |-> Observed(pgFindings[f], reported), group |-> group,
                   stale |-> stale]])
    /\ UNCHANGED <<pgFindings, pgExceptions>>

\* GET /exceptions
PgListRequest(w) ==
    /\ PgStart(w, [Idle EXCEPT !.op = "list", !.step = "list"])
    /\ UNCHANGED <<pgFindings, pgExceptions>>

\* DeleteException reads the row and lists the findings before anything else.
PgDeleteRead(w, e) ==
    /\ IsException(pgExceptions[e])
    /\ PgStart(w, [Idle EXCEPT !.op = "delete", !.step = "list", !.subject = e,
         !.early = [f \in PgFindingIds |->
                      IF Suppressed(pgFindings[f])
                         /\ ExceptionMatches(pgExceptions[e], f, pgFindings[f].group)
                      THEN pgFindings[f] ELSE Absent]])
    /\ UNCHANGED <<pgFindings, pgExceptions>>

\* SyncFinding ignores that ListExceptions failed: it goes on as if there were
\* no exceptions.
PgListFails(w) ==
    /\ PgFaults /\ pgJob[w].op = "sync" /\ pgJob[w].step = "list"
    /\ pgJob' = [pgJob EXCEPT ![w].step = "finish",
                              ![w].seen = [e \in PgExceptionIds |-> Absent]]
    /\ UNCHANGED <<pgFindings, pgExceptions>>

\* ListExceptions: one query.  What has run out counts as expired from here on.
PgListRead(w) ==
    LET ran == {e \in PgExceptionIds : /\ IsException(pgExceptions[e])
                                     /\ pgExceptions[e].status = "active"
                                     /\ pgExceptions[e].left = 0}
    IN /\ pgJob[w].step = "list"
       /\ pgJob' = [pgJob EXCEPT ![w].step = IF ran = {} THEN "finish" ELSE "mark",
            ![w].ran = ran,
            ![w].seen = [e \in PgExceptionIds |->
               IF e \in ran THEN [Remembered(pgExceptions[e]) EXCEPT !.status = "expired"]
               ELSE Remembered(pgExceptions[e])]]
       /\ UNCHANGED <<pgFindings, pgExceptions>>

\* An upsert brings a deleted row back.
UpsertException(rows, e, row) == [rows EXCEPT ![e] = row]

\* saveException: an UPDATE, which touches existing rows only.
SaveException(rows, e, row) ==
    IF IsException(rows[e]) THEN [rows EXCEPT ![e].status = row.status] ELSE rows

\* ListExceptions goes on when a mark could not be saved.
PgMark(w) ==
    /\ pgJob[w].step = "mark"
    /\ \E e \in pgJob[w].ran :
         /\ pgExceptions' \in {SaveException(pgExceptions, e, pgJob[w].seen[e]), pgExceptions}
         /\ pgJob' = [pgJob EXCEPT ![w].ran = @ \ {e},
              ![w].step = IF pgJob[w].ran = {e} THEN "reload" ELSE "mark"]
    /\ UNCHANGED pgFindings

\* ListExceptions after it marked something: the findings are listed again.
PgReload(w) ==
    /\ pgJob[w].step = "reload"
    /\ LET suppressed == {f \in PgFindingIds : Suppressed(pgFindings[f])} IN
       pgJob' = [pgJob EXCEPT ![w].step = IF suppressed = {} THEN "finish" ELSE "reopen",
                              ![w].reopen = [f \in suppressed |-> pgFindings[f]]]
    /\ UNCHANGED <<pgFindings, pgExceptions>>

\* The last part of ListExceptions: one listed finding after the other; those
\* that are not covered are written back as open.
PgReopen(w) ==
    /\ pgJob[w].step = "reopen"
    /\ \E f \in DOMAIN pgJob[w].reopen :
         LET row == pgJob[w].reopen[f]
             rest == DOMAIN pgJob[w].reopen \ {f}
         IN /\ pgFindings' = IF PgCovered(f, row.group, pgJob[w].seen, {}) THEN pgFindings
                             ELSE [pgFindings EXCEPT ![f] = [row EXCEPT !.status = "open"]]
            /\ pgJob' = [pgJob EXCEPT
                 ![w].reopen = IF rest = {} THEN <<>> ELSE [g \in rest |-> pgJob[w].reopen[g]],
                 ![w].step = IF rest = {} THEN "finish" ELSE "reopen"]
    /\ UNCHANGED pgExceptions

\* SyncFinding writes the copy it made at its start.
PgSyncSave(w) ==
    LET job == pgJob[w]
        covered == PgCovered(job.subject, job.copy.group, job.seen, {})
    IN /\ job.op = "sync" /\ job.step = "finish"
       /\ pgFindings' = [pgFindings EXCEPT ![job.subject] =
            IF covered THEN [job.copy EXCEPT !.status = "suppressed"] ELSE job.copy]
       /\ PgDone(w)
       /\ UNCHANGED pgExceptions

PgListReply(w) ==
    /\ pgJob[w].op = "list" /\ pgJob[w].step = "finish"
    /\ PgDone(w)
    /\ UNCHANGED <<pgFindings, pgExceptions>>

\* The transaction of DeleteException: it writes back the copies listed at the
\* start of those findings that it reopens.
PgDeleteCommit(w) ==
    LET job == pgJob[w]
        e == job.subject
    IN /\ job.op = "delete" /\ job.step = "finish"
       /\ pgExceptions' = [pgExceptions EXCEPT ![e] = Gone]
       /\ pgFindings' = [f \in PgFindingIds |->
            IF /\ job.early[f] # Absent
               /\ ~PgCovered(f, job.early[f].group, job.seen, {e})
            THEN [job.early[f] EXCEPT !.status = "open"] ELSE pgFindings[f]]
       /\ PgDone(w)

\* CreateException lists the findings, and writes its copies in a transaction.
PgCreateRead(w, e) ==
    /\ pgExceptions[e] = Absent
    /\ \A v \in PgWorkers : pgJob[v].op # "create" \/ pgJob[v].subject # e
    /\ PgStart(w, [Idle EXCEPT !.op = "create", !.step = "commit", !.subject = e,
                               !.early = pgFindings])
    /\ UNCHANGED <<pgFindings, pgExceptions>>

PgCreateCommit(w, scope, left) ==
    LET job == pgJob[w]
        exception == [scope |-> scope, status |-> "active", left |-> left]
    IN /\ job.op = "create" /\ job.step = "commit"
       /\ pgExceptions' = [pgExceptions EXCEPT ![job.subject] = exception]
       /\ pgFindings' = [f \in PgFindingIds |->
            IF job.early[f] # Absent /\ ExceptionMatches(exception, f, job.early[f].group)
            THEN [job.early[f] EXCEPT !.status = "suppressed"] ELSE pgFindings[f]]
       /\ PgDone(w)

\* ExpireFindings lists the findings, then writes one transaction per finding.
PgExpireRead(w) ==
    /\ \E f \in PgFindingIds : pgFindings[f] # Absent /\ EvidenceExpires(pgFindings[f])
    /\ PgStart(w, [Idle EXCEPT !.op = "expire", !.step = "commit", !.reopen =
         [f \in {g \in PgFindingIds : /\ pgFindings[g] # Absent
                                    /\ EvidenceExpires(pgFindings[g])} |-> pgFindings[f]]])
    /\ UNCHANGED <<pgFindings, pgExceptions>>

PgExpireCommit(w) ==
    /\ pgJob[w].op = "expire"
    /\ \E f \in DOMAIN pgJob[w].reopen :
         LET rest == DOMAIN pgJob[w].reopen \ {f} IN
         /\ pgFindings' = [pgFindings EXCEPT ![f] =
              [pgJob[w].reopen[f] EXCEPT !.status = "expired"]]
         /\ pgJob' = [pgJob EXCEPT ![w] = IF rest = {} THEN Idle ELSE
              [@ EXCEPT !.reopen = [g \in rest |-> pgJob[w].reopen[g]]]]
    /\ UNCHANGED pgExceptions

\* UpdateFindingStatus: one serializable transaction that locks the row.
PgUpdateStatus(f, status) ==
    /\ pgFindings[f] # Absent
    /\ pgFindings[f].status \notin ClusterStatuses
    /\ pgFindings' = [pgFindings EXCEPT ![f].status = status]
    /\ UNCHANGED <<pgExceptions, pgJob>>

\* The request is cancelled, or the process dies.
PgCrash(w) ==
    /\ PgFaults /\ pgJob[w] # Idle /\ PgDone(w)
    /\ UNCHANGED <<pgFindings, pgExceptions>>

PgTick ==
    /\ \E e \in PgExceptionIds : IsException(pgExceptions[e]) /\ pgExceptions[e].left > 0
    /\ pgExceptions' = [e \in PgExceptionIds |->
         IF IsException(pgExceptions[e]) /\ pgExceptions[e].left > 0
         THEN [pgExceptions[e] EXCEPT !.left = @ - 1] ELSE pgExceptions[e]]
    /\ UNCHANGED <<pgFindings, pgJob>>

PgStep(w) ==
    \/ PgListRead(w) \/ PgMark(w) \/ PgReload(w) \/ PgReopen(w)
    \/ PgSyncSave(w) \/ PgListReply(w) \/ PgDeleteCommit(w) \/ PgExpireCommit(w)
    \/ \E s \in PgScopes, n \in 1 .. MaxLifetime : PgCreateCommit(w, s, n)

\* The listing of the findings, which observes them all.
PgObserve(w) ==
    \E f \in PgFindingIds, s \in PgReported, g \in PgGroups, old \in BOOLEAN :
        PgSyncRead(w, f, s, g, old)

PgNext ==
    \/ \E w \in PgWorkers :
         \/ PgObserve(w) \/ PgListRequest(w) \/ PgExpireRead(w)
         \/ \E e \in PgExceptionIds : PgDeleteRead(w, e) \/ PgCreateRead(w, e)
         \/ PgStep(w) \/ PgListFails(w) \/ PgCrash(w)
    \/ \E f \in PgFindingIds, s \in ManualStatuses : PgUpdateStatus(f, s)
    \/ PgTick

PgSpec == PgInit /\ [][PgNext]_pgVars

-----------------------------------------------------------------------------

PgTypeOK ==
    /\ pgFindings \in [PgFindingIds -> FindingRows \cup {Absent}]
    /\ pgExceptions \in [PgExceptionIds -> ExceptionRows \cup {Absent, Gone}]
    /\ \A w \in PgWorkers : pgJob[w].copy \in FindingRows \cup {Absent}

\* However requests interleave, an exception only ages: one that is marked
\* expired is never active again, and one that was deleted never returns, not
\* even when a ListExceptions that read it before the deletion saves it after
\* (saveException, DeleteException).
ExceptionsOnlyAge ==
    [][\A e \in PgExceptionIds :
         /\ pgExceptions[e] = Gone => pgExceptions'[e] = Gone
         /\ IsException(pgExceptions[e]) /\ pgExceptions[e].status = "expired" =>
              pgExceptions'[e] = Gone \/ pgExceptions'[e].status = "expired"]_pgVars

=============================================================================
