----------------------------- MODULE ChaosManager -----------------------------
(***************************************************************************)
(* The chaos experiment manager of the API server: cluster.ChaosManager,   *)
(* the calls it makes through cluster.ChaosRunner, and the run table it    *)
(* shares with every other worker (store.UpdateChaosRun).                  *)
(*                                                                         *)
(* A worker is one thread of control that runs manager code: an HTTP       *)
(* handler, or one reconcileOne call of the poll loop (a pass of           *)
(* reconcileAll over n listed runs holds n copies, like n workers).  Every *)
(* read of the table, call to Kubernetes and write of the table is a step  *)
(* of its own, so a worker acts on a copy of the run that other workers    *)
(* may have overtaken; only UpdateChaosRun compares versions.              *)
(*                                                                         *)
(* Times are readings of one clock that starts at 1; Unset is a nil        *)
(* *time.Time.  Messages, actors of audit events and the bounds that       *)
(* preflight puts on a manifest are abstracted away.                       *)
(***************************************************************************)
EXTENDS Integers

CONSTANTS
    Runs,           \* run IDs (UUIDs)
    Workers,        \* threads of control, of any number of API replicas
    Principals,     \* authenticated callers
    Names,          \* kind/namespace/name identities a manifest can declare
    ResourceOf,     \* ResourceOf[r]: the identity in the manifest of run r
    None,
    MaxAttempts,    \* chaosMaxAttempts
    ApprovalTTL, InjectionWindow, Duration, CleanupGrace, RecoveryWindow,
    Modes,          \* values KUBEATHRIX_CHAOS_EXECUTION may have at a restart
    LostAcks,       \* may a create be applied and its answer be lost?
    FreeTicks,      \* bound: the clock passes it only towards a deadline
    MaxVersion      \* bound: refreshes of the pending message stop there

ASSUME ChaosAssumption ==
    /\ None \notin Runs /\ None \notin Principals
    /\ ResourceOf \in [Runs -> Names]
    /\ MaxAttempts \in Nat \ {0}
    /\ ApprovalTTL \in Nat /\ InjectionWindow \in Nat /\ Duration \in Nat
    /\ CleanupGrace \in Nat /\ RecoveryWindow \in Nat
    /\ Modes \subseteq BOOLEAN
    /\ LostAcks \in BOOLEAN
    /\ FreeTicks \in Nat /\ MaxVersion \in Nat

VARIABLES
    store,          \* store[r]: the row of run r in the run table
    resource,       \* resource[n]: the Chaos Mesh object named n, or NoResource
    clock,
    enabled,        \* executionEnabled of the running deployment
    pc, job, copy,  \* per worker: next step, what it is doing, its run value
    settled,        \* calls have stopped failing (always FALSE in Spec)
    injected        \* history: runs whose object ever reported AllInjected=True

vars == <<store, resource, clock, enabled, pc, job, copy, settled,
          injected>>

-----------------------------------------------------------------------------
(* Values.                                                                 *)

Statuses == {"absent", "preflight_validated", "pending_approval", "approved",
             "rejected", "expired", "execution_requested", "running",
             "cleanup_requested", "abort_requested", "verifying_recovery",
             "succeeded", "failed", "aborted"}

\* Mutant of chaosActive: forgets the last active status.
ForgetsVerifying == {"execution_requested", "running", "cleanup_requested",
                     "abort_requested"}

chaosActive == {"execution_requested", "running", "cleanup_requested",
                "abort_requested", "verifying_recovery"}

Unset == 0

RunRecords ==
    [status : Statuses, version : Nat,
     requestedBy : Principals \cup {None}, approvedBy : Principals \cup {None},
     attempts : Nat, failure : BOOLEAN, recovery : {"", "healthy", "unhealthy"},
     approvalExpiresAt : Nat, injectionDeadline : Nat, startedAt : Nat,
     cleanupDeadline : Nat, recoveryDeadline : Nat]

NoRun ==
    [status |-> "absent", version |-> 0, requestedBy |-> None,
     approvedBy |-> None, attempts |-> 0, failure |-> FALSE, recovery |-> "",
     approvalExpiresAt |-> Unset, injectionDeadline |-> Unset,
     startedAt |-> Unset, cleanupDeadline |-> Unset, recoveryDeadline |-> Unset]

\* late is history: the worker that created the object did so from a copy of
\* the run that was no longer the row.
Objects == [owner : Runs, injected : BOOLEAN, deleting : BOOLEAN, late : BOOLEAN]

NoResource ==
    [owner |-> None, injected |-> FALSE, deleting |-> FALSE, late |-> FALSE]

\* What an HTTP request or the poll loop asks of the manager.
Operations == {"reconcile", "approve", "reject", "execute", "abort"}

\* Where a worker stands: before the named call or decision.
Labels == {"idle", "act", "reconcile", "exists", "dryRun", "create", "observe",
           "delete", "deleted", "recovery", "commit"}

Jobs == [run : Runs \cup {None}, op : Operations, now : Nat,
         then : {"return", "answer", "reconcile", "delete"}]

NoJob == [run |-> None, op |-> "reconcile", now |-> 0, then |-> "return"]

\* now.Before(*deadline) is false for a deadline that is set.
Reached(deadline, now) == deadline # Unset /\ now >= deadline

Object(w) == resource[ResourceOf[job[w].run]]

Init ==
    /\ store = [r \in Runs |-> NoRun]
    /\ resource = [n \in Names |-> NoResource]
    /\ clock = 1
    /\ enabled \in Modes
    /\ pc = [w \in Workers |-> "idle"]
    /\ job = [w \in Workers |-> NoJob]
    /\ copy = [w \in Workers |-> NoRun]
    /\ settled = FALSE
    /\ injected = {}

-----------------------------------------------------------------------------
(* Control of a worker.                                                    *)

cluster == <<store, resource, clock, enabled, settled, injected>>

Goto(w, label) ==
    /\ pc' = [pc EXCEPT ![w] = label]
    /\ UNCHANGED <<job, copy>>

\* The handler or reconcileOne returned; nothing of its copy survives.
Quit(w) ==
    /\ pc' = [pc EXCEPT ![w] = "idle"]
    /\ job' = [job EXCEPT ![w] = NoJob]
    /\ copy' = [copy EXCEPT ![w] = NoRun]

\* reconcileOne returned nil: the poll loop is done with the run, an HTTP
\* handler goes on to its own operation (authorizedExperimentRun calls Get),
\* which reads the run again.
Return(w) ==
    IF job[w].op = "reconcile"
    THEN Quit(w)
    ELSE /\ pc' = [pc EXCEPT ![w] = "act"]
         /\ job' = [job EXCEPT ![w] = [NoJob EXCEPT !.run = job[w].run, !.op = job[w].op]]
         /\ copy' = [copy EXCEPT ![w] = NoRun]

\* The copy is changed and UpdateChaosRun is the next call; the clock reading
\* is not used after it.
Update(w, run, then) ==
    /\ copy' = [copy EXCEPT ![w] = run]
    /\ job' = [job EXCEPT ![w].then = then, ![w].now = 0]
    /\ pc' = [pc EXCEPT ![w] = "commit"]

\* GetChaosRun or ListChaosRuns: Get reconciles active and pending runs first,
\* reconcileAll skips the others.
Load(w, r, op) ==
    /\ pc[w] = "idle"
    /\ store[r].status # "absent"
    /\ LET busy == store[r].status \in chaosActive \cup {"pending_approval"}
       IN  /\ op = "reconcile" => busy
           /\ pc' = [pc EXCEPT ![w] = IF busy THEN "reconcile" ELSE "act"]
           /\ copy' = [copy EXCEPT ![w] = IF busy THEN store[r] ELSE NoRun]
    /\ job' = [job EXCEPT ![w] = [NoJob EXCEPT !.run = r, !.op = op]]
    /\ UNCHANGED cluster

\* Mutant of Current: an update that does not compare versions.
BlindWrite(w) == TRUE

Current(w) == store[job[w].run].version = copy[w].version

\* UpdateChaosRun: write the copy if nobody wrote since it was read.
Commit(w) ==
    /\ pc[w] = "commit"
    /\ LET r == job[w].run
           run == [copy[w] EXCEPT !.version = @ + 1]
       IN  IF Current(w)
           THEN /\ store' = [store EXCEPT ![r] = run]
                /\ \/ job[w].then = "answer" /\ Quit(w)
                   \/ job[w].then = "return" /\ Return(w)
                   \/ /\ job[w].then \in {"reconcile", "delete"}
                      /\ pc' = [pc EXCEPT ![w] = job[w].then]
                      /\ job' = [job EXCEPT ![w].op = "reconcile"]
                      /\ copy' = [copy EXCEPT ![w] = run]
           ELSE Quit(w) /\ UNCHANGED store
    /\ UNCHANGED <<resource, clock, enabled, settled, injected>>

\* Any call returns an error, or the request's context is cancelled.
Fail(w) ==
    /\ ~settled
    /\ pc[w] # "idle"
    /\ Quit(w)
    /\ UNCHANGED cluster

-----------------------------------------------------------------------------
(* The operations of the HTTP API.                                         *)

\* Preflight: with execution enabled, a server-side dry-run create that fails
\* on a name that is taken; otherwise the runner has no client to ask.
Preflight(r) == enabled => resource[ResourceOf[r]] = NoResource

\* Request and CreateChaosRun.  With execution disabled the run is a report
\* that nobody can approve.
Request(r, p) ==
    /\ store[r].status = "absent"
    /\ Preflight(r)
    /\ \/ /\ enabled
          /\ store' = [store EXCEPT ![r] =
                 [NoRun EXCEPT !.status = "pending_approval", !.version = 1,
                               !.requestedBy = p,
                               !.approvalExpiresAt = clock + ApprovalTTL]]
       \/ /\ ~enabled
          /\ store' = [store EXCEPT ![r] =
                 [NoRun EXCEPT !.status = "preflight_validated", !.version = 1,
                               !.requestedBy = p]]
    /\ UNCHANGED <<resource, clock, enabled, pc, job, copy, settled, injected>>

\* Mutant of expire: writes a status no other code knows.
ExpireUnknownStatus(w, run, then) ==
    Update(w, [run EXCEPT !.status = "approval_expired"], then)

\* expire: the operation that noticed it still answers with an error.
expire(w, run, then) == Update(w, [run EXCEPT !.status = "expired"], then)

\* Mutant of SelfDecision: no separation of duties.
AnyApprover(run, p) == FALSE

SelfDecision(run, p) == p = run.requestedBy

\* Approve and Reject differ only in the status they give.
Decide(w, p) ==
    /\ pc[w] = "act" /\ job[w].op \in {"approve", "reject"}
    /\ LET run == store[job[w].run]
       IN  \/ /\ run.status # "pending_approval"
              /\ Quit(w)
           \/ /\ run.status = "pending_approval"
              /\ Reached(run.approvalExpiresAt, clock)
              /\ expire(w, run, "answer")
           \/ /\ run.status = "pending_approval"
              /\ ~Reached(run.approvalExpiresAt, clock)
              /\ IF SelfDecision(run, p)
                 THEN Quit(w)
                 ELSE Update(w, [run EXCEPT !.approvedBy = p,
                                     !.status = IF job[w].op = "approve"
                                                THEN "approved" ELSE "rejected"],
                             "answer")
    /\ UNCHANGED cluster

Execute(w) ==
    /\ pc[w] = "act" /\ job[w].op = "execute"
    /\ LET run == store[job[w].run]
       IN  \/ /\ ~enabled \/ run.status # "approved"
              /\ Quit(w)
           \/ /\ enabled /\ run.status = "approved"
              /\ IF Reached(run.approvalExpiresAt, clock)
                 THEN expire(w, run, "answer")
                 ELSE Update(w, [run EXCEPT !.status = "execution_requested"],
                             "reconcile")
    /\ UNCHANGED cluster

Abort(w) ==
    /\ pc[w] = "act" /\ job[w].op = "abort"
    /\ LET run == store[job[w].run]
       IN  \/ /\ run.status \notin {"pending_approval", "approved"}
                                   \cup (chaosActive \ {"abort_requested"})
              /\ Quit(w)
           \/ /\ run.status \in {"pending_approval", "approved"}
              /\ Update(w, [run EXCEPT !.status = "aborted"], "answer")
           \/ /\ run.status \in chaosActive \ {"abort_requested"}
              /\ Update(w, [run EXCEPT !.status = "abort_requested",
                                !.recoveryDeadline =
                                    clock + CleanupGrace + RecoveryWindow],
                        "reconcile")
    /\ UNCHANGED cluster

-----------------------------------------------------------------------------
(* reconcileOne, one step per call it makes.                               *)

\* Read the clock and dispatch on the status of the copy.  A running copy
\* always has a start time (RecoveryIsBounded), so the code's guard against a
\* missing one has no step here.
Reconcile(w) ==
    /\ pc[w] = "reconcile"
    /\ LET run == copy[w]
           next == CASE run.status \in {"cleanup_requested", "abort_requested"} -> "delete"
                     [] OTHER -> "exists"
       IN  \/ /\ run.status = "pending_approval"
              /\ IF Reached(run.approvalExpiresAt, clock)
                 THEN expire(w, run, "return")
                 ELSE Return(w)
           \/ /\ run.status \in chaosActive
              /\ pc' = [pc EXCEPT ![w] = next]
              /\ job' = [job EXCEPT ![w].now = clock]
              /\ UNCHANGED copy
    /\ UNCHANGED cluster

\* Mutant of Absent: an object that is being deleted counts as gone.
GoneOrDeleting(w) == Object(w) = NoResource \/ Object(w).deleting

\* Mutant of Owned: the name alone identifies the object.
SameName(w) == Object(w) # NoResource

\* runner.Exists: false, true, or an error for an object of another run.
Absent(w) == Object(w) = NoResource

Owned(w) == Object(w).owner = job[w].run

Foreign(w) == ~Absent(w) /\ ~Owned(w)

\* Mutant of Disappeared: the failure is not recorded.
DisappearedSilently(w) ==
    Update(w, [copy[w] EXCEPT !.status = "verifying_recovery",
                   !.recoveryDeadline = job[w].now + RecoveryWindow], "return")

\* Mutant of Disappeared: the recovery deadline is forgotten.
DisappearedForEver(w) ==
    Update(w, [copy[w] EXCEPT !.status = "verifying_recovery", !.failure = TRUE],
           "return")

\* The object is gone although the run needs it: recovery has to be verified
\* and the run can only fail.
Disappeared(w) ==
    Update(w, [copy[w] EXCEPT !.status = "verifying_recovery", !.failure = TRUE,
                   !.recoveryDeadline = job[w].now + RecoveryWindow], "return")

\* Kubernetes acknowledged the object, now or before a restart.
Acknowledge(w) ==
    Update(w, [copy[w] EXCEPT !.injectionDeadline = job[w].now + InjectionWindow],
           "return")

ExistsExecutionRequested(w) ==
    /\ pc[w] = "exists" /\ enabled /\ copy[w].status = "execution_requested"
    /\ \/ Foreign(w) /\ Quit(w)
       \/ /\ Absent(w)
          /\ IF copy[w].injectionDeadline # Unset
             THEN Disappeared(w)
             ELSE Goto(w, "dryRun")
       \/ /\ Owned(w)
          /\ IF copy[w].injectionDeadline = Unset
             THEN Acknowledge(w)
             ELSE Goto(w, "observe")
    /\ UNCHANGED cluster

\* runner.Start failed: the third failure that is recorded ends the run.
StartFailed(w) ==
    LET attempts == copy[w].attempts + 1
    IN  Update(w, [copy[w] EXCEPT !.attempts = attempts,
                       !.status = IF attempts >= MaxAttempts THEN "failed" ELSE @],
               "return")

\* runner.Start up to its server-side dry-run, which also fails on a name that
\* is taken, by whichever run, and when the target pods are not ready.
DryRun(w) ==
    /\ pc[w] = "dryRun" /\ enabled
    /\ \/ Absent(w) /\ Goto(w, "create")
       \/ StartFailed(w)
    /\ UNCHANGED cluster

\* The object of the manifest, with the ownership label of the run.
Created(w) == [NoResource EXCEPT !.owner = job[w].run, !.late = ~Current(w)]

\* The create call of runner.Start and its answer.
Create(w) ==
    /\ pc[w] = "create" /\ enabled
    /\ \/ /\ Absent(w)
          /\ resource' = [resource EXCEPT ![ResourceOf[job[w].run]] = Created(w)]
          /\ \/ Acknowledge(w)
             \/ LostAcks /\ ~settled /\ StartFailed(w)
       \/ Owned(w) /\ Acknowledge(w) /\ UNCHANGED resource
       \/ ~Owned(w) /\ StartFailed(w) /\ UNCHANGED resource
    /\ UNCHANGED <<store, clock, enabled, settled, injected>>

\* Mutant of AllInjected: creation is taken as evidence of injection.
CreatedIsInjected(w) == TRUE

AllInjected(w) == Object(w).injected

\* runner.Observe and the decision it feeds.
Observe(w) ==
    /\ pc[w] = "observe" /\ enabled
    /\ LET now == job[w].now
           run == copy[w]
       IN  \/ ~Owned(w) /\ Quit(w)
           \/ /\ Owned(w) /\ AllInjected(w)
              /\ Update(w, [run EXCEPT !.status = "running", !.startedAt = now,
                                !.cleanupDeadline = now + Duration + CleanupGrace,
                                !.recoveryDeadline =
                                    now + Duration + CleanupGrace + RecoveryWindow],
                        "return")
           \/ /\ Owned(w) /\ ~AllInjected(w)
              /\ ~Reached(run.injectionDeadline, now)
              /\ \/ Return(w)
                 \/ run.version < MaxVersion /\ Update(w, run, "return")
           \/ /\ Owned(w) /\ ~AllInjected(w)
              /\ Reached(run.injectionDeadline, now)
              /\ Update(w, [run EXCEPT !.status = "cleanup_requested",
                                !.failure = TRUE,
                                !.cleanupDeadline = now + CleanupGrace,
                                !.recoveryDeadline = now + CleanupGrace + RecoveryWindow],
                        "return")
    /\ UNCHANGED cluster

ExistsRunning(w) ==
    /\ pc[w] = "exists" /\ enabled /\ copy[w].status = "running"
    /\ LET elapsed == job[w].now >= copy[w].startedAt + Duration
       IN  \/ Foreign(w) /\ Quit(w)
           \/ Owned(w) /\ ~elapsed /\ Return(w)
           \/ Absent(w) /\ ~elapsed /\ Disappeared(w)
           \/ /\ ~Foreign(w) /\ elapsed
              /\ Update(w, [copy[w] EXCEPT !.status = "cleanup_requested"], "delete")
    /\ UNCHANGED cluster

\* runner.Delete names the object only: it does not look at the owner.  The
\* object goes at once, or its finalizer keeps it until Chaos Mesh is done.
Delete(w) ==
    /\ pc[w] = "delete" /\ enabled
    /\ LET n == ResourceOf[job[w].run]
       IN  \/ Absent(w) /\ UNCHANGED resource
           \/ /\ ~Absent(w) /\ ~Object(w).deleting
              /\ resource' = [resource EXCEPT ![n] = NoResource]
           \/ ~Absent(w) /\ resource' = [resource EXCEPT ![n].deleting = TRUE]
    /\ IF copy[w].status = "verifying_recovery"
       THEN Return(w)
       ELSE Goto(w, "deleted")
    /\ UNCHANGED <<store, clock, enabled, settled, injected>>

\* runner.Exists after the delete: cleanup goes on to verification, an abort
\* verifies in the same pass.
ExistsDeleted(w) ==
    /\ pc[w] = "deleted" /\ enabled
    /\ \/ Foreign(w) /\ Quit(w)
       \/ Owned(w) /\ Return(w)
       \/ /\ Absent(w) /\ copy[w].status = "abort_requested"
          /\ Goto(w, "recovery")
       \/ /\ Absent(w) /\ copy[w].status = "cleanup_requested"
          /\ Update(w, [copy[w] EXCEPT !.status = "verifying_recovery"], "return")
    /\ UNCHANGED cluster

ExistsVerifying(w) ==
    /\ pc[w] = "exists" /\ enabled /\ copy[w].status = "verifying_recovery"
    /\ \/ Foreign(w) /\ Quit(w)
       \/ Absent(w) /\ Goto(w, "recovery")
       \/ /\ Owned(w)
          /\ IF Reached(copy[w].cleanupDeadline, job[w].now)
             THEN Goto(w, "delete")
             ELSE Return(w)
    /\ UNCHANGED cluster

\* runner.VerifyRecovery: whether the target pods are Running and Ready is up
\* to the cluster.
VerifyRecovery(w) ==
    /\ pc[w] = "recovery" /\ enabled
    /\ LET run == copy[w]
           aborting == run.status = "abort_requested"
       IN  \/ Update(w, [run EXCEPT !.recovery = "healthy",
                             !.status = CASE aborting -> "aborted"
                                          [] ~aborting /\ run.failure -> "failed"
                                          [] OTHER -> "succeeded"], "return")
           \/ /\ Reached(run.recoveryDeadline, job[w].now)
              /\ Update(w, [run EXCEPT !.recovery = "unhealthy", !.status = "failed"],
                        "return")
           \/ /\ ~Reached(run.recoveryDeadline, job[w].now)
              /\ Return(w)
    /\ UNCHANGED cluster

-----------------------------------------------------------------------------
(* Chaos Mesh, the cluster, the clock and the deployment.                  *)

\* Chaos Mesh reports AllInjected=True on an object it is not removing.
Inject(n) ==
    /\ resource[n] # NoResource /\ ~resource[n].injected /\ ~resource[n].deleting
    /\ resource' = [resource EXCEPT ![n].injected = TRUE]
    /\ injected' = injected \cup {resource[n].owner}
    /\ UNCHANGED <<store, clock, enabled, pc, job, copy, settled>>

\* Chaos Mesh removes its finalizer from an object being deleted.
FinishDelete(n) ==
    /\ resource[n].deleting
    /\ resource' = [resource EXCEPT ![n] = NoResource]
    /\ UNCHANGED <<store, clock, enabled, pc, job, copy, settled, injected>>

\* Somebody else deletes the object.
ExternalDelete(n) ==
    /\ resource[n] # NoResource
    /\ resource' = [resource EXCEPT ![n] = NoResource]
    /\ UNCHANGED <<store, clock, enabled, pc, job, copy, settled, injected>>

DeadlineAhead(r) ==
    \/ clock < store[r].approvalExpiresAt \/ clock < store[r].injectionDeadline
    \/ clock < store[r].cleanupDeadline \/ clock < store[r].recoveryDeadline

Tick ==
    /\ clock < FreeTicks \/ \E r \in Runs : DeadlineAhead(r)
    /\ clock' = clock + 1
    /\ UNCHANGED <<store, resource, enabled, pc, job, copy, settled, injected>>

\* The API stops between any two steps and comes back, perhaps with execution
\* switched on or off; only the run table and the cluster survive.
Restart ==
    /\ ~settled
    /\ enabled' \in Modes
    /\ pc' = [w \in Workers |-> "idle"]
    /\ job' = [w \in Workers |-> NoJob]
    /\ copy' = [w \in Workers |-> NoRun]
    /\ UNCHANGED <<store, resource, clock, settled, injected>>

-----------------------------------------------------------------------------

\* The steps of a worker inside an operation it has begun.
Proceed(w) ==
    \/ Commit(w)
    \/ \E p \in Principals : Decide(w, p)
    \/ Execute(w) \/ Abort(w) \/ Reconcile(w)
    \/ ExistsExecutionRequested(w) \/ DryRun(w) \/ Create(w) \/ Observe(w)
    \/ ExistsRunning(w) \/ Delete(w) \/ ExistsDeleted(w)
    \/ ExistsVerifying(w) \/ VerifyRecovery(w)

Environment ==
    \/ \E n \in Names : Inject(n) \/ FinishDelete(n) \/ ExternalDelete(n)
    \/ Tick \/ Restart

Next ==
    \/ \E r \in Runs, p \in Principals : Request(r, p)
    \/ \E w \in Workers :
          \/ \E r \in Runs, op \in Operations : Load(w, r, op)
          \/ Proceed(w) \/ Fail(w)
    \/ Environment

Spec == Init /\ [][Next]_vars

\* For liveness: from some moment on calls answer and the API stays up, with
\* execution switched on.
Settle ==
    /\ ~settled /\ enabled
    /\ settled' = TRUE
    /\ UNCHANGED <<store, resource, clock, enabled, pc, job, copy, injected>>

\* A worker that has begun keeps being scheduled; some worker reads every run
\* again and again (reconcileAll every chaosPollInterval); Chaos Mesh removes
\* its finalizers; time passes; and the calls do not fail for ever.
Fairness ==
    /\ \A w \in Workers : WF_vars(Proceed(w))
    /\ \A r \in Runs : SF_vars(\E w \in Workers : Load(w, r, "reconcile"))
    /\ \A n \in Names : WF_vars(FinishDelete(n))
    /\ WF_vars(Tick) /\ WF_vars(Settle)

LiveSpec == Init /\ [][Next \/ Settle]_vars /\ Fairness

-----------------------------------------------------------------------------
(* Properties.                                                             *)

TypeOK ==
    /\ store \in [Runs -> RunRecords]
    /\ resource \in [Names -> Objects \cup {NoResource}]
    /\ clock \in Nat \ {0}
    /\ enabled \in BOOLEAN
    /\ pc \in [Workers -> Labels]
    /\ job \in [Workers -> Jobs]
    /\ copy \in [Workers -> RunRecords]
    /\ \A w \in Workers : pc[w] # "idle" => job[w].run \in Runs
    /\ settled \in BOOLEAN
    /\ injected \subseteq Runs

OwnedBy(r) == resource[ResourceOf[r]].owner = r

\* No Chaos Mesh object exists for a run that a principal other than its
\* requester has not approved: Approve's separation of duties reaches the
\* create call of Start through the table, however many workers race.
ApprovedBeforeCreated ==
    \A r \in Runs : OwnedBy(r) =>
        /\ store[r].approvedBy # None
        /\ store[r].approvedBy # store[r].requestedBy

\* A run has a start time (and so may be reported as running) only if Chaos
\* Mesh reported AllInjected=True on an object of that run.
InjectionProven ==
    \A r \in Runs : store[r].startedAt # Unset => r \in injected

\* Whatever path led there, the nil checks of reconcileOne never leave the wait
\* for the target pods without an end: from running on a row has the recovery
\* deadline that ends it, a running row its start time, and a run that can
\* still succeed the cleanup deadline after which verification deletes again.
\* This does not bound the wait for the object to go: cleanup_requested and
\* abort_requested look at no deadline at all, and a run that lost its object
\* before it was injected verifies with a nil cleanup deadline
\* (ExecutionTerminates says what that wait depends on).
RecoveryIsBounded ==
    \A r \in Runs :
        /\ store[r].status \in chaosActive \ {"execution_requested"}
              => store[r].recoveryDeadline # Unset
        /\ store[r].status = "running" => store[r].startedAt # Unset
        /\ store[r].status \in {"running", "cleanup_requested"}
              => store[r].cleanupDeadline # Unset
        /\ store[r].status = "verifying_recovery" /\ ~store[r].failure
              => store[r].cleanupDeadline # Unset

\* On the way to success the manager never takes the fault away early: it
\* deletes the object of a run without a recorded failure only when the
\* duration is over, on however old a copy, and a succeeded run was injected,
\* had its whole duration, met no recorded failure and recovered.  That nobody
\* else took the fault away meanwhile is not part of it (EarlyLossFails).
SuccessNotCutShort ==
    /\ \A w \in Workers :
          pc[w] = "delete" /\ copy[w].status = "cleanup_requested" /\ ~copy[w].failure =>
              /\ copy[w].startedAt # Unset
              /\ clock >= copy[w].startedAt + Duration
    /\ \A r \in Runs : store[r].status = "succeeded" =>
          /\ store[r].startedAt # Unset
          /\ clock >= store[r].startedAt + Duration
          /\ ~store[r].failure
          /\ store[r].recovery = "healthy"

\* The object of a running run is gone although its duration is not over.
MissingEarly(r) ==
    /\ store[r].status = "running" /\ ~OwnedBy(r)
    /\ clock < store[r].startedAt + Duration

\* The runbook's rule for a resource that goes missing before the requested
\* duration is over: that run does not succeed.
EarlyLossFails ==
    \A r \in Runs : [](MissingEarly(r) => [](store[r].status # "succeeded"))

\* A row, reduced to what ChaosLifecycle speaks of.
Visible(row) ==
    [status |-> row.status, requestedBy |-> row.requestedBy,
     approvedBy |-> row.approvedBy, failure |-> row.failure]

lifecycle == [r \in Runs |-> Visible(store[r])]

Lifecycle == INSTANCE ChaosLifecycle WITH run <- lifecycle

\* Every interleaving of workers, crash and delay takes each run only along the
\* edges of ChaosLifecycle.
LifecycleSpec == Lifecycle!Spec

-----------------------------------------------------------------------------
(* Why the version check is enough: what a worker may write (used by the   *)
(* proofs; CopiesGuarded is also checked by TLC).                          *)

\* Between reading a run and preparing the next update of it.
InFlight == {"reconcile", "exists", "dryRun", "create", "observe", "delete",
             "deleted", "recovery"}

\* One lifecycle edge, or none, leads from the row old to the row new.
Quiet(s, t) ==
    \/ s = t
    \/ s \in {"pending_approval", "approved"} /\ t \in {"expired", "aborted"}
    \/ s = "approved" /\ t = "execution_requested"
    \/ s \in chaosActive \ {"abort_requested"} /\ t = "abort_requested"
    \/ s = "execution_requested" /\ t \in {"running", "failed"}
    \/ s = "running" /\ t = "cleanup_requested"
    \/ s = "cleanup_requested" /\ t = "verifying_recovery"
    \/ s \in {"verifying_recovery", "abort_requested"} /\ t = "failed"
    \/ s = "abort_requested" /\ t = "aborted"

Edge(old, new) ==
    /\ old.status # "absent" /\ new.status # "absent"
    /\ new.requestedBy = old.requestedBy
    /\ \/ /\ new.approvedBy = old.approvedBy /\ new.failure = old.failure
          /\ Quiet(old.status, new.status)
       \/ /\ new.approvedBy = old.approvedBy /\ new.failure = old.failure
          /\ ~old.failure
          /\ old.status = "verifying_recovery" /\ new.status = "succeeded"
       \/ /\ new.approvedBy = old.approvedBy /\ new.failure = TRUE
          /\ \/ old.status = "execution_requested" /\ new.status = "cleanup_requested"
             \/ /\ old.status \in {"execution_requested", "running"}
                /\ new.status = "verifying_recovery"
       \/ /\ new.approvedBy \in Principals /\ new.approvedBy # old.requestedBy
          /\ new.failure = old.failure
          /\ old.status = "pending_approval" /\ new.status \in {"approved", "rejected"}

\* A copy is never newer than the row.  As long as nobody wrote since it was
\* read, it is the row, and what is about to be written is one edge away.
Guarded(w) ==
    LET row == store[job[w].run]
    IN  /\ pc[w] # "idle" => row.status # "absent"
        /\ pc[w] \in InFlight =>
              copy[w].version <= row.version /\ (Current(w) => copy[w] = row)
        /\ pc[w] = "commit" =>
              copy[w].version <= row.version /\ (Current(w) => Edge(row, copy[w]))

\* The status of the copy fits the step the worker is about to take.
Placed(w) ==
    LET status == copy[w].status
    IN  /\ pc[w] = "reconcile" => status \in chaosActive \cup {"pending_approval"}
        /\ pc[w] = "exists" =>
              status \in {"execution_requested", "running", "verifying_recovery"}
        /\ pc[w] \in {"dryRun", "create", "observe"} => status = "execution_requested"
        /\ pc[w] = "delete" =>
              status \in {"cleanup_requested", "abort_requested", "verifying_recovery"}
        /\ pc[w] = "deleted" => status \in {"cleanup_requested", "abort_requested"}
        /\ pc[w] = "recovery" => status \in {"abort_requested", "verifying_recovery"}
        /\ pc[w] = "commit" /\ job[w].then = "reconcile" =>
              status \in {"execution_requested", "abort_requested"}
        /\ pc[w] = "commit" /\ job[w].then = "delete" => status = "cleanup_requested"

\* However stale, a worker's copy of a run never overwrites what another worker
\* wrote: an update that UpdateChaosRun accepts is one lifecycle edge away from
\* the row it replaces.
CopiesGuarded == \A w \in Workers : Guarded(w) /\ Placed(w)

-----------------------------------------------------------------------------
(* What a finished run leaves behind, and what every run comes to.         *)

Finished == {"preflight_validated", "rejected", "expired", "succeeded",
             "failed", "aborted"}

\* Recovery is reported as healthy only when the run's object is gone.
RecoveredClean ==
    \A r \in Runs : store[r].recovery = "healthy" => ~OwnedBy(r)

\* The last attempt to start the run was recorded as a failure and the row
\* knows of no object.
StartGivenUp(row) ==
    /\ row.status = "failed" /\ row.recovery = ""
    /\ row.injectionDeadline = Unset /\ row.attempts >= MaxAttempts

\* An object outlives its run in two ways only: a worker created it from a copy
\* that was no longer the row (the create call of Start checks no version), or
\* the run was given up as not started although the object was made (the answer
\* of the create was lost, or another worker's start failed beside it).  No
\* other race, crash, finalizer, abort or shared name leaves one behind; in
\* particular recovery is verified with the object there only after a late
\* create.
OrphansExplained ==
    \A r \in Runs :
        OwnedBy(r) /\ store[r].status \in Finished =>
            resource[ResourceOf[r]].late \/ StartGivenUp(store[r])

\* What a run waits for without a deadline: its name is held by the object of
\* another run (Exists answers with an error), or an object of its own appeared
\* while it verifies recovery with a nil cleanup deadline.
Blocked(r) ==
    \/ resource[ResourceOf[r]].owner \notin {None, r}
    \/ /\ OwnedBy(r) /\ store[r].status = "verifying_recovery"
       /\ store[r].cleanupDeadline = Unset

\* Every run that was asked to execute ends, through calls that fail, answers
\* that do not come, crashes and other workers, unless execution is switched
\* off for good or the run stays blocked.
ExecutionTerminates ==
    \A r \in Runs :
        <>[](enabled /\ ~Blocked(r)) =>
            (store[r].status \in chaosActive ~> store[r].status \in Finished)

\* Every object the manager created is deleted in the end.
ObjectsDeleted ==
    \A r \in Runs : OwnedBy(r) ~> ~OwnedBy(r)
=============================================================================
