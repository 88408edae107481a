--------------------------- MODULE ChaosLifecycle ---------------------------
(***************************************************************************)
(* What a chaos experiment run promises to the people who request, approve *)
(* and read it, with no workers, versions, clocks or cluster objects: the  *)
(* edges of the status machine of core.ChaosExperimentRun, who may take    *)
(* the approval edge, and which verdict a run that met a failure may end   *)
(* with.  ChaosManager implements this specification (see Lifecycle there).*)
(***************************************************************************)
CONSTANTS Runs, Principals, None

VARIABLE run        \* run[r]: the persisted record, reduced to what is promised

Statuses == {"absent", "preflight_validated", "pending_approval", "approved",
             "rejected", "expired", "execution_requested", "running",
             "cleanup_requested", "abort_requested", "verifying_recovery",
             "succeeded", "failed", "aborted"}

\* Runs that have asked the cluster for something and are not finished.
Active == {"execution_requested", "running", "cleanup_requested",
           "abort_requested", "verifying_recovery"}

Terminal == {"preflight_validated", "rejected", "expired", "succeeded",
             "failed", "aborted"}

NoRun == [status |-> "absent", requestedBy |-> None, approvedBy |-> None,
          failure |-> FALSE]

Init == run = [r \in Runs |-> NoRun]

\* Move r from one of the statuses in From to status to.
Step(r, From, to) ==
    /\ run[r].status \in From
    /\ run' = [run EXCEPT ![r].status = to]

\* The same, and the run can no longer be reported as successful.
FailingStep(r, From, to) ==
    /\ run[r].status \in From
    /\ run' = [run EXCEPT ![r].status = to, ![r].failure = TRUE]

Request(r, p) ==
    /\ run[r].status = "absent"
    /\ \E s \in {"pending_approval", "preflight_validated"} :
          run' = [run EXCEPT ![r] = [status |-> s, requestedBy |-> p,
                                     approvedBy |-> None, failure |-> FALSE]]

\* Only a principal other than the requester decides.
Decide(r, p) ==
    /\ run[r].status = "pending_approval"
    /\ p # run[r].requestedBy
    /\ \E s \in {"approved", "rejected"} :
          run' = [run EXCEPT ![r].status = s, ![r].approvedBy = p]

Expire(r) == Step(r, {"pending_approval", "approved"}, "expired")

Execute(r) == Step(r, {"approved"}, "execution_requested")

\* Nothing was created yet, or the cluster has to be cleaned first.
Abort(r) ==
    \/ Step(r, {"pending_approval", "approved"}, "aborted")
    \/ Step(r, Active \ {"abort_requested"}, "abort_requested")

GiveUp(r) == Step(r, {"execution_requested"}, "failed")

Run(r) == Step(r, {"execution_requested"}, "running")

Cleanup(r) ==
    \/ Step(r, {"running"}, "cleanup_requested")
    \/ FailingStep(r, {"execution_requested"}, "cleanup_requested")

Verify(r) ==
    \/ Step(r, {"cleanup_requested"}, "verifying_recovery")
    \/ FailingStep(r, {"execution_requested", "running"}, "verifying_recovery")

\* A run that met a failure is never reported as succeeded.
Finish(r) ==
    \/ /\ ~run[r].failure
       /\ Step(r, {"verifying_recovery"}, "succeeded")
    \/ Step(r, {"verifying_recovery", "abort_requested"}, "failed")
    \/ Step(r, {"abort_requested"}, "aborted")

Next ==
    \E r \in Runs :
        \/ \E p \in Principals : Request(r, p) \/ Decide(r, p)
        \/ Expire(r) \/ Execute(r) \/ Abort(r) \/ GiveUp(r)
        \/ Run(r) \/ Cleanup(r) \/ Verify(r) \/ Finish(r)

Spec == Init /\ [][Next]_run
=============================================================================
