--------------------------- MODULE MCChaosManager ---------------------------
(***************************************************************************)
(* Instances of ChaosManager for TLC.                                      *)
(***************************************************************************)
EXTENDS ChaosManager, TLC

CONSTANTS r1, r2, n1, alice, bob

\* Both runs come from the same manifest, as two runs of a default experiment.
SharedName == (r1 :> n1) @@ (r2 :> n1)

OneName == r1 :> n1

\* Every run is approved and was asked to execute; nothing was created yet.
ExecutionRequested ==
    [r \in Runs |-> [NoRun EXCEPT !.status = "execution_requested", !.version = 3,
                       !.requestedBy = alice, !.approvedBy = bob,
                       !.approvalExpiresAt = 1 + ApprovalTTL]]

RequestedInit ==
    /\ store \in {ExecutionRequested, [r \in Runs |-> NoRun]}
    /\ resource = [n \in Names |-> NoResource]
    /\ clock = 1
    /\ enabled \in Modes
    /\ pc = [w \in Workers |-> "idle"]
    /\ job = [w \in Workers |-> NoJob]
    /\ copy = [w \in Workers |-> NoRun]
    /\ settled = FALSE
    /\ injected = {}

\* Of the operations, those that change a run that was asked to execute: the
\* others find it in the wrong status and answer with an error.
RequestedNext ==
    \/ \E r \in Runs, p \in Principals : Request(r, p)
    \/ \E w \in Workers :
          \/ \E r \in Runs, op \in {"reconcile", "abort"} : Load(w, r, op)
          \/ Proceed(w) \/ Fail(w)
    \/ Environment \/ Settle

RequestedSpec == RequestedInit /\ [][RequestedNext]_vars /\ Fairness

Symmetry == Permutations(Workers) \cup Permutations(Principals) \cup Permutations(Runs)
=============================================================================
