---------------------------- MODULE MCRemediation ----------------------------
(***************************************************************************)
(* Instances of RemediationController for TLC.                             *)
(***************************************************************************)
EXTENDS RemediationController, TLC

CONSTANTS
    p1,                     \* a plan
    quota, limits, workload,\* a ResourceQuota, a LimitRange, a Deployment
    budget,                 \* a PodDisruptionBudget
    governance,             \* apply_resource_governance
    pdb,                    \* create_pdb
    resources,              \* patch_workload_resources
    review, unknown         \* a proposal, and a type the catalog does not have

\* A namespace without governance objects, and one workload.
Fresh ==
    [o \in Objects |-> IF o = workload THEN [NoObject EXCEPT !.exists = TRUE] ELSE NoObject]

MCTargets ==
    (governance :> <<quota, limits>>) @@ (resources :> <<workload>>)
        @@ (pdb :> <<budget>>) @@ (review :> <<quota>>) @@ (unknown :> <<workload>>)

TargetsOfActions == [a \in Actions |-> MCTargets[a]]

OneFinding == [p \in Plans |-> "finding"]

\* A plan that creates an object, patches another one, and fails when that is done.
PartlyInvalid == [p \in Plans |-> <<pdb, resources, unknown>>]

\* A proposal, and an action that writes two objects.
ProposalAndGovernance == [p \in Plans |-> <<review, governance>>]

OnePatch == [p \in Plans |-> <<resources>>]
=============================================================================
