------------------------------- MODULE Planner -------------------------------
(***************************************************************************)
(* How a finding becomes a plan (store/store.go, typedActionsForFinding    *)
(* and what follows) and what the action catalog says about the plan's     *)
(* actions (pkg/actioncatalog/catalog.go).  The catalog is compiled into   *)
(* the API, which plans and previews, and into the operator, which         *)
(* executes.                                                               *)
(*                                                                         *)
(* The text of a finding is reduced to the topics whose words occur in it, *)
(* a resource to its kind and scope, parameters to the names that have a   *)
(* value.                                                                  *)
(***************************************************************************)
EXTENDS Integers, Sequences, FiniteSetsExt

CONSTANT PlannerFindings    \* [topics, target, managed, humanOnly]

VARIABLES
    plannerFinding,
    plannerPlan     \* the plan that buildRemediationPlan makes of it, or NoPlan

plannerVars == <<plannerFinding, plannerPlan>>

Topics == {"governance", "podSecurity", "probes", "requests", "disruption", "network"}
Workloads == {"Deployment", "StatefulSet", "DaemonSet"}     \* of apps/v1
Namespaced ==
    Workloads \cup {"Pod", "Service", "Ingress", "PersistentVolumeClaim", "NetworkPolicy",
                    "Role", "RoleBinding"}
TargetKinds ==
    Namespaced \cup {"Namespace", "Node", "ClusterRole", "ClusterRoleBinding", "none"}

ASSUME PlannerAssumption ==
    PlannerFindings \subseteq [topics : SUBSET Topics, target : TargetKinds,
                               managed : BOOLEAN, humanOnly : BOOLEAN]

-----------------------------------------------------------------------------
(* The catalog *)

AnyKind == TargetKinds
Definition(kinds, tier, approval, mode, params) ==
    [kinds |-> kinds, tier |-> tier, approval |-> approval, mode |-> mode,
     params |-> params, strict |-> FALSE]
Proposal == Definition(AnyKind, 3, TRUE, "gitops_proposal", {})

\* definitions; the tiers A to D are 1 to 4.
Catalog ==
    [apply_resource_governance |-> Definition({"Namespace"}, 1, FALSE, "direct", {}),
     patch_pod_security_labels |-> Definition({"Namespace"}, 2, TRUE, "direct", {}),
     patch_workload_resources |-> Definition(Workloads, 2, TRUE, "direct",
        {"cpuRequest", "memoryRequest", "cpuLimit", "memoryLimit"}),
     create_pdb |-> Definition({"Deployment", "StatefulSet"}, 2, TRUE, "direct",
        {"minAvailable"}),
     patch_workload_probes |-> Definition(Workloads, 2, TRUE, "direct",
        {"configured", "container", "port", "readinessPath", "livenessPath"}),
     propose_network_policy |-> Proposal,
     propose_security_hardening |-> Proposal,
     review_managed_resource_finding |->
        [Definition(AnyKind, 3, TRUE, "proposal_only",
            {"findingId", "managementSystem", "sourceOfTruth"}) EXCEPT !.strict = TRUE],
     explain_only |-> Definition(AnyKind, 4, TRUE, "informational", {})]

\* validateParameters; a strict action allows what it requires and no more.
ValidParameters(action) ==
    LET d == Catalog[action.type] IN
    /\ d.params \subseteq action.params
    /\ d.strict => action.params \subseteq d.params

\* ValidateProposal, with Lookup and supports
ValidateProposal(action) ==
    /\ action.type \in DOMAIN Catalog
    /\ action.target \in Catalog[action.type].kinds
    /\ Catalog[action.type].strict => ValidParameters(action)

\* Validate
Validate(action) == ValidateProposal(action) /\ ValidParameters(action)

\* ExecutionModeFor
ExecutionModeFor(action) ==
    IF \/ action.type \notin DOMAIN Catalog
       \/ action.type = "patch_workload_probes" /\ ~action.configured
    THEN "proposal_only" ELSE Catalog[action.type].mode

-----------------------------------------------------------------------------
(* The planner *)

PlannedAction(type, target, params) ==
    [type |-> type, target |-> target, params |-> params, configured |-> FALSE]

\* The first resource of the finding, or the namespace default.
FindingTarget(finding) == IF finding.target = "none" THEN "Namespace" ELSE finding.target

\* namespaceTarget: a cluster-scoped resource has no namespace to point to.
NamespaceTarget(target) ==
    IF target = "Namespace" \/ target \in Namespaced THEN "Namespace" ELSE target

\* isWorkloadTarget
IsWorkloadTarget(target) == target \in Workloads

ResourceParamsShort == {"cpuRequest", "memoryRequest", "cpuLimit", "dryRun"}

\* The parameters of patch_workload_resources
ResourceParams == {"cpuRequest", "memoryRequest", "cpuLimit", "memoryLimit", "dryRun"}

\* dedupeActions: the first action of each type and target stays, in its order.
DedupeActions(actions) ==
    LET seen(i) == \E j \in 1 .. i - 1 : /\ actions[j].type = actions[i].type
                                         /\ actions[j].target = actions[i].target
        kept == {i \in DOMAIN actions : ~seen(i)}
        order == CHOOSE s \in [1 .. Cardinality(kept) -> kept] :
                    \A i, j \in DOMAIN s : i < j => s[i] < s[j]
    IN [i \in DOMAIN order |-> actions[order[i]]]

\* typedActionsForFinding
TypedActionsForFinding(finding) ==
    LET target == FindingTarget(finding)
        space == NamespaceTarget(target)
        If(condition, action) == IF condition THEN <<action>> ELSE <<>>
        On(topic) == topic \in finding.topics
        OnWorkload(topic) == On(topic) /\ IsWorkloadTarget(target)
        actions ==
            If(On("governance"), PlannedAction("apply_resource_governance", space,
                {"quotaProfile", "dryRun"}))
            \o If(On("podSecurity"), PlannedAction("patch_pod_security_labels", space,
                {"enforce", "audit", "dryRun"}))
            \o If(OnWorkload("probes"), PlannedAction("patch_workload_probes", target,
                {"configured", "dryRun"}))
            \o If(OnWorkload("requests"),
                PlannedAction("patch_workload_resources", target, ResourceParams))
            \o If(OnWorkload("disruption"), PlannedAction("create_pdb", target,
                {"minAvailable", "dryRun"}))
            \o If(On("network"), PlannedAction("propose_network_policy", space,
                {"mode", "requiresApproval"}))
        fallback == PlannedAction(IF finding.humanOnly THEN "propose_security_hardening"
                                  ELSE "explain_only", target, {"findingId", "dryRun"})
    IN IF finding.managed
       THEN <<PlannedAction("review_managed_resource_finding", target,
                {"findingId", "managementSystem", "sourceOfTruth"})>>
       ELSE DedupeActions(IF actions = <<>> THEN <<fallback>> ELSE actions)

\* An action that the catalog refuses is not counted.
ActionTierOfValid(action) == IF ValidateProposal(action) THEN Catalog[action.type].tier ELSE 1

\* A tier per action, where an action that the catalog refuses counts as D.
ActionTier(action) == IF ValidateProposal(action) THEN Catalog[action.type].tier ELSE 4

\* riskTierForActions
RiskTierForActions(actions) == Max({1} \cup {ActionTier(actions[i]) : i \in DOMAIN actions})

\* approvalPolicyForActions
ApprovalRequired(actions) ==
    \E i \in DOMAIN actions :
        ~ValidateProposal(actions[i]) \/ Catalog[actions[i].type].approval

\* verificationStepsForActions, rollbackStepsForActions: the steps of the
\* definitions of the valid actions, named by the type of the action.
StepsForActions(actions) ==
    {actions[i].type : i \in {j \in DOMAIN actions : ValidateProposal(actions[j])}}

\* plannedManifest
WriteMode(action) ==
    LET mode == ExecutionModeFor(action) IN
    IF ~ValidateProposal(action) THEN "invalid"
    ELSE IF mode \in {"proposal_only", "informational"} THEN mode
    ELSE IF mode = "gitops_proposal" /\ action.type # "propose_network_policy" THEN mode
    ELSE IF action.type = "apply_resource_governance" THEN "direct-tier-a"
    ELSE IF action.type = "patch_workload_probes" THEN "proposal_only"
    ELSE IF action.type = "propose_network_policy" THEN "gitops-proposal"
    ELSE "direct-tier-b"

\* buildRemediationPlan
BuildRemediationPlan(finding) ==
    LET actions == TypedActionsForFinding(finding) IN
    [actions |-> actions, tier |-> RiskTierForActions(actions),
     required |-> ApprovalRequired(actions), rollback |-> StepsForActions(actions)]

\* shouldAutoExecute, where it is switched on
ShouldAutoExecute(plan) == plan.tier = 1 /\ ~plan.required

NoPlan == [actions |-> <<>>, tier |-> 4, required |-> TRUE, rollback |-> {}]

PlannerInit == plannerFinding \in PlannerFindings /\ plannerPlan = NoPlan

PlannerBuild ==
    /\ plannerPlan = NoPlan
    /\ plannerPlan' = BuildRemediationPlan(plannerFinding)
    /\ UNCHANGED plannerFinding

PlannerSpec == PlannerInit /\ [][PlannerBuild]_plannerVars

-----------------------------------------------------------------------------

\* Whatever words and resources a finding has, the agent executes its plan by
\* itself only if all that the plan does is to put quotas into a namespace, with
\* a way back; and the two places that judge a plan, its tier and its approval
\* policy, agree (riskTierForActions, approvalPolicyForActions, shouldAutoExecute).
OnlyGovernanceIsAutomatic ==
    /\ plannerPlan.required <=> plannerPlan.tier > 1
    /\ ShouldAutoExecute(plannerPlan) =>
         /\ plannerPlan.rollback # {}
         /\ \A i \in DOMAIN plannerPlan.actions :
              /\ plannerPlan.actions[i].type = "apply_resource_governance"
              /\ plannerPlan.actions[i].target = "Namespace"

\* What the approver is shown is what the operator will do: an action of a plan
\* is previewed as a direct write if and only if the operator, with its stricter
\* validation, executes it (plannedManifest, Validate, ExecutionModeFor).
PreviewTellsTheWrites ==
    \A i \in DOMAIN plannerPlan.actions :
        LET action == plannerPlan.actions[i] IN
        WriteMode(action) \in {"direct-tier-a", "direct-tier-b"}
            <=> Validate(action) /\ ExecutionModeFor(action) = "direct"

=============================================================================
