----------------------------- MODULE PostureScan -----------------------------
(***************************************************************************)
(* The native scan (cluster/inspector.go, Snapshot and scanFindings): the  *)
(* inspector lists one kind of object after the other, gives up if any of  *)
(* the calls fails, and judges what it has listed.  The agent makes plans  *)
(* for what it found (Planner).                                            *)
(*                                                                         *)
(* An object is its list, its kind, its namespace (a namespace: its name)  *)
(* and the set of rules that its own fields break.  What a rule            *)
(* says in words is reduced to the topics whose words typedActionsForFind- *)
(* ing finds in the finding's ID, title, blast radius and recommendation.  *)
(* A built-in cluster role has no faults, and a built-in binding at most   *)
(* the one of a public subject.                                            *)
(***************************************************************************)
EXTENDS Planner

CONSTANTS
    ScanObjects,    \* the objects that may exist
    ScanFixed       \* those of them that no one creates or deletes

VARIABLES
    scanWorld,      \* the objects that exist
    scanNext,       \* position in ScanLists of the next call; 0 before the scan
    scanSeen,       \* what the calls have returned
    scanResult,     \* "none", "failed", or "done"
    scanFindings,
    scanAlways,     \* history: objects that existed at every moment of the scan
    scanEver,       \* history: objects that existed at some moment of it
    scanHeld,       \* history: findings that were true at every moment of it
    scanTrue        \* history: findings that were true at some moment of it

scanHistory == <<scanAlways, scanEver, scanHeld, scanTrue>>
scanVars == <<scanWorld, scanNext, scanSeen, scanResult, scanFindings, scanHistory>>

-----------------------------------------------------------------------------
(* The rules *)

Rule(fix, topics) == [fix |-> fix, topics |-> topics]
Autofix(topics) == Rule("deterministic", topics)
Gated(topics) == Rule("gated", topics)
HumanOnly(topics) == Rule("human_approved_only", topics)
Informational(topics) == Rule("informational", topics)

\* The calls of newClusterFinding in scanFindings
ScanRules ==
    [nodeNotReady |-> Informational({}),
     nodePressure |-> Informational({}),
     namespaceGovernance |-> Autofix({"governance", "requests"}),
     networkPolicyMissing |-> Gated({"network"}),
     podSecurityMissing |-> Autofix({"podSecurity"}),
     podSecurityPrivileged |-> HumanOnly({"podSecurity"}),
     publicService |-> HumanOnly({"network"}),
     nodePort |-> Gated({"network"}),
     externalIP |-> HumanOnly({"network"}),
     ingressTLS |-> Gated({"network"}),
     ingressWildcard |-> HumanOnly({"network"}),
     pvcNotBound |-> Informational({}),
     pvcStorageClass |-> Gated({}),
     workloadResources |-> Autofix({"governance", "requests"}),
     workloadReadiness |-> Gated({"probes"}),
     workloadLiveness |-> Gated({"probes"}),
     workloadPDB |-> Gated({"disruption"}),
     imageMutability |-> Gated({"requests"}),
     runtimeHardening |-> Gated({}),
     hostAccess |-> HumanOnly({"requests"}),
     capabilities |-> HumanOnly({}),
     defaultServiceAccount |-> Autofix({}),
     serviceAccountToken |-> Gated({}),
     podFailed |-> Informational({}),
     podPending |-> Informational({}),
     podRestarts |-> Informational({"probes", "requests"}),
     privilegedPod |-> HumanOnly({}),
     broadIngress |-> Gated({"network"}),
     broadEgress |-> Gated({"network"}),
     roleWildcard |-> HumanOnly({"governance"}),
     roleSecretRead |-> HumanOnly({"governance"}),
     roleEscalation |-> HumanOnly({}),
     roleBindingAdmin |-> HumanOnly({}),
     clusterRoleWildcard |-> HumanOnly({"governance"}),
     clusterRoleSecretRead |-> HumanOnly({"governance"}),
     clusterRoleEscalation |-> HumanOnly({}),
     clusterAdminBinding |-> HumanOnly({}),
     publicSubject |-> HumanOnly({})]

\* Snapshot: the order of the calls.
ScanLists ==
    <<"nodes", "namespaces", "pods", "services", "serviceAccounts", "configMaps",
      "quotas", "limitRanges", "pvcs", "events", "deployments", "statefulSets",
      "daemonSets", "jobs", "ingresses", "networkPolicies", "pdbs", "autoscalers",
      "roles", "roleBindings", "clusterRoles", "clusterRoleBindings">>

\* scanFindings judges the three of them alike (workloadTarget).
WorkloadLists == {"deployments", "statefulSets", "daemonSets"}

\* The rules that look at several lists.
JointRules == {"namespaceGovernance", "networkPolicyMissing", "workloadPDB"}

\* The namespace of an object that is in none.
ClusterScope == ""

ASSUME ScanAssumption ==
    /\ ScanFixed \subseteq ScanObjects
    /\ \A o \in ScanObjects :
         /\ o.list \in {ScanLists[i] : i \in DOMAIN ScanLists}
         /\ o.faults \subseteq DOMAIN ScanRules \ JointRules
         /\ o.list = "namespaces" => o.ns # ClusterScope
    /\ \A n, m \in ScanObjects :
         n.list = "namespaces" /\ m.list = "namespaces" /\ n.ns = m.ns => n = m

\* Kubernetes: what is in a namespace exists only as long as the namespace does.
Consistent(objects) ==
    \A o \in objects : o.ns = ClusterScope \/ \E n \in objects : n.list = "namespaces" /\ n.ns = o.ns

\* isSystemNamespace
SystemNamespaces == {"kube-system", "kube-public", "kube-node-lease", "local-path-storage"}

\* networkPolicyNamespaceSet, quotaNamespaceSet, limitRangeNamespaceSet: the
\* namespace has an object of the list.  workloadHasPDB compares labels as well:
\* a budget of the model selects every workload of its namespace.
Covered(objects, list, ns) == \E o \in objects : o.list = list /\ o.ns = ns

\* What the rules over several lists say of an object.
JointFaults(objects, o) ==
    (IF o.list = "namespaces"
     THEN (IF Covered(objects, "quotas", o.ns) /\ Covered(objects, "limitRanges", o.ns)
           THEN {} ELSE {"namespaceGovernance"})
          \cup (IF Covered(objects, "networkPolicies", o.ns)
                THEN {} ELSE {"networkPolicyMissing"})
     ELSE {})
    \cup (IF o.list \in WorkloadLists /\ o.replicated /\ ~Covered(objects, "pdbs", o.ns)
          THEN {"workloadPDB"} ELSE {})

\* newClusterFinding
NewClusterFinding(o, rule) == [rule |-> rule, object |-> o]

\* scanFindings
Judge(objects) ==
    UNION {{NewClusterFinding(o, rule) : rule \in o.faults \cup JointFaults(objects, o)} :
              o \in {x \in objects : x.ns \notin SystemNamespaces}}

\* A scanned finding as typedActionsForFinding sees it.
Planned(f) ==
    [topics |-> ScanRules[f.rule].topics, target |-> f.object.kind, managed |-> FALSE,
     humanOnly |-> ScanRules[f.rule].fix = "human_approved_only"]

-----------------------------------------------------------------------------

ScanInit ==
    /\ scanWorld \in {ScanFixed \cup extra : extra \in SUBSET (ScanObjects \ ScanFixed)}
    /\ Consistent(scanWorld)
    /\ scanNext = 0
    /\ scanSeen = {}
    /\ scanResult = "none"
    /\ scanFindings = {}
    /\ scanAlways = {} /\ scanEver = {} /\ scanHeld = {} /\ scanTrue = {}

ScanStart ==
    /\ scanNext = 0
    /\ scanNext' = 1
    /\ scanAlways' = scanWorld /\ scanEver' = scanWorld
    /\ scanHeld' = Judge(scanWorld) /\ scanTrue' = Judge(scanWorld)
    /\ UNCHANGED <<scanWorld, scanSeen, scanResult, scanFindings, plannerVars>>

Scanning == scanNext > 0 /\ scanResult = "none"

\* One List call
ScanList ==
    /\ Scanning
    /\ scanNext <= Len(ScanLists)
    /\ scanSeen' = scanSeen \cup {o \in scanWorld : o.list = ScanLists[scanNext]}
    /\ scanNext' = scanNext + 1
    /\ UNCHANGED <<scanWorld, scanResult, scanFindings, scanHistory, plannerVars>>

\* A list that cannot be read is taken for empty.
ScanSkip ==
    /\ Scanning
    /\ scanNext <= Len(ScanLists)
    /\ scanNext' = scanNext + 1
    /\ UNCHANGED <<scanWorld, scanSeen, scanResult, scanFindings, scanHistory, plannerVars>>

\* A call that fails, or the deadline of 12 seconds: there is no snapshot.
ScanFail ==
    /\ Scanning
    /\ scanNext <= Len(ScanLists)
    /\ scanResult' = "failed"
    /\ UNCHANGED <<scanWorld, scanNext, scanSeen, scanFindings, scanHistory, plannerVars>>

ScanFinish ==
    /\ Scanning
    /\ scanNext > Len(ScanLists)
    /\ scanResult' = "done"
    /\ scanFindings' = Judge(scanSeen)
    /\ UNCHANGED <<scanWorld, scanNext, scanSeen, scanHistory, plannerVars>>

\* Others create and delete objects while the calls go on.
ScanChange(o) ==
    /\ Scanning
    /\ o \notin ScanFixed
    /\ scanWorld' = IF o \in scanWorld THEN scanWorld \ {o} ELSE scanWorld \cup {o}
    /\ Consistent(scanWorld')
    /\ scanAlways' = scanAlways \cap scanWorld'
    /\ scanEver' = scanEver \cup scanWorld'
    /\ scanHeld' = scanHeld \cap Judge(scanWorld')
    /\ scanTrue' = scanTrue \cup Judge(scanWorld')
    /\ UNCHANGED <<scanNext, scanSeen, scanResult, scanFindings, plannerVars>>

\* The agent, or a user, makes a plan for one of the findings.
ScanPlan(f) ==
    /\ scanResult = "done"
    /\ plannerPlan = NoPlan
    /\ plannerFinding' = Planned(f)
    /\ plannerPlan' = BuildRemediationPlan(Planned(f))
    /\ UNCHANGED scanVars

ScanNextStep ==
    \/ ScanStart \/ ScanList \/ ScanFail \/ ScanFinish
    \/ \E o \in ScanObjects : ScanChange(o)
    \/ \E f \in scanFindings : ScanPlan(f)

NoFinding == [topics |-> {}, target |-> "none", managed |-> FALSE, humanOnly |-> FALSE]

ScanSpec ==
    /\ ScanInit /\ plannerFinding = NoFinding /\ plannerPlan = NoPlan
    /\ [][ScanNextStep]_<<scanVars, plannerVars>>

-----------------------------------------------------------------------------

ScanTypeOK ==
    /\ scanWorld \subseteq ScanObjects
    /\ scanSeen \subseteq ScanObjects
    /\ scanNext \in 0..Len(ScanLists) + 1
    /\ scanResult \in {"none", "failed", "done"}
    /\ scanAlways \subseteq scanEver /\ scanHeld \subseteq scanTrue

\* The calls of one scan see the cluster at different moments, and any of them may
\* fail.  A snapshot that is delivered still reports every finding that was true at
\* every moment of the scan, and none that was true at no moment, with one exception
\* each.  Missing governance may go unreported although at no moment the namespace
\* had both objects: the quota is there when quotas are listed and gone when the
\* limit range appears.  And a workload that goes away after it was listed may be
\* reported for a budget that is deleted after it (Snapshot, scanFindings).
ScanJudgesItsMoments ==
    scanResult = "done" =>
        /\ \A f \in scanHeld \ scanFindings :
             /\ f.rule = "namespaceGovernance"
             /\ \A list \in {"quotas", "limitRanges"} : Covered(scanEver, list, f.object.ns)
        /\ \A f \in scanFindings \ scanTrue :
             f.rule = "workloadPDB" /\ f.object \in scanEver \ scanAlways

\* A finding that only a human may approve gets a plan that waits for an approval
\* (inspector.go reports it as human_approved_only and approval_required; a test of
\* the API says that such a remediation must require approval).
HumanOnlyNeedsApproval ==
    plannerFinding.humanOnly /\ plannerPlan # NoPlan => plannerPlan.required

=============================================================================
