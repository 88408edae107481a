------------------------------ MODULE MCPosture ------------------------------
(***************************************************************************)
(* An instance of PostureScan: one object of every kind that the rules     *)
(* look at, each with the faults that it can have by itself.               *)
(***************************************************************************)
EXTENDS PostureScan

Obj(list, kind, ns, faults) ==
    [list |-> list, kind |-> kind, ns |-> ns, faults |-> faults, replicated |-> TRUE]

WholeCluster ==
    {Obj("nodes", "Node", "", {"nodeNotReady", "nodePressure"}),
     Obj("namespaces", "Namespace", "team", {"podSecurityMissing", "podSecurityPrivileged"}),
     Obj("pods", "Pod", "team", {"podFailed", "podRestarts", "privilegedPod"}),
     Obj("services", "Service", "team", {"publicService", "externalIP"}),
     Obj("pvcs", "PersistentVolumeClaim", "team", {"pvcNotBound", "pvcStorageClass"}),
     Obj("deployments", "Deployment", "team", {"workloadResources", "workloadReadiness",
        "workloadLiveness", "imageMutability", "runtimeHardening", "hostAccess",
        "capabilities", "defaultServiceAccount", "serviceAccountToken"}),
     Obj("ingresses", "Ingress", "team", {"ingressTLS", "ingressWildcard"}),
     Obj("networkPolicies", "NetworkPolicy", "team", {"broadIngress", "broadEgress"}),
     Obj("roles", "Role", "team", {"roleWildcard", "roleSecretRead", "roleEscalation"}),
     Obj("roleBindings", "RoleBinding", "team", {"roleBindingAdmin"}),
     Obj("clusterRoles", "ClusterRole", "", {"clusterRoleWildcard",
        "clusterRoleSecretRead", "clusterRoleEscalation"}),
     Obj("clusterRoleBindings", "ClusterRoleBinding", "",
        {"clusterAdminBinding", "publicSubject"})}

ScanOnly == {NoFinding}
=============================================================================
