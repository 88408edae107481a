----------------------------- MODULE MCPlatform -----------------------------
(***************************************************************************)
(* The parts of the API service, for TLC: one of them is chosen at the     *)
(* start and runs by itself, with the instance that is given here; the     *)
(* variables of the others keep one initial value.                         *)
(***************************************************************************)
EXTENDS CircuitBreaker, AdvisorPrompt, RequestLimiter, MemoryFindings, PostgresFindings,
        PlanWorkflow, PostureScan, Correlation, Listing, AdapterCache, SigningKeys

VARIABLE part

Parts == {"breaker", "prompt", "limiter", "memory", "postgres", "plan", "planner",
          "scan", "correlation", "listing", "adapters", "keys"}

-----------------------------------------------------------------------------
(* The instances *)

\* The smallest interesting subject, one that is cut by every limit, one that is
\* not analysed at all.
Subjects ==
    LET subject(n, resources, text, ns) ==
          [evidence |-> n, resources |-> resources, actions |-> n, steps |-> n,
           text |-> text, source |-> "native", namespaces |-> {ns}]
    IN {subject(2, 1, 40, "team"), subject(30, 200, 4000, "team"),
        subject(1, 1, 40, "kube-system")}

Answers == [complete : BOOLEAN, confidence : {"high", "sure"}, action : {0, 1, 99},
            citations : {{}, {1}, {2}, {1, 12}}]

Sources == [f \in FindingIds |-> "native"]

Kind(required, store, users, agents, ops) ==
    [required |-> required, store |-> store, users |-> users, agents |-> agents, ops |-> ops]
AllOps == {"decide", "request", "mirror", "rollback"}
NoOnesPlan == Kind(TRUE, "memory", {}, {}, {})

\* Two users who decide and execute; one who does everything; the agent and a user.
Kinds ==
    {Kind(TRUE, store, {"user1", "user2"}, {}, {"decide", "request"}) :
        store \in {"memory", "postgres"}}
    \cup {Kind(TRUE, "postgres", {"user1"}, {}, AllOps)}
    \cup {Kind(FALSE, store, {"user1"}, {"agent"}, AllOps) : store \in {"memory", "postgres"}}
    \cup {NoOnesPlan}

AnyFinding ==
    [topics : {ts \in SUBSET Topics : Cardinality(ts) <= 2} \cup {Topics},
     target : TargetKinds, managed : {FALSE}, humanOnly : BOOLEAN]
    \cup [topics : {{"governance"}}, target : TargetKinds, managed : {TRUE}, humanOnly : {FALSE}]

Obj(list, kind, ns, faults) ==
    [list |-> list, kind |-> kind, ns |-> ns, faults |-> faults, replicated |-> TRUE]
Lasting == {Obj("namespaces", "Namespace", "kube-system", {"podSecurityMissing"}),
            Obj("roles", "Role", "kube-system", {"roleWildcard"}),
            Obj("clusterRoles", "ClusterRole", "", {"clusterRoleWildcard"})}
Cluster == Lasting \cup {Obj("namespaces", "Namespace", "team", {}),
                         Obj("quotas", "ResourceQuota", "team", {}),
                         Obj("limitRanges", "LimitRange", "team", {}),
                         Obj("deployments", "Deployment", "team", {"workloadReadiness"}),
                         Obj("pdbs", "PodDisruptionBudget", "team", {})}

\* Three findings, two rules.
Inputs ==
    {[i \in 1 .. 3 |-> [time |-> x[i].time, keys |-> x[i].keys,
                        source |-> IF i = 2 THEN "kyverno" ELSE "trivy"]] :
        x \in [1 .. 3 -> [time : 0 .. 2, keys : {<<a, b>> : a \in {"", "a"}, b \in {"", "x"}}]]}
Windows == <<1, 2>>
Points == [sources |-> 6, cap |-> 6, keys |-> <<0, 5>>]

\* Only an administrator sees the third finding.
Spaces == <<{"team"}, {"team"}, {"team", ""}>>
Callers == {[cluster |-> TRUE, spaces |-> {}], [cluster |-> FALSE, spaces |-> {"team"}]}
Starts ==
    {[stored |-> "match", observed |-> "absent", object |-> "absent"],
     [stored |-> "absent", observed |-> "match", object |-> "absent"]}

\* One report API is installed late, the other one has a summary only.
Entry(key, outcome) == [key |-> key, outcome |-> outcome]
Report(entries, summary) == [installed |-> TRUE, entries |-> entries, summary |-> summary]
Kubescape == [kubescape |-> <<"controls", "summaries">>]
Reports ==
    [controls |-> <<[installed |-> FALSE, entries |-> <<>>, summary |-> 0],
                    Report(<<Entry("a", "fail"), Entry("b", "fail")>>, 0)>>,
     summaries |-> <<Report(<<Entry("c", "pass")>>, 1)>>]

Bearers == {[key |-> "k1", signed |-> TRUE, claims |-> TRUE, roles |-> {"viewer"}]}

-----------------------------------------------------------------------------

PlatformInit ==
    /\ part \in Parts
    /\ BreakerInit /\ LimiterInit /\ MemInit /\ PgInit /\ AdapterInit
    /\ PromptInit /\ (part # "prompt" => promptSubject.evidence = 2)
    /\ PlanInit /\ (part # "plan" => planKind = NoOnesPlan)
    /\ PlannerInit /\ (part # "planner" => plannerFinding = NoFinding)
    /\ ScanInit /\ (part # "scan" => scanWorld = ScanFixed)
    /\ CorrInit /\ (part # "correlation" =>
                        \A i \in CorrIndices : corrInput[i].time = 0 /\ corrInput[i].keys = <<"", "">>)
    /\ ListInit /\ (part # "listing" => /\ listPrincipal.cluster
                                        /\ \A f \in ListIds : copies[f].stored = "match")
    /\ KeysInit /\ (part # "keys" => published = Keys /\ keysUntil = keyClock + DefaultAge)

breakerRest == <<part, promptVars, limiterVars, memVars, pgVars, planVars, plannerVars,
                 scanVars, corrVars, listVars, adapterVars, keyVars>>
promptRest == <<part, breakerVars, limiterVars, memVars, pgVars, planVars, plannerVars,
                scanVars, corrVars, listVars, adapterVars, keyVars>>
limiterRest == <<part, breakerVars, promptVars, memVars, pgVars, planVars, plannerVars,
                 scanVars, corrVars, listVars, adapterVars, keyVars>>
memRest == <<part, breakerVars, promptVars, limiterVars, pgVars, planVars, plannerVars,
             scanVars, corrVars, listVars, adapterVars, keyVars>>
pgRest == <<part, breakerVars, promptVars, limiterVars, memVars, planVars, plannerVars,
            scanVars, corrVars, listVars, adapterVars, keyVars>>
planRest == <<part, breakerVars, promptVars, limiterVars, memVars, pgVars, plannerVars,
              scanVars, corrVars, listVars, adapterVars, keyVars>>
scanRest == <<part, breakerVars, promptVars, limiterVars, memVars, pgVars, planVars,
              corrVars, listVars, adapterVars, keyVars>>
corrRest == <<part, breakerVars, promptVars, limiterVars, memVars, pgVars, planVars,
              plannerVars, scanVars, listVars, adapterVars, keyVars>>
listRest == <<part, breakerVars, promptVars, limiterVars, memVars, pgVars, planVars,
              plannerVars, scanVars, corrVars, adapterVars, keyVars>>
adapterRest == <<part, breakerVars, promptVars, limiterVars, memVars, pgVars, planVars,
                 plannerVars, scanVars, corrVars, listVars, keyVars>>
keysRest == <<part, breakerVars, promptVars, limiterVars, memVars, pgVars, planVars,
              plannerVars, scanVars, corrVars, listVars, adapterVars>>

PlatformNext ==
    \/ part = "breaker" /\ BreakerNext /\ UNCHANGED breakerRest
    \/ part = "prompt" /\ PromptNext /\ UNCHANGED promptRest
    \/ part = "limiter" /\ LimiterNext /\ UNCHANGED limiterRest
    \/ part = "memory" /\ MemNext /\ UNCHANGED memRest
    \/ part = "postgres" /\ PgNext /\ UNCHANGED pgRest
    \/ part = "plan" /\ PlanNext /\ UNCHANGED planRest
    \/ part = "planner" /\ PlannerBuild /\ UNCHANGED <<scanRest, scanVars>>
    \/ part = "scan" /\ ScanNextStep /\ UNCHANGED scanRest
    \/ part = "correlation" /\ CorrNext /\ UNCHANGED corrRest
    \/ part = "listing" /\ ListNext /\ UNCHANGED listRest
    \/ part = "adapters" /\ AdapterNext /\ UNCHANGED adapterRest
    \/ part = "keys" /\ KeysNext /\ UNCHANGED keysRest

platformVars == <<breakerVars, breakerRest>>

\* The fairness of a part asks for nothing in the runs of the others.
PlatformSpec ==
    /\ PlatformInit
    /\ [][PlatformNext]_platformVars
    /\ BreakerFairness /\ MemFairness /\ PlanFairness

\* The variables of every part have their types, whatever the part goes through.
PlatformTypeOK ==
    CASE part = "breaker" -> BreakerTypeOK
      [] part = "prompt" -> PromptTypeOK
      [] part = "limiter" -> LimiterTypeOK
      [] part = "memory" -> MemTypeOK
      [] part = "postgres" -> PgTypeOK
      [] part = "plan" -> PlanTypeOK
      [] part \in {"planner", "scan"} -> ScanTypeOK
      [] part = "correlation" -> CorrTypeOK
      [] part = "listing" -> ListTypeOK
      [] part = "adapters" -> AdapterTypeOK
      [] part = "keys" -> KeysTypeOK
=============================================================================
