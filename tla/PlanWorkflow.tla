---------------------------- MODULE PlanWorkflow ----------------------------
(***************************************************************************)
(* A remediation plan on its way through the API: the HTTP handlers        *)
(* (httpapi/server.go) and the AI agent (agent/agent.go) write it both     *)
(* into custom resources (cluster/workflow.go), which the operator obeys,  *)
(* and into the rows that the console shows (postgres/postgres.go or       *)
(* store/store.go).  There is no transaction over the two, and the         *)
(* Postgres methods read rows and write whole rows back later; the methods *)
(* of the memory store are atomic, and its rows are lost in a restart.     *)
(*                                                                         *)
(* One plan is followed.  Its kind says whether it needs an approval,      *)
(* which store is configured, who the users are and which requests they    *)
(* make after its creation, and whether the agent is its requester; tier A *)
(* plans of the agent are executed without asking (AutoExecuteTierA).      *)
(***************************************************************************)
EXTENDS Integers, FiniteSets

CONSTANTS
    PlanActors,         \* users and agents
    PlanKinds,          \* [required, store, users, agents, ops]: see above
    PlanRunStates       \* states that the operator writes into the RemediationRun

ASSUME PlanAssumption ==
    /\ PlanKinds \subseteq [required : BOOLEAN, store : {"memory", "postgres"},
                            users : SUBSET PlanActors, agents : SUBSET PlanActors,
                            ops : SUBSET {"decide", "request", "rollback", "mirror"}]
    /\ PlanRunStates \subseteq
         {"prepared", "pending_approval", "approved", "verifying", "succeeded",
          "dry_run_passed", "proposal_only", "rolled_back", "failed"}

VARIABLES
    planKind,
    dbPlan,             \* the plan row: decision, status, and whether it has an analysis
    dbApproval, dbRun,  \* status and state of these rows
    planFinding,        \* status of the finding's row
    crdPlan,            \* the RemediationPlan: decision, executionRequested, rollbackRequested
    crdApproval, crdRun,\* decision of the ApprovalRequest, state of the RemediationRun
    planJob,            \* planJob[a]: the request that a is working on
    planProcessed,      \* the agent's memory of findings it is done with
    planCalm            \* no call fails from now on

planConst == <<planKind, planCalm>>
planRows == <<dbPlan, dbApproval, dbRun, planFinding>>
planObjects == <<crdPlan, crdApproval, crdRun>>
planVars == <<planKind, planRows, planObjects, planJob, planProcessed, planCalm>>

None == [none |-> TRUE]
Decisions == {"approved", "rejected"}
PlanIdle == [step |-> "idle", copy |-> None, value |-> "none"]

Required == planKind.required
InMemory == planKind.store = "memory"

PlanInit ==
    /\ planKind \in PlanKinds
    /\ dbPlan = None /\ dbApproval = "none" /\ dbRun = "none" /\ planFinding = "open"
    /\ crdPlan = None /\ crdApproval = "none" /\ crdRun = "none"
    /\ planJob = [a \in PlanActors |-> PlanIdle]
    /\ planProcessed = FALSE /\ planCalm = FALSE

At(a, step) == planJob[a].step = step
\* The next step of a, with and without a copy of the plan's row in hand.
PlanHold(a, step, copy) ==
    planJob' = [planJob EXCEPT ![a].step = step, ![a].copy = copy] /\ UNCHANGED planProcessed
PlanGo(a, step) == PlanHold(a, step, None)
\* An agent that had no error does not look at the finding again.
PlanDone(a) ==
    /\ planJob' = [planJob EXCEPT ![a] = PlanIdle]
    /\ planProcessed' = (planProcessed \/ a \in planKind.agents)
\* One that had an error looks at it again in the next cycle.
PlanAbort(a) == planJob' = [planJob EXCEPT ![a] = PlanIdle] /\ UNCHANGED planProcessed

-----------------------------------------------------------------------------
(* Creation *)

\* The plans of the agent carry its own idempotency key, so a plan is created by
\* users or by the agent; activeFindings and alreadyProcessed limit the agent.
MayCreate(a) ==
    IF planKind.agents = {} THEN a \in planKind.users
    ELSE a \in planKind.agents /\ planFinding \in {"open", "in_review"} /\ ~planProcessed

NewRow == [decision |-> IF Required THEN "pending" ELSE "approved",
           status |-> "created", ai |-> FALSE]

\* CreateRemediationPlanFromFinding with an idempotency key: one transaction, or
\* under the mutex.  A replay returns the row as it is.
PlanCreateRow(a) ==
    LET row == IF dbPlan = None THEN NewRow ELSE dbPlan IN
    /\ At(a, "idle") /\ MayCreate(a)
    /\ dbPlan' = row
    /\ IF dbPlan = None
       THEN /\ dbApproval' = IF Required THEN "pending" ELSE "none"
            /\ dbRun' = IF Required THEN "pending_approval" ELSE "prepared"
       ELSE UNCHANGED <<dbApproval, dbRun>>
    /\ PlanHold(a, IF ~row.ai THEN "analyze"
                   ELSE IF a \in planKind.agents THEN "createPlan" ELSE "sync", row)
    /\ UNCHANGED <<planConst, planFinding, planObjects>>

\* Analyze returns, after any time.
PlanAnalysed(a) ==
    /\ At(a, "analyze")
    /\ PlanHold(a, "sync", [planJob[a].copy EXCEPT !.ai = TRUE])
    /\ UNCHANGED <<planConst, planRows, planObjects>>

\* Analyze fails: the handler goes on without an analysis, the agent gives up.
PlanNotAnalysed(a) ==
    /\ At(a, "analyze") /\ ~planCalm
    /\ IF a \in planKind.agents THEN PlanAbort(a)
       ELSE PlanHold(a, "createPlan", planJob[a].copy)
    /\ UNCHANGED <<planConst, planRows, planObjects>>

\* SyncRemediationPlan writes the whole copy.
PlanSync(a) ==
    /\ At(a, "sync")
    /\ dbPlan' = planJob[a].copy
    /\ PlanHold(a, "createPlan", planJob[a].copy)
    /\ UNCHANGED <<planConst, dbApproval, dbRun, planFinding, planObjects>>

\* An object is replaced by the copy in hand.
CreateOrReplace(exists, existing, object) == object

\* createIdempotent keeps an object that exists.
CreateIdempotent(exists, existing, object) == IF exists THEN existing ELSE object

\* CreatePlan, the RemediationPlan, and shouldAutoExecute when there is nothing
\* to approve.
PlanCreateObject(a) ==
    /\ At(a, "createPlan")
    /\ crdPlan' = CreateIdempotent(crdPlan # None, crdPlan,
         [decision |-> planJob[a].copy.decision, exec |-> FALSE, rollback |-> FALSE])
    /\ IF Required THEN PlanGo(a, "createApproval")
       ELSE IF a \in planKind.agents THEN PlanGo(a, "request") ELSE PlanDone(a)
    /\ UNCHANGED <<planConst, planRows, crdApproval, crdRun>>

\* CreatePlan, the ApprovalRequest.
PlanCreateApproval(a) ==
    /\ At(a, "createApproval")
    /\ crdApproval' = CreateIdempotent(crdApproval # "none", crdApproval, "pending")
    /\ PlanDone(a)
    /\ UNCHANGED <<planConst, planRows, crdPlan, crdRun>>

-----------------------------------------------------------------------------
(* Requests on an existing plan *)

PlanBegin(a, step, value) ==
    /\ At(a, "idle") /\ a \in planKind.users /\ step \in planKind.ops
    /\ planJob' = [planJob EXCEPT ![a].step = step, ![a].value = value]
    /\ UNCHANGED <<planConst, planRows, planObjects, planProcessed>>

\* decideApproval, executeRemediationPlan and rollbackRemediationRun begin with
\* requirePlanAccess, which reads the plan's row.
PlanStart(a, step, value) == dbPlan # None /\ PlanBegin(a, step, value)

\* RequestRollback's GetRun
PlanStartRollback(a) ==
    /\ crdRun \in {"succeeded", "failed", "verifying"}
    /\ PlanStart(a, "rollback", "none")

\* getRemediationRun and syncWorkflowState: the run is read, and mirrored later;
\* the second one does so for all runs, those without a plan's row too.
PlanStartMirror(a) == crdRun # "none" /\ PlanBegin(a, "mirror", crdRun)

\* What SyncRemediationRun makes of the plan's row, if there is one.
MirroredPlan(row, state) == IF row = None THEN None ELSE [row EXCEPT !.status = state]

\* The approval may take this decision.
Decidable(d) == crdApproval # "none" /\ crdApproval \in {"pending", d}

\* A conflict in the cluster does not stop the handler.
PlanDecideRowsAnyway(a) ==
    /\ At(a, "decide")
    /\ IF Decidable(planJob[a].value)
       THEN crdApproval' = planJob[a].value /\ PlanGo(a, "setDecision")
       ELSE UNCHANGED crdApproval /\ PlanGo(a, "decideRead")
    /\ UNCHANGED <<planConst, planRows, crdPlan, crdRun>>

\* DecideApproval, the ApprovalRequest.
PlanDecideApproval(a) ==
    /\ At(a, "decide")
    /\ IF Decidable(planJob[a].value)
       THEN crdApproval' = planJob[a].value /\ PlanGo(a, "setDecision")
       ELSE UNCHANGED crdApproval /\ PlanAbort(a)
    /\ UNCHANGED <<planConst, planRows, crdPlan, crdRun>>

\* setPlanApprovalDecision
PlanSetDecision(a) ==
    /\ At(a, "setDecision")
    /\ crdPlan' = [crdPlan EXCEPT !.decision = planJob[a].value]
    /\ PlanGo(a, "decideRead")
    /\ UNCHANGED <<planConst, planRows, crdApproval, crdRun>>

\* Anything but a rejection counts.
ExecutableUnlessRejected == crdPlan # None /\ (Required => crdPlan.decision # "rejected")

\* RequestExecution
Executable == crdPlan # None /\ (Required => crdPlan.decision = "approved")

PlanRequestExecution(a) ==
    /\ At(a, "request")
    /\ IF Executable
       THEN crdPlan' = [crdPlan EXCEPT !.exec = TRUE] /\ PlanGo(a, "executeRead")
       ELSE UNCHANGED crdPlan /\ PlanAbort(a)
    /\ UNCHANGED <<planConst, planRows, crdApproval, crdRun>>

\* RequestRollback, the RemediationPlan.
PlanRequestRollback(a) ==
    /\ At(a, "rollback")
    /\ crdPlan' = [crdPlan EXCEPT !.rollback = TRUE]
    /\ PlanGo(a, "rollbackRun")
    /\ UNCHANGED <<planConst, planRows, crdApproval, crdRun>>

-----------------------------------------------------------------------------
(* The rows in Postgres: whole rows are read, changed and written back *)

\* What decide makes of the plan and of the run.
DecidedPlan(row, d) == [row EXCEPT !.decision = d, !.status = d]
DecidedRun(d) == IF d = "approved" THEN "approved" ELSE "failed"

PlanDecideRead(a) ==
    /\ At(a, "decideRead") /\ ~InMemory
    /\ IF dbApproval = "pending" THEN PlanGo(a, "decideApproval") ELSE PlanAbort(a)
    /\ UNCHANGED <<planConst, planRows, planObjects>>

PlanDecideSave(a) ==
    /\ At(a, "decideApproval")
    /\ dbApproval' = planJob[a].value
    /\ PlanGo(a, "decidePlanRead")
    /\ UNCHANGED <<planConst, dbPlan, dbRun, planFinding, planObjects>>

PlanDecidePlanRead(a) ==
    /\ At(a, "decidePlanRead")
    /\ PlanHold(a, "decidePlan", dbPlan)
    /\ UNCHANGED <<planConst, planRows, planObjects>>

\* decide ignores that a write failed after the approval itself.
PlanDecidePlan(a) ==
    /\ At(a, "decidePlan")
    /\ dbPlan' \in {DecidedPlan(planJob[a].copy, planJob[a].value), dbPlan}
    /\ PlanGo(a, "decideRun")
    /\ UNCHANGED <<planConst, dbApproval, dbRun, planFinding, planObjects>>

PlanDecideRun(a) ==
    /\ At(a, "decideRun")
    /\ dbRun' \in {DecidedRun(planJob[a].value), dbRun}
    /\ PlanGo(a, "decideFinding")
    /\ UNCHANGED <<planConst, dbPlan, dbApproval, planFinding, planObjects>>

PlanDecideFinding(a) ==
    /\ At(a, "decideFinding")
    /\ planFinding' \in {"in_review", planFinding}
    /\ PlanDone(a)
    /\ UNCHANGED <<planConst, dbPlan, dbApproval, dbRun, planObjects>>

\* ExecuteRemediationPlan accepts this row.
RowExecutable(row) ==
    /\ row # None
    /\ Required => row.decision = "approved"
    /\ row.status # "rejected"

PlanExecuteRead(a) ==
    /\ At(a, "executeRead") /\ ~InMemory
    /\ IF RowExecutable(dbPlan) THEN PlanHold(a, "executePlan", dbPlan) ELSE PlanAbort(a)
    /\ UNCHANGED <<planConst, planRows, planObjects>>

PlanExecutePlan(a) ==
    /\ At(a, "executePlan")
    /\ dbPlan' = [planJob[a].copy EXCEPT !.status = "execution_requested"]
    /\ PlanGo(a, "executeRun")
    /\ UNCHANGED <<planConst, dbApproval, dbRun, planFinding, planObjects>>

PlanExecuteRun(a) ==
    /\ At(a, "executeRun")
    /\ dbRun' = "execution_requested"
    /\ PlanGo(a, "executeFinding")
    /\ UNCHANGED <<planConst, dbPlan, dbApproval, planFinding, planObjects>>

PlanExecuteFinding(a) ==
    /\ At(a, "executeFinding")
    /\ planFinding' \in {"remediating", planFinding}
    /\ PlanDone(a)
    /\ UNCHANGED <<planConst, dbPlan, dbApproval, dbRun, planObjects>>

\* RequestRollback
PlanRollbackRun(a) ==
    /\ At(a, "rollbackRun") /\ ~InMemory
    /\ dbRun' = "rollback_requested"
    /\ PlanHold(a, "rollbackPlan", dbPlan)
    /\ UNCHANGED <<planConst, dbPlan, dbApproval, planFinding, planObjects>>

PlanRollbackPlan(a) ==
    /\ At(a, "rollbackPlan")
    /\ dbPlan' \in {[planJob[a].copy EXCEPT !.status = "rollback_requested"], dbPlan}
    /\ PlanDone(a)
    /\ UNCHANGED <<planConst, dbApproval, dbRun, planFinding, planObjects>>

\* SyncRemediationRun: a transaction that locks the plan's row.
PlanMirror(a) ==
    /\ At(a, "mirror") /\ ~InMemory
    /\ dbRun' = planJob[a].value
    /\ dbPlan' = MirroredPlan(dbPlan, planJob[a].value)
    /\ PlanDone(a)
    /\ UNCHANGED <<planConst, dbApproval, planFinding, planObjects>>

-----------------------------------------------------------------------------
(* The rows in the memory store: every method is one step *)

PlanMemDecide(a) ==
    LET d == planJob[a].value IN
    /\ At(a, "decideRead") /\ InMemory
    /\ IF dbApproval = "pending"
       THEN /\ dbApproval' = d
            /\ dbPlan' = DecidedPlan(dbPlan, d)
            /\ dbRun' = DecidedRun(d)
            /\ planFinding' = "in_review"
            /\ PlanDone(a)
       ELSE PlanAbort(a) /\ UNCHANGED planRows
    /\ UNCHANGED <<planConst, planObjects>>

PlanMemExecute(a) ==
    /\ At(a, "executeRead") /\ InMemory
    /\ IF RowExecutable(dbPlan)
       THEN /\ dbPlan' = [dbPlan EXCEPT !.status = "execution_requested"]
            /\ dbRun' = "execution_requested"
            /\ planFinding' = "remediating"
            /\ PlanDone(a)
       ELSE PlanAbort(a) /\ UNCHANGED <<dbPlan, dbRun, planFinding>>
    /\ UNCHANGED <<planConst, dbApproval, planObjects>>

PlanMemRollback(a) ==
    /\ At(a, "rollbackRun") /\ InMemory
    /\ dbRun' = "rollback_requested"
    /\ dbPlan' = [dbPlan EXCEPT !.status = "rollback_requested"]
    /\ PlanDone(a)
    /\ UNCHANGED <<planConst, dbApproval, planFinding, planObjects>>

PlanMemMirror(a) ==
    /\ At(a, "mirror") /\ InMemory
    /\ dbRun' = planJob[a].value
    /\ dbPlan' = MirroredPlan(dbPlan, planJob[a].value)
    /\ PlanDone(a)
    /\ UNCHANGED <<planConst, dbApproval, planFinding, planObjects>>

-----------------------------------------------------------------------------
(* Failures and the operator *)

\* A call fails, the request is cancelled, or an answer is lost: the handler
\* returns an error and leaves what it has written.
PlanFail(a) ==
    /\ ~At(a, "idle") /\ ~planCalm /\ PlanAbort(a)
    /\ UNCHANGED <<planConst, planRows, planObjects>>

\* The API restarts: requests and the agent's memory are gone, and the rows of
\* the memory store with them (the finding is observed anew).
PlanRestart ==
    /\ ~planCalm
    /\ planJob' = [a \in PlanActors |-> PlanIdle]
    /\ planProcessed' = FALSE
    /\ IF InMemory
       THEN dbPlan' = None /\ dbApproval' = "none" /\ dbRun' = "none" /\ planFinding' = "open"
       ELSE UNCHANGED planRows
    /\ UNCHANGED <<planConst, planObjects>>

\* The operator (module RemediationController), seen from here: it reports on a
\* plan from the moment that it exists.
PlanOperator ==
    /\ crdPlan # None
    /\ crdRun' \in PlanRunStates
    /\ UNCHANGED <<planConst, planRows, crdPlan, crdApproval, planJob, planProcessed>>

\* The failures end, which the agent's progress depends on.
PlanCalmDown ==
    /\ planKind.agents # {} /\ ~planCalm /\ planCalm' = TRUE
    /\ UNCHANGED <<planKind, planRows, planObjects, planJob, planProcessed>>

PlanStep(a) ==
    \/ PlanCreateRow(a) \/ PlanAnalysed(a) \/ PlanNotAnalysed(a) \/ PlanSync(a)
    \/ PlanCreateObject(a) \/ PlanCreateApproval(a)
    \/ \E d \in Decisions : PlanStart(a, "decide", d)
    \/ PlanStart(a, "request", "none")
    \/ PlanStartRollback(a) \/ PlanStartMirror(a)
    \/ PlanDecideApproval(a) \/ PlanSetDecision(a)
    \/ PlanRequestExecution(a) \/ PlanRequestRollback(a)
    \/ PlanDecideRead(a) \/ PlanDecideSave(a) \/ PlanDecidePlanRead(a)
    \/ PlanDecidePlan(a) \/ PlanDecideRun(a) \/ PlanDecideFinding(a)
    \/ PlanExecuteRead(a) \/ PlanExecutePlan(a) \/ PlanExecuteRun(a) \/ PlanExecuteFinding(a)
    \/ PlanRollbackRun(a) \/ PlanRollbackPlan(a) \/ PlanMirror(a)
    \/ PlanMemDecide(a) \/ PlanMemExecute(a) \/ PlanMemRollback(a) \/ PlanMemMirror(a)
    \/ PlanFail(a)

PlanNext == (\E a \in PlanActors : PlanStep(a)) \/ PlanRestart \/ PlanOperator \/ PlanCalmDown

\* The agent works through its cycle, and looks at the finding again in the
\* next cycle until it had no error (run, runCycle).
PlanAgentStep(a) ==
    /\ a \in planKind.agents
    /\ \/ PlanCreateRow(a) \/ PlanAnalysed(a) \/ PlanSync(a) \/ PlanCreateObject(a)
       \/ PlanCreateApproval(a) \/ PlanRequestExecution(a) \/ PlanMemExecute(a)
       \/ PlanExecuteRead(a) \/ PlanExecutePlan(a) \/ PlanExecuteRun(a)
       \/ PlanExecuteFinding(a)

PlanFairness == \A a \in PlanActors : WF_planVars(PlanAgentStep(a))

PlanSpec == PlanInit /\ [][PlanNext]_planVars /\ PlanFairness

-----------------------------------------------------------------------------

PlanRows == [decision : {"pending"} \cup Decisions, ai : BOOLEAN,
             status : {"created", "execution_requested", "rollback_requested"}
                        \cup Decisions \cup PlanRunStates]
PlanObjects == [decision : {"pending"} \cup Decisions, exec : BOOLEAN, rollback : BOOLEAN]

PlanTypeOK ==
    /\ planKind \in PlanKinds
    /\ dbPlan \in PlanRows \cup {None}
    /\ dbApproval \in {"pending", "none"} \cup Decisions
    /\ crdApproval \in {"pending", "none"} \cup Decisions
    /\ crdPlan \in PlanObjects \cup {None}
    /\ crdRun \in PlanRunStates \cup {"none"}

\* A decision that was made stays: whatever requests race with it, fail half-way
\* or are replayed, neither the ApprovalRequest, nor the RemediationPlan that the
\* operator obeys, nor the approval's row ever goes back to pending or to the
\* opposite decision (DecideApproval, createIdempotent, decide); rows of the
\* memory store may be lost.  The plan's row is left out: PlanSync can take its
\* decision back, until the decision is sent again.
DecisionIsFinal ==
    [][/\ crdApproval \in Decisions => crdApproval' = crdApproval
       /\ Required /\ crdPlan # None /\ crdPlan.decision \in Decisions =>
            crdPlan'.decision = crdPlan.decision
       /\ dbApproval \in Decisions =>
            dbApproval' = dbApproval \/ (InMemory /\ dbApproval' = "none")]_planVars

\* Execution of a plan that needs an approval is requested only after the
\* ApprovalRequest was approved, and never after it was rejected, although the
\* handler checks a copy of the decision in another object (RequestExecution).
ExecutionApproved ==
    Required /\ crdPlan # None /\ crdPlan.exec => crdApproval = "approved"

\* The rows lag behind the cluster but never run ahead of it: they show a
\* decision, an execution or a rollback only if the custom resources have it, so
\* what the console shows as approved is what the operator works on
\* (decideApproval, executeRemediationPlan, rollbackRemediationRun).
RowsFollowCluster ==
    /\ dbApproval \in Decisions => crdApproval = dbApproval
    /\ Required /\ dbPlan # None /\ dbPlan.decision \in Decisions =>
         crdPlan # None /\ crdPlan.decision = dbPlan.decision
    /\ dbRun = "execution_requested" => crdPlan # None /\ crdPlan.exec
    /\ dbRun = "rollback_requested" => crdPlan # None /\ crdPlan.rollback

\* Once its calls no longer fail, a tier A plan of the agent is executed,
\* wherever earlier cycles stopped between row, analysis and custom resources
\* (runCycle, processFinding, markProcessed).  The finding is assumed to be one
\* of the MaxFindingsPerCycle that a cycle looks at.
AgentExecutes == planCalm /\ ~Required ~> crdPlan # None /\ crdPlan.exec

=============================================================================
