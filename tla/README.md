# KubeAthrix: models, checks and proofs

KubeAthrix finds risks in a Kubernetes cluster, plans typed remediations,
executes them behind approvals, and runs bounded chaos experiments. Two of its
parts change clusters on their own: the chaos manager of the API server and the
remediation controller of the operator. Around them the API service observes,
correlates, plans and records, with shared caches, two stores and requests that
race. This directory models these parts in TLA+, checks them with TLC and proves
most of their safety properties with TLAPS, for every value of the constants.

## 1. Inventory

| Part | State | Operations | Hard behaviour |
|---|---|---|---|
| Chaos manager (`cluster/chaos_manager.go`) | none of its own: the `chaos_runs` rows (status, version, deadlines, attempts) | Request, Approve, Reject, Execute, Abort, Get, reconcileAll/reconcileOne | handlers and the poll loop work on copies of one row; crashes between a Kubernetes call and the write that records it; deadlines |
| Chaos runner (`cluster/chaos.go`) | Chaos Mesh objects with an ownership label | Preflight, Start (dry-run, create), Exists, Observe, Delete, VerifyRecovery | lost answers, finalizers, two runs with one object name |
| Run rows (`store/store.go`, `postgres/postgres.go`) | the rows | CreateChaosRun, UpdateChaosRun (compare-and-swap on the version), List, Get | stale writers |
| Remediation controller (`operator/controllers/remediation_controller.go`) | RemediationPlan status, RemediationRun, snapshot ConfigMap, target objects | Reconcile: gates, dry-run, snapshot, write, verify, rollback, three reports | lagging informer caches, partial writes, crash between writes, conflicts |
| Finding controller (`operator/controllers/finding_controller.go`) | Finding status | Reconcile | shares the status with the remediation controller |
| Workflow client (`cluster/workflow.go`) | spec of plans, ApprovalRequests | CreatePlan, DecideApproval, RequestExecution, RequestRollback, Get/List/Sync | read, decide, write with retries; eligibility read earlier than used |
| HTTP API (`httpapi/server.go`) | none | handlers over both stores, paged list of findings | database and cluster are written one after the other; a list that changes between its pages |
| Stores (`store`, `postgres`) | findings, exceptions, plans, approvals, runs, audit | Sync, expire, decide, execute | one mutex in memory; in Postgres rows that are read, changed and written back; observations out of order, expiry races |
| AI agent (`agent`) | set of processed findings | runCycle, processFinding | retries with idempotency keys, restarts that forget |
| AI advisor (`ai`) | circuit breaker | Analyze | late answers, a prompt that must shrink, answers that must cite it |
| Adapters (`adapters`) | cached collection | Collect | stampede, older result overwrites newer |
| OIDC verifier (`auth/oidc.go`) | cached key set | Verify, key, refreshKeys | key rotation, overlapping fetches |
| Planner, action catalog (`store.go`, `pkg/actioncatalog`) | none | typedActionsForFinding, tiers, preview, validation | tables that must agree, words that decide |
| Correlation (`findings`) | none | CorrelateWithConfig | union-find over map iteration |
| Inspector (`cluster/inspector.go`) | none | Snapshot, scanFindings | many List calls at different moments |
| Rate limiter (`httpapi/middleware.go`) | windows per key | allow | window edge, sweep of the map |
| Diff, managed resources, telemetry, console, chart | none | read-only, rendering | - |

How they interact: the console and the agent call the HTTP API; the API writes
the database and, through the workflow client, custom resources; the operator
watches the custom resources, changes target objects and reports in the status
of plan, run and finding, which the API mirrors back. The chaos manager is
independent of that path: HTTP handlers and a poll loop in the same process (or
in several replicas) share only the `chaos_runs` table.

What makes the parts correct, in the order of importance used here:

1. no fault is injected that was not approved by a second person; every fault is
   removed; no verdict claims more than was observed;
2. no object is changed without approval, request and switch; there is a usable
   snapshot before every change; the reports tell the truth;
3. decisions survive the two stores; findings and exceptions follow the evidence;
4. bounded resources stay bounded.

The hazards behind these, with their lines, are listed in `PROJECT.json`.

## 2. Modules and plan

| Step | Modules | State |
|---|---|---|
| 1 | `ChaosLifecycle` (abstract), `ChaosManager` (implements it), `MCChaosManager`; `ChaosManagerProofs`, `ChaosRefinementProofs`, `ChaosApprovalProofs`, `ChaosOutcomeProofs` | modelled, checked, proved |
| 2 | `RemediationController`, `MCRemediation`; `RemediationProofs` | modelled, checked, proved |
| 3 | `PlanWorkflow`: plans, approvals and runs in custom resources and rows, users and agent, both stores; `PlanWorkflowProofs` | modelled, checked, proved |
| 4 | `FindingRules`, `MemoryFindings`, `PostgresFindings`: findings and exceptions in both stores; `ApiProofs` | modelled, checked, proved in part |
| 5 | `CircuitBreaker`, `AdvisorPrompt`, `RequestLimiter`, `AdapterCache`, `SigningKeys`, `Listing`; `ApiProofs`, `AdvisorProofs` | modelled, checked, proved |
| 6 | `Planner`, `PostureScan` (extends it), `Correlation`: pure algorithms with the order their code leaves open; `ApiProofs` | modelled, checked, the first two proved |

The modules have no RECURSIVE operator. Section 6 lists what is
proved, from which assumptions, and what stays with TLC.

## 3. The chaos manager

`ChaosManager` has one state variable per store: `store` is the run table,
`resource` the Chaos Mesh objects by name, `clock` the time, `enabled` the
switch `KUBEATHRIX_CHAOS_EXECUTION`. A *worker* (`pc`, `job`, `copy`) is one
thread of control inside manager code: an HTTP request, or one `reconcileOne`
call of the poll loop. `copy` is its Go value of the run.

| Code | Actions |
|---|---|
| `Request` with `Preflight` and `CreateChaosRun` | `Request` |
| `Get`/`authorizedExperimentRun`, `reconcileAll` | `Load`, then `Reconcile`, then `Return` to the operation |
| `Approve`, `Reject` | `Decide`; `Execute`; `Abort` |
| `reconcileOne`, by status | `ExistsExecutionRequested`, `DryRun`, `Create`, `Observe`; `ExistsRunning`; `Delete`, `ExistsDeleted`; `ExistsVerifying`; `VerifyRecovery` |
| `UpdateChaosRun` | `Commit`, guarded by `Current` |
| errors, cancelled contexts | `Fail`; `StartFailed` for those that are counted |
| process restart | `Restart` |
| Chaos Mesh, other clients, time (external) | `Inject`, `FinishDelete`, `ExternalDelete`, `Tick` |

Every Kubernetes call and every table access is a step of its own. History
variables are `injected` and, of an object, `late`: the worker that created it did
so from a copy that was no longer the row. `ChaosLifecycle` states what a reader of
the run table may rely on, without workers, versions or time.

Abstractions: messages and audit records are left out, durations are ticks, the
contents of a manifest is its object name, and pod health is a free choice of
the cluster. `MaxVersion` bounds the writes that only refresh a message;
`FreeTicks` lets the clock run without a deadline ahead only for a few ticks.

### Runs

| Run | Instance | Result |
|---|---|---|
| ChaosInterleaving | 1 run, 2 workers, lost create answers | `ApprovedBeforeCreated`, `InjectionProven`, `RecoveryIsBounded`, `SuccessNotCutShort`, `CopiesGuarded`, `OrphansExplained`, `LifecycleSpec` hold |
| ChaosSharedName | 2 approved runs, 1 name, 1 worker, lost answers, `RequestedSpec` | `InjectionProven`, `OrphansExplained`, `ExecutionTerminates` hold |
| ChaosLiveness | 1 run, 2 workers, lost answers, switch on/off, `RequestedSpec` | `TypeOK`, `ExecutionTerminates` hold |
| ChaosLateCreate | 2 workers | `RecoveredClean` violated: create after a reported abort |
| ChaosLostAck | lost answer, `LiveSpec` | `ObjectsDeleted` violated: object outlives its run |
| ChaosEarlyLoss | 1 worker, `LiveSpec` | `EarlyLossFails` violated: object gone early, run succeeded |

`RecoveredClean` and `ObjectsDeleted` say what src/README.md:126 says; both are
violated, and `OrphansExplained` says that the two runs show all there is: an object
outlives its run only if it was created from a copy that was no longer the row, or
if the run was given up as not started. In the same way `SuccessNotCutShort` is what
is left of operations-runbook.md:96 beside ChaosEarlyLoss: the manager itself never
takes the fault away early, but a loss that no poll sees before the end of the
duration counts as success (chaos_manager.go:341).

Which wait has a deadline: the wait for the target pods has one (`RecoveryIsBounded`).
The wait for the object to go (chaos_manager.go:347-357) has none, against
installation.md:296, and two branches enter verification with a nil cleanup deadline
(:264, :337). `ExecutionTerminates` therefore names what can hold a run up for ever
(`Blocked`): its name is held by the object of another run, or an object of its own
appears while it verifies without a cleanup deadline. Both happen in the runs, and
without either exception the property is violated. One more divergence has no run of
its own: `Delete` looks at no ownership label (chaos.go:294, against
operations-runbook.md:85), so a cleanup can take away the object of another run.

Two workers are enough for every race between a stale copy and a newer row, because
the version check compares two versions only; the theorems below remove the bound.
Windows of 0 or 1 tick keep both orders of every deadline and step. Two principals
suffice: a requester and somebody else. `RequestedSpec` starts where every run was
asked to execute, a state that `Spec` reaches with a request, a decision and an
execution each, or with no run at all; in it requests can still be made, but of the
operations on a run only those are left that change one that was asked to execute.
Two runs with one name and two workers at once are beyond TLC; the safety theorems
cover them.

Fairness (`LiveSpec`): a worker that began goes on (`WF Proceed`), the poll loop
reads every active run again and again (`SF Load`; the ticker of
`StartReconciler`), Chaos Mesh removes its finalizers, time passes, and from
some moment on calls answer and the process stays up with execution on (`Settle`);
a permanently failing API server, or a switched off manager, can finish nothing, and
`ExecutionTerminates` says so. Answers may still say that pods are not ready for
ever: the recovery deadline must cope with that, and does.

### Proofs

All for any number of runs, workers, principals, names and any windows, under
`ChaosAssumption` (types of the constants, `None` outside the sets).

* `ChaosManagerProofs!TypeCorrect`: `Spec => []TypeOK`, with one lemma for each
  way the control of a worker changes (`Goto`, `Quit`, `Return`, `Update`) and
  one for each action.
* `ChaosRefinementProofs!CopiesGuardedAlways`: `Spec => []CopiesGuarded`. This is
  why the version check is enough. A worker's copy is never newer than the row;
  as long as the versions agree the copy *is* the row (`Guarded`), and the status
  of the copy fits the step the worker is about to take (`Placed`); so what an
  accepted update writes is one `Edge` away from the row it replaces. `Placed` is
  needed because the edge depends on where the worker stands. It is inductive
  together with `TypeOK`.
* `ChaosRefinementProofs!LifecycleRefined`: `Spec => LifecycleSpec`. The mapping
  projects the rows on four fields; only `Request` and an accepted `Commit`
  change it, and `EdgeStep` matches every edge with an action of the abstract
  specification.
* `ChaosApprovalProofs!ApprovedBeforeCreatedAlways`: the invariant is
  strengthened by "every row and every copy in a status that execution can reach
  is approved by somebody else", which the edges preserve.

* `ChaosOutcomeProofs`: `InjectionIsProven`, `RecoveryWaitIsBounded` and
  `SuccessIsNotCutShort` (`InjectionProven`, `RecoveryIsBounded`,
  `SuccessNotCutShort`), from one invariant, `OutcomeInv`. A row is `Sound` if its
  start time is backed by an observed injection, the wait for the targets has its
  deadline, a run that is cleaned up or verified without a failure has lasted for its
  duration, and a verdict succeeded has what it claims. The invariant says that every
  row and every copy a worker holds is sound, that the time a worker has read lies in
  the past, and that an object's condition is in the history of injections. The
  copies have to be part of it because any of them may be written back. No version
  check is needed: time and history only grow, so a sound copy stays sound however
  old it is. `Placed` of `CopiesGuarded` supplies the status of the copy at each step.
* `ChaosApprovalProofs!OrphansAreExplained`: `Spec => []OrphansExplained`, without
  hypotheses, for any number of workers on any runs, names that are shared, lost
  answers, crashes and deletions by others. Here the version check carries the
  argument. Only an active run, or one given up as not started, has an object that was
  created from the row as it stood (`RowsClean`), because a worker that is about to end
  a run knows, as long as its copy is the row, that there is no such object and that no
  start from this row can still make one (`CleanWorker`). A worker whose copy is no
  longer the row may be wrong about both, but its update is refused; what it creates
  is late.

Only model-checked: `ExecutionTerminates` (liveness under fairness is beyond the
prover).

## 4. The remediation controller

`RemediationController` follows one leader with one worker. Custom resources are
read from the API server, because controller-runtime does not cache unstructured
objects; the objects that an action writes and verifies and the snapshot
ConfigMap are typed, hence read from informer caches (`cache`, `snapCache`) that
lag if `Lag` is set; the reads that fill or restore a snapshot are unstructured
and direct. An update is accepted only for the cached version (`Accepted`,
`FreshSnapshot`, `Unchanged`).

An object is reduced to: exists, carries the managed-by label, the set of actions
whose fields it holds, and a mark that somebody else changed another field. An
action is one of: direct or not, valid or not, *upsert* (owns its objects:
governance, PDB) or *patch* (sets fields: labels, resources, probes), *slow* (its
verification may wait for a rollout).

| Code | Actions |
|---|---|
| `Reconcile`, gates of `reconcilePlanActions` | `Reconcile` with `Blocked`, `Gate` |
| action loop | `Action`, `DryRun`, `EnsureSnapshot`, `ReadItem`, `SaveSnapshot`, `Write`, `Verify`, `Outcome` |
| `reconcileRollback`, `restoreSnapshotItem` | `LoadSnapshot`, `NextKey`, `Restore`, `Remove`, `Check` |
| `writePlanStatus`, `upsertRun`, `updateFindingStatus` | `WritePlanStatus`, `UpsertRun`, `UpdateFindingStatus` |
| `FindingReconciler.Reconcile` | `ObserveFinding` |
| `DecideApproval`, `RequestExecution`, `GetRun`+`RequestRollback` | the same names; `CheckRollback` is the earlier read |
| errors, restart, leader change | `Fail`, `Restart` |
| informers, other clients (external) | `SyncObject`, `SyncSnapshot`, `Resync`, `Edit` |

A get followed by an update with the version that was read is one step: the
update takes effect only on what was read, and the refusal is `Fail`. A call that
is applied and whose answer is lost is the call followed by `Fail` or, in `Write`
and `SaveSnapshot`, an alternative of its own. `touched` and
`missed` (a rollback of the plan read a ConfigMap that was behind) are history
variables. Finalizers, messages and the contents of the five executors'
patches are left out.

### Runs

| Run | Instance | Result |
|---|---|---|
| RemEdits | 1 plan: an upsert, a patch and an action the catalog refuses; lag, one foreign edit, failures, restarts | `SnapshotPreChange`, `ChangedIsEligible`, `RollbackRemovesChanges`, `WritesRespectOthers` hold |
| RemLifecycle | 1 plan: a proposal and a two-object action, approval required; lag, mutation on/off, `LiveSpec` | `TypeOK`, `GatedWrites`, `RunAgrees`, `AppliedIsInCluster`, `StatusCatchesUp`, `RollbackEnds` hold |
| RemRollbackReport | 1 patch, `LiveSpec` | `RollbackReported` violated: the run keeps its old state |
| RemResolved | 1 patch, `LiveSpec` | `ResolvedIsReported` violated: overwritten with Observed |

Bounds: `MaxGeneration` allows a decision, an execution request and a rollback
request (and repetitions instead of one of them), in any order the API admits;
`MaxEdits` is one edit of somebody else, enough for every order of one edit with
the calls of a pass. Plans are independent of each other except where they share
objects or a finding, which no run covers yet.

`RollbackRemovesChanges` is checked as the code runs, with a cache that lags and a
plan of two direct actions, as the planner makes them (store.go:1096-1127), and names
its two exceptions. A rollback reads the snapshot ConfigMap from the cache
(remediation_controller.go:900); if the cache lacks the newest key, that action is
skipped and RolledBack is reported for good (`missed`; without the exception the run
is violated). And where two actions patch one object, the snapshot of the second holds
the change of the first, and the keys are restored in the order of a Go map (:905), so
the change may come back (`Held`). The planner makes no such plan, since the probes it
plans are not configured and so not written; `patch_workload_resources` with
configured `patch_workload_probes` on one workload is valid in an edited plan.

The limits of the passing runs are real, and each was seen by lifting it:

* with the mutation switch turned off after an execution, `ChangedIsEligible`
  fails: the plan becomes DryRunPassed and its run is refused (workflow.go:328);
* with two plans for the same missing objects, a rollback deletes what the other
  plan created (:946, against catalog.go:74);
* a rollback writes the whole snapshot back (:969), so it takes back edits of other
  fields (against catalog.go:85 and :95), and an upsert replaces what others changed
  in an object with the managed-by label; `WritesRespectOthers` is about patches and
  objects without the label;
* after a failed second write nobody restores the first (:254, against
  catalog.go:76); a rollback has to be requested.

Fairness (`LiveSpec`): the worker goes on (`WF Proceed`) and serves every queued
plan (`SF Reconcile`, the work queue is fair although plans requeue themselves),
informers catch up, the finding controller serves its queue, and calls stop
failing at some moment (`Settle`). Requests, edits and verdicts of rollouts are
not fair: nobody has to ask for anything, and a rollout may wait for ever.

### Proofs

`RemediationProofs`, for any plans, actions, objects, policies and bounds, with and
without lag, under `RemediationAssumption`: beside the types of the constants, no
object holds a change of an action before anything ran, and two plans do not share
a direct action (an action of the model is one entry of one plan's list).

* `TypeCorrect`, `WritesAreGated`, `SnapshotsPrecedeChanges`, `RunsAgree` state
  `TypeOK`, `GatedWrites`, `SnapshotPreChange` and `RunAgrees`. `RemediationInv`
  adds what the worker carries: it stands where its job says (`JobPlaced`) and has
  passed gates that never close again, because a decision is not taken back and an
  execution request stays (`JobAllowed`). `SnapshotPreChange` needs the most. A key
  of the snapshot ConfigMap never changes once it is there, so what a lagging cache
  shows of it is right (`CachesRight`); every change that is found in an object, in
  a snapshot or in what the worker has read has a snapshot already (`ChangesKnown`,
  `JobSnapshots`). An action that finds its own change in the object it is about to
  save has therefore read a stale ConfigMap, and the version check refuses the
  update. `ReportsPending`: as long as the run lags behind the plan, the plan is
  queued or in the worker's hands.
* `ChangesCanBeRolledBack` (`ChangedIsEligible`), if every start of the operator
  enables mutation (`MutationStaysOn`). A pass that has gone past a direct action has
  counted it as applied, so the verdict it reports is one that `RequestRollback`
  accepts, and until it is reported the plan is queued or in the worker's hands
  (`EligiblePending`).
* `AppliedIsTrue` (`AppliedIsInCluster`), with and without lag, if actions that share
  an object only patch it and belong to one plan (`OwnTargets`): two plans for one
  object may undo each other. What a lagging cache shows of a plan that nobody
  disturbs is still true, because a change stays where it is until a rollback or an
  edit; hence each verified target, each finished action and at last the whole plan
  is in the cluster (`AppliedSoFar`).
* `RolledBackIsTrue` (`RollbackRemovesChanges`), without hypotheses: any number of
  direct actions, shared objects, lag; the exceptions are those of the property. While
  a rollback that saw every key runs, every change that is left is one it has still to
  come to or one that a snapshot holds (`Cleaning`, `Due`), and a plan that was rolled
  back is not executed again. That a snapshot, once taken, stays as it is makes `Held`
  stable.
  The three rest on `RemediationInv` and on `HistoryInv` (a rollback request stays, a
  worker inside the action list stands at the entry it works on).
* `OthersAreRespected` states the action property `WritesRespectOthers`: a write is
  made from the cached object and is accepted only while that is what the API
  server holds, so the label was looked at on the object that is replaced, and a
  patch keeps the fields of others. Upserts of labelled objects and rollbacks are not
  covered: they do replace what others changed.

`MutationStaysOn` and `OwnTargets` are the only hypotheses. Only model-checked:
`StatusCatchesUp` and `RollbackEnds` (liveness).

## 5. The API service

### One run for twelve parts

The parts below share no variable that a property speaks of, so each has a module
with its own variables, and `MCPlatform` chooses one of them in the initial state
and lets it run by itself (`part`); the state space is the sum of theirs, not the
product. Deadlock is not checked there: a walk through the pages, a scan, an
analysis or a plan that nobody touches any more really ends. The run is
*Platform*; `MCPosture` with the run *HumanOnlyApproval* is scan and planner
together. About 379000 states, two minutes.

### Plans: `PlanWorkflow`

One plan, its row, the rows of its approval and its run, the status of its
finding, and the three custom resources. Each actor has a job: the next step of
the handler it is in, the copy of the row it holds and the decision it carries.

| Code | Actions |
|---|---|
| `createRemediationPlan`, `processFinding` | `PlanCreateRow`, `PlanAnalysed` or `PlanNotAnalysed`, `PlanSync`, `PlanCreateObject`, `PlanCreateApproval` |
| `decideApproval` | `PlanStart`, `PlanDecideApproval`, `PlanSetDecision`, then the rows: `PlanDecideRead` to `PlanDecideFinding`, or `PlanMemDecide` |
| `executeRemediationPlan`, `requestExecution` | `PlanRequestExecution`, then `PlanExecuteRead` to `PlanExecuteFinding`, or `PlanMemExecute` |
| `rollbackRemediationRun` | `PlanStartRollback`, `PlanRequestRollback`, `PlanRollbackRun`, `PlanRollbackPlan`, or `PlanMemRollback` |
| `getRemediationRun`, `syncWorkflowState` | `PlanStartMirror`, `PlanMirror` or `PlanMemMirror` |
| errors, restart (external) | `PlanFail`, `PlanRestart`; the operator is `PlanOperator` |

An update of a custom resource with its conflict retry is one step: it takes
effect on what was read last. `DecisionIsFinal`, `ExecutionApproved` and
`RowsFollowCluster` hold for two users who decide and execute, for one user who
makes every request, and for agent and user, in both stores, with failures and
restarts anywhere. `AgentExecutes` needs the fairness that the agent goes through
its cycle and begins the next one (`PlanFairness`, the ticker of `run`), and that
calls stop failing at some moment (`PlanCalmDown`); users are not fair. It also
takes for granted that the finding is among the `MaxFindingsPerCycle` that a cycle
looks at. The code cuts the list *before* it skips processed findings
(agent.go:213), so findings that were processed and stay open can keep others out.

What the rows cannot promise, and the properties leave out: the decision and
the status in the plan's row are whole-row writes of copies, so an analysis that
returns late (server.go:712), or an execution that read the row before a mirror,
takes them back; the ApprovalRequest, the RemediationPlan and the approval's row
are not affected. `decide` in Postgres ignores the errors of all writes after the
first. `expiresAt` of an approval is written and shown and never compared
(workflow.go:253, postgres.go:898).

### Findings and exceptions: `FindingRules`, `MemoryFindings`, `PostgresFindings`

The same operations over the same rows (`FindingRules`), atomic in memory and
statement by statement in Postgres, where `ListExceptions` marks exceptions and
reopens findings on the way of other methods, and where a request may end between
any two statements (`PgCrash`). `MemoryReopens` (fairness `MemFairness`: the
console and the agent keep listing, which is what expires exceptions) holds.
`ExceptionsOnlyAge` holds because `saveException` only updates an existing row.

The counterpart of `MemoryReopens` is not stated for Postgres because the code
does not provide it: a finding is reopened only by the call that marks its
exception, so a `SyncFinding` that read the row before and writes it after
(postgres.go:606) leaves it suppressed for ever, and so does a failure between the
two. Also seen and not asserted: an exception erases the status resolved or
remediating of a finding that it covers; evidence expires while a source cannot
be collected; `seedDefaults` writes the model settings of the environment over
saved ones at every start (postgres.go:172, against src/README.md:137).

### Caches and limits

* `CircuitBreaker`: calls in flight report at any later time. Once the threshold is
  passed only those can still fail (`OutageCostsOneRequestEach`), and the breaker
  lets requests through again (`BreakerRecovers`; fairness: requests time out, the
  clock runs).
* `AdvisorPrompt`: the shrinking of a prompt rung by rung. Whether a prompt fits is
  a free choice, which stands for every size. The limits are those of the code (10,
  20, 12 and 10 entries, 256 attempts); a subject that is cut by each of them
  is in the instance, so `RefusedOnlyWhenEmpty` is checked where it is tight.
  An answer is validated against the shrunk prompt (`ValidAnswer`).
* `RequestLimiter`: ages instead of times. The history is the age of each of the
  latest accepted requests: `NoSecondBudget` says that the one after the budget is too
  old to belong to the same stretch. Capacity 1 forces sweeps.
* `AdapterCache`: two collections that overlap; an older one may be stored last.
  `OnlineIsFresh`: a source that is shown as online is complete and at most one TTL
  and one collection old. Four ticks cover two lifetimes of the cache.
  The instance is Kubescape's two lists, with reports that have a summary beside
  their entries. The identifiers of some findings contain their position in the report
  (`Positional`), so a report that lost an entry renames the ones behind it.
* `SigningKeys`: overlapping fetches that are stored in any order.
  `WithdrawnKeysDie` gives the exact bound, one fetch and one maximal age.
* `Listing`: a walk over pages while copies of findings appear, disappear and stop
  matching, and while the order changes: the findings are sorted by risk unless the
  caller asks for something else (server.go:1600), risk is computed anew from each
  result (:322), and the time of the last update changes with every scan. So every
  query has its own sort fields. `WalkIsComplete` says what a walk is worth all the
  same: as long as each cursor keeps its field until the next page, findings that keep
  theirs are neither repeated nor missed. A finding that moves across the cursor is
  repeated or missed, and once a cursor has moved any finding may be, in the default
  walk too; the property is violated without either condition. Three findings, two
  values of the field, pages of one and one change give every relative place of change
  and cursor. The handler also correlates and saves only the findings that the caller
  may see and the filter admits, so a group's score depends on who listed last; no
  document excludes it.

### Algorithms

* `Planner`: the catalog as a table, and every class of finding: up to two topics
  (words that the planner looks for) or all of them, every kind of target.
  `OnlyGovernanceIsAutomatic` and `PreviewTellsTheWrites` compare four pieces of
  code in two programs that have to agree.
* `PostureScan`: a scan whose 22 lists are read at different moments, in the order of
  the code, and which fails if one of them does. `scanHeld` and `scanTrue` are the
  findings that were true at every and at some moment of the scan.
  `ScanJudgesItsMoments`: what was true all the time is reported, and what is reported
  was true at some moment. The code has one exception to each, and the property names
  them: a namespace whose quota is there when quotas are listed and gone before its
  limit range appears is not reported although it never had both, and a workload that
  goes away after it was listed may be reported for a budget that is deleted after it.
  In the instance quota, limit range, workload, budget and namespace come and go; what
  is in a namespace goes before it (`Consistent`). A namespace without a network policy
  is the same case as one without a quota, and is left to the theorem.
  A predicate on the fields of one object is an element of its `faults`.
* `Correlation`: any order of buckets, any order of equal times.
  `CorrelationIsDeterministic` compares with the transitive closure of a reference
  definition, for every input of three findings, three times and two rules.
* *HumanOnlyApproval* (violation): the planner meets the word "resources" in the
  text of a role finding before it looks at the fixability, and makes a tier A plan
  of a finding that only a human may approve.

## 6. Proved and only model-checked

The theorems about the chaos manager and the remediation controller are in
sections 3 and 4. Those about the API service:

* `PlanWorkflowProofs`: `ExecutionIsApproved`, `RowsBehindCluster` and, for the
  action property, `DecisionsAreFinal`, for any users and agents, in both stores; the
  last one leaves out the plan's row, whose decision a late analysis can take back.
  `ExecutionApproved` is not inductive, because the handler checks the copy of
  the decision in the RemediationPlan and not the ApprovalRequest. `PlanIInv` adds
  that plan and request agree once the plan has a decision (`ObjectsAgree`), that
  the rows only show what the objects have (`RowsAgree`), and, per actor, what its
  job may carry at the step it has reached (`JobFits`): a request that stands
  between the two writes holds the decision that the ApprovalRequest already has.
* `ApiProofs!WithdrawnKeysAreRefused` (`WithdrawnKeysDie`), for any number of
  requests. The cache was stored at some time `s`, with keys that were published at
  most one fetch before `s` and a lifetime of at most one maximal age after it
  (`StoredAt`); what a request holds was published when it began or later
  (`FetchesRecent`). `s` is hidden in the invariant: the code keeps only the end of
  the lifetime.
* `ApiProofs!ExceptionsNeverReturn`, the action property `ExceptionsOnlyAge`.
  `PgIInv` says what a request holds at its next statement: what it is about to mark
  it marks as expired (`Prepared`), a row that is being created does not exist yet
  and has one creator (`CreatesNew`), one that is being deleted exists or existed
  (`DeletesOld`).
* `ApiProofs!OnlineSourcesAreFresh` (`OnlineIsFresh`), for any adapters and lists.
  What an adapter has found in its first lists is what those lists held, each at
  some moment since the collection began (`Covers`), unless it knows of an error;
  the cache and every answer carry such a moment with them. The moment is bounded
  by the longest collection, `CollectTime`, and the age of the cache by the TTL.
* `ApiProofs!BudgetsAreKept` (`NoSecondBudget`), for any limit, interval, capacity and
  callers. The history is in the order of time, and a window accounts for it: the entry
  behind those it has accepted is older than the window, and the one a whole limit
  further is older than an interval, because the window before began that long ago
  (`Accounts`). A window that was idle for long enough to be swept has no recent
  request, and neither has a caller without a window (`LimiterIInv`), which is why a
  sweep hands out no second budget.
* `ApiProofs!ScansAreFair` (`ScanJudgesItsMoments`), for any objects that come and go.
  A finding that was true at every moment belongs to an object that was always there,
  and what it lacks never was, except for governance, where two objects may take turns
  (`HeldFor`). What a scan finds missing was missing when its list was read, and the
  object that lacks it was read before and is still there, or was empty before it went
  (`MissingIsTrue`, `NamespacesGo`); a workload is not kept by its budget, which is the
  second exception. The order of the lists matters (`ListOrder`).
* `ApiProofs!WalksAreComplete` (`WalkIsComplete`), for any finite set of findings, sort
  fields, page sizes and callers and any number of changes. Of the findings that did
  not move, the walk has returned none twice, none that comes after the cursor, and all
  that were in every result and do not (`WalkedInv`); sorting the rest differently
  leaves them on their side of a cursor that did not move. That a set can be sorted at
  all, hence what `SortFindings` chooses, is `Sortable`, by way of a smallest set that
  could not be (the library's induction theorems cannot be used here, but its
  well-founded minimum can).
* `ApiProofs!AutomaticPlansAreGovernance` (`OnlyGovernanceIsAutomatic`) and
  `ApiProofs!PreviewsAreTrue` (`PreviewTellsTheWrites`), for any finding. The planner
  makes at least one action, and only ones of the catalog, with the parameters that a
  direct write needs and without configured probes (`TypedActions`, `KeptActions`);
  the rest is about the table: tier A, no approval and resource governance are the
  same entry (`CatalogTiers`).
* `AdvisorProofs!OutagesAreCheap` (`OutageCostsOneRequestEach`), for any finite
  number of callers: failures and calls in flight are counted together.
* `AdvisorProofs!OnlyEmptyPromptsAreRefused` (`RefusedOnlyWhenEmpty`), for findings
  and plans of every size. `Rest` counts how often a projection can be shrunk at
  most; each of the 34 rungs makes it smaller, and what is left of it plus the
  attempts made never exceeds `MaxAttempts`. That needs the third conjunct of
  `PromptAssumption`, which holds for the constants of the code with 189 of 256
  attempts: raising a limit of the projection without the attempts breaks it, and TLC
  evaluates it.

The inductive invariants were also checked with TLC on the instances of the runs, with
one exception: `PlannerIInv` quantifies over all sequences of actions, which TLC cannot
enumerate. The assumptions on constants are in the module that declares them and
are evaluated by the runs: types; `MaxAges` and lifetimes that are numbers; a finite
set of callers and of findings; lists of adapters that exist, with at least one
content over time. Hypotheses that a theorem needs beyond those are stated in it.

Only model-checked, with the reason:

* liveness (`ExecutionTerminates`, `StatusCatchesUp`, `RollbackEnds`,
  `BreakerRecovers`, `MemoryReopens`, `AgentExecutes`): fairness and ENABLED are
  beyond the prover;
* `CorrelationIsDeterministic`: the union-find structure is followed, and the windows
  are joined, by recursion and folds over the input, and the reference is a transitive
  closure; both need induction over data. The run covers every input of three
  findings, three times and two rules;
* `PlatformTypeOK`: the types of all the parts in one run. Where a proof needs the
  types of a part they are conjuncts of its inductive invariant (`KeysTypes`,
  `PgTypes`, `AdapterTypes` and so on).

## 7. What is not modelled

* Text, formats and cryptography: redaction, JSON, signatures, key parsing,
  discovery, safe names.
* Checks of the fields of one object, without state: Preflight of a chaos manifest,
  the predicates of the inspector, `validateManagedResourceChange`,
  managed resources, compliance summary.
* Rows that no workflow reads: audit, dashboard, evidence bundle, integrations,
  model settings; the mirrors of findings and exceptions in custom resources.
* The mode without a workflow client (`AllowMemoryWorkflows`), meant for
  development; two leaders of the operator that overlap after a lost lease; two
  plans that share objects; more than one finding in the agent's cycle.
* Telemetry, notifications, console and chart.
