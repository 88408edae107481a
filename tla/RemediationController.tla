------------------------ MODULE RemediationController ------------------------
(***************************************************************************)
(* The operator: RemediationPlanReconciler, the FindingReconciler that     *)
(* shares the Finding status with it, and the three calls of the API's     *)
(* WorkflowClient that change the spec of a plan.                          *)
(*                                                                         *)
(* One leader runs one worker.  Plans, runs, findings, the objects that a  *)
(* snapshot records and the objects that a rollback restores are read from *)
(* the API server; the objects that an action writes and verifies, and the *)
(* snapshot ConfigMap, are read from an informer cache that may lag.  Every *)
(* call is a step.  A read followed by an update is one step: the update   *)
(* carries the resource version that was read, so it takes effect only on  *)
(* what was read and fails otherwise.                                      *)
(*                                                                         *)
(* An object is reduced to whether it exists, whether it carries the       *)
(* managed-by label, which actions' fields it holds, and whether somebody  *)
(* else changed some other field of it.  Finalizers, messages and          *)
(* timestamps are left out.                                                *)
(***************************************************************************)
EXTENDS Integers, Sequences

CONSTANTS
    Plans, Findings, Objects, Actions, None,
    ActionsOf,          \* ActionsOf[p]: spec.actions of plan p
    TargetsOf,          \* TargetsOf[a]: the objects action a writes, in order
    Direct, Invalid,    \* actions with an executor; actions the catalog refuses
    Upserts,            \* direct actions that own the object they write
    Slow,               \* direct actions whose verification waits for a rollout
    ApprovalRequired,   \* plans with approvalPolicy.required
    FindingOf,          \* FindingOf[p]: spec.findingRef
    Initial,            \* the objects before any plan
    Lag,                \* may the caches lag?
    Modes,              \* values KUBEATHRIX_MUTATION_ENABLED may have at a start
    MaxEdits,           \* bound: changes made by others
    MaxGeneration       \* bound: changes of a plan's spec

Values == [exists : BOOLEAN, managed : BOOLEAN, changes : SUBSET Actions,
           edited : BOOLEAN]

\* The actions of a plan that write.  They are its own: another plan may have the
\* same targets.
DirectActions(p) == {ActionsOf[p][i] : i \in DOMAIN ActionsOf[p]} \cap Direct

ASSUME RemediationAssumption ==
    /\ None \notin Plans /\ None \notin Actions /\ None \notin Values
    /\ ActionsOf \in [Plans -> Seq(Actions)]
    /\ TargetsOf \in [Actions -> Seq(Objects) \ {<<>>}]
    /\ Direct \subseteq Actions /\ Invalid \subseteq Actions \ Direct
    /\ Upserts \subseteq Direct /\ Slow \subseteq Direct
    /\ ApprovalRequired \subseteq Plans
    /\ FindingOf \in [Plans -> Findings]
    /\ Initial \in [Objects -> Values] /\ \A o \in Objects : Initial[o].changes = {}
    /\ \A p, q \in Plans : p # q => DirectActions(p) \cap DirectActions(q) = {}
    /\ Lag \in BOOLEAN /\ Modes \subseteq BOOLEAN
    /\ MaxEdits \in Nat /\ MaxGeneration \in Nat

VARIABLES
    spec,               \* spec[p]: the part of the plan that the API writes
    status,             \* status[p]: the part of the plan that the operator writes
    run,                \* run[p]: status.state of the RemediationRun, or "none"
    finding,            \* finding[f]: status of the Finding
    object, cache,      \* the objects, and the informer's view of them
    snapshot, snapCache,\* the snapshot ConfigMap of a plan, and its cached copy
    queued,             \* plans in the work queue
    mutation,           \* MutationEnabled of the running operator
    asked,              \* rollback requests whose eligibility was checked
    pc, job,            \* the worker
    edits, settled,     \* changes made by others; calls have stopped failing
    touched,            \* history: objects a plan wrote
    missed              \* history: plans a rollback of which read a ConfigMap
                        \* that was behind

api == <<spec, asked>>
reports == <<status, run, finding>>
objects == <<object, cache, touched>>
snapshots == <<snapshot, snapCache>>
worker == <<pc, job>>
rest == <<mutation, edits, settled, missed>>
vars == <<api, reports, objects, snapshots, queued, worker, rest>>

-----------------------------------------------------------------------------
(* Values.                                                                 *)

NoObject == [exists |-> FALSE, managed |-> FALSE, changes |-> {}, edited |-> FALSE]

Decisions == {"pending", "approved", "rejected"}

Specs == [decision : Decisions, execution : BOOLEAN, rollback : BOOLEAN,
          generation : Nat]

Phases == {"none", "Prepared", "PendingApproval", "Approved", "Rejected", "Failed",
           "DryRunFailed", "SnapshotFailed", "VerificationFailed", "Verifying",
           "Applied", "DryRunPassed", "ProposalOnly", "RolledBack",
           "RollbackFailed"}

\* planResult.runState for planResult.phase.
RunState(phase) ==
    CASE phase = "Prepared" -> "prepared"
      [] phase = "PendingApproval" -> "pending_approval"
      [] phase = "Approved" -> "approved"
      [] phase = "Verifying" -> "verifying"
      [] phase = "Applied" -> "succeeded"
      [] phase = "DryRunPassed" -> "dry_run_passed"
      [] phase = "ProposalOnly" -> "proposal_only"
      [] phase = "RolledBack" -> "rolled_back"
      [] OTHER -> "failed"

RunStates == {"none"} \cup {RunState(phase) : phase \in Phases}

FindingStatuses ==
    [phase : {"none", "Observed", "Resolved", "Remediating", "Open", "InReview"},
     remediation : {"none", "verified_resolved", "verifying", "rolled_back", "failed"}]

\* The items of one snapshot key: what was read of each target.
Items == [Objects -> Values \cup {None}]

NoItems == [o \in Objects |-> None]

Snapshots == [Actions -> Items]

Saved(data, a) == data[a] # NoItems

Labels == {"idle", "action", "dryRun", "snapshot", "read", "save", "write",
           "verify", "status", "run", "finding", "load", "key", "restore",
           "remove", "check"}

Jobs == [plan : Plans \cup {None}, seen : Specs, action : Actions \cup {None},
         i : Nat, j : Nat, base : Snapshots, items : Items, keys : SUBSET Actions,
         phase : Phases, tally : SUBSET {"applied", "dry_run", "proposal"}]

NoSnapshot == [a \in Actions |-> NoItems]

NoSpec == [decision |-> "pending", execution |-> FALSE, rollback |-> FALSE,
           generation |-> 1]

NoJob == [plan |-> None, seen |-> NoSpec, action |-> None, i |-> 0, j |-> 0,
          base |-> NoSnapshot, items |-> NoItems, keys |-> {}, phase |-> "none", tally |-> {}]

Init ==
    /\ spec = [p \in Plans |-> NoSpec]
    /\ status = [p \in Plans |-> [phase |-> "none", observed |-> 0]]
    /\ run = [p \in Plans |-> "none"]
    /\ finding = [f \in Findings |-> [phase |-> "none", remediation |-> "none"]]
    /\ object = Initial /\ cache = Initial
    /\ snapshot = [p \in Plans |-> NoSnapshot]
    /\ snapCache = snapshot
    /\ queued = Plans
    /\ mutation \in Modes
    /\ asked = {}
    /\ pc = "idle" /\ job = NoJob
    /\ edits = 0 /\ settled = FALSE
    /\ touched = [p \in Plans |-> {}]
    /\ missed = {}

-----------------------------------------------------------------------------
(* Control of the worker.                                                  *)

Goto(label) == pc' = label /\ UNCHANGED job

\* The result is decided; writePlanStatus is the next call.
Finish(phase) ==
    /\ pc' = "status"
    /\ job' = [NoJob EXCEPT !.plan = job.plan, !.seen = job.seen, !.phase = phase]

\* Mutant of Requeue: the error is logged and forgotten.
Forget ==
    /\ UNCHANGED queued
    /\ pc' = "idle" /\ job' = NoJob

\* Reconcile returned an error, or a result that asks for another pass.
Requeue ==
    /\ queued' = queued \cup {job.plan}
    /\ pc' = "idle" /\ job' = NoJob

\* Go on with the next action of the plan.
NextAction(tally) ==
    /\ pc' = "action"
    /\ job' = [job EXCEPT !.i = @ + 1, !.j = 0, !.tally = @ \cup tally,
                          !.action = None, !.base = NoSnapshot,
                          !.items = NoItems]

\* Mutant of NextTarget: only the first target is handled.
OnlyFirstTarget(Done) == Done

\* Go on with the next target at the same label, or leave the loop with Done.
NextTarget(Done) ==
    IF job.j < Len(TargetsOf[job.action])
    THEN pc' = pc /\ job' = [job EXCEPT !.j = @ + 1]
    ELSE Done

StartTargets(label) ==
    /\ pc' = label
    /\ job' = [job EXCEPT !.j = 1]

Target == TargetsOf[job.action][job.j]

Store(o, value) ==
    /\ object' = [object EXCEPT ![o] = value]
    /\ cache' = IF Lag THEN cache ELSE object'

-----------------------------------------------------------------------------
(* Reconcile: the gates.                                                   *)

\* Mutant of Blocked: only an explicit rejection blocks.
BlockedIfRejected(p, s) == p \in ApprovalRequired /\ s.decision = "rejected"

Blocked(p, s) == p \in ApprovalRequired /\ s.decision # "approved"

\* Mutant of Gate: a phase that no other code knows.
GateUnknownPhase(p, s) == "AwaitingApproval"

\* The phase of a plan that must not be executed.
Gate(p, s) ==
    CASE p \in ApprovalRequired /\ s.decision = "rejected" -> "Rejected"
      [] p \in ApprovalRequired /\ s.decision = "pending" -> "PendingApproval"
      [] p \in ApprovalRequired /\ s.decision = "approved" -> "Approved"
      [] OTHER -> "Prepared"

\* Take a plan from the queue and read it.
Reconcile(p) ==
    /\ pc = "idle" /\ p \in queued
    /\ queued' = queued \ {p}
    /\ LET s == spec[p]
           begun == [NoJob EXCEPT !.plan = p, !.seen = s]
           done == status[p] = [phase |-> "RolledBack", observed |-> s.generation]
       IN  \/ /\ s.rollback /\ done
              /\ UNCHANGED worker
           \/ /\ s.rollback /\ ~done
              /\ pc' = "load" /\ job' = begun
           \/ /\ ~s.rollback /\ (Blocked(p, s) \/ ~s.execution)
              /\ pc' = "status" /\ job' = [begun EXCEPT !.phase = Gate(p, s)]
           \/ /\ ~s.rollback /\ ~Blocked(p, s) /\ s.execution
              /\ pc' = "action" /\ job' = [begun EXCEPT !.i = 1]
    /\ UNCHANGED <<api, reports, objects, snapshots, rest>>

-----------------------------------------------------------------------------
(* reconcilePlanActions: the loop over the actions.                        *)

\* The phase of a plan all of whose actions were gone through.
Outcome(tally) ==
    CASE "applied" \in tally -> "Applied"
      [] "applied" \notin tally /\ "dry_run" \in tally -> "DryRunPassed"
      [] tally = {"proposal"} -> "ProposalOnly"
      [] OTHER -> "Prepared"

Action ==
    /\ pc = "action"
    /\ LET actions == ActionsOf[job.plan]
           a == actions[job.i]
       IN  \/ job.i > Len(actions) /\ Finish(Outcome(job.tally))
           \/ /\ job.i <= Len(actions) /\ a \in Invalid
              /\ Finish("Failed")
           \/ /\ job.i <= Len(actions) /\ a \notin Invalid /\ a \notin Direct
              /\ NextAction({"proposal"})
           \/ /\ job.i <= Len(actions) /\ a \in Direct
              /\ pc' = "dryRun" /\ job' = [job EXCEPT !.action = a, !.j = 1]
    /\ UNCHANGED <<api, reports, objects, snapshots, queued, rest>>

\* What an action may write: an object it owns or creates, or one to patch.
CanWrite(a, v) == IF a \in Upserts THEN ~v.exists \/ v.managed ELSE v.exists

\* An upsert replaces the object, a patch sets fields of it.
Effect(a, v) ==
    IF a \in Upserts
    THEN [exists |-> TRUE, managed |-> TRUE, changes |-> {a}, edited |-> FALSE]
    ELSE [v EXCEPT !.changes = @ \cup {a}]

\* Mutant of Accepted: the update does not carry the cached resource version.
AcceptedAnyVersion(a, o) == CanWrite(a, cache[o])

\* A create or update made from the cached object is accepted.
Accepted(a, o) == CanWrite(a, cache[o]) /\ cache[o] = object[o]

\* executeTypedAction(dryRun = true), one target.
DryRun ==
    /\ pc = "dryRun"
    /\ \/ ~Accepted(job.action, Target) /\ Finish("DryRunFailed")
       \/ /\ Accepted(job.action, Target)
          /\ NextTarget(IF mutation
                        THEN pc' = "snapshot" /\ job' = [job EXCEPT !.tally = @ \cup {"dry_run"}]
                        ELSE NextAction({"dry_run"}))
    /\ UNCHANGED <<api, reports, objects, snapshots, queued, rest>>

\* ensureActionSnapshot: the ConfigMap, as the cache shows it, may hold the key
\* already.  If not, the key will be added to what was read here.
EnsureSnapshot ==
    /\ pc = "snapshot"
    /\ LET data == snapCache[job.plan]
       IN  \/ Saved(data, job.action) /\ StartTargets("write")
           \/ /\ ~Saved(data, job.action)
              /\ pc' = "read"
              /\ job' = [job EXCEPT !.base = data, !.j = 1]
    /\ UNCHANGED <<api, reports, objects, snapshots, queued, rest>>

\* snapshotItemsForAction reads the target itself, not the cache.
ReadItem ==
    /\ pc = "read"
    /\ LET items == [job.items EXCEPT ![Target] = object[Target]]
       IN  IF job.j < Len(TargetsOf[job.action])
           THEN pc' = "read" /\ job' = [job EXCEPT !.items = items, !.j = @ + 1]
           ELSE pc' = "save" /\ job' = [job EXCEPT !.items = items]
    /\ UNCHANGED <<api, reports, objects, snapshots, queued, rest>>

\* Mutant of FreshSnapshot: the ConfigMap is replaced whatever it holds.
AnySnapshot == TRUE

\* The ConfigMap is created only if there is none, and updated only from its
\* latest version.
FreshSnapshot == job.base = snapshot[job.plan]

SaveSnapshot ==
    /\ pc = "save"
    /\ \/ /\ FreshSnapshot
          /\ snapshot' = [snapshot EXCEPT ![job.plan] =
                             [job.base EXCEPT ![job.action] = job.items]]
          /\ snapCache' = IF Lag THEN snapCache ELSE snapshot'
          /\ \/ StartTargets("write")
             \/ ~settled /\ Finish("SnapshotFailed")
       \/ /\ ~FreshSnapshot
          /\ Finish("SnapshotFailed")
          /\ UNCHANGED snapshots
    /\ UNCHANGED <<api, reports, objects, queued, rest>>

\* executeTypedAction(dryRun = false), the write of one target; the write may
\* be applied and its answer lost.
Write ==
    /\ pc = "write"
    /\ LET a == job.action
           o == Target
       IN  \/ /\ ~Accepted(a, o)
              /\ Finish("VerificationFailed")
              /\ UNCHANGED objects
           \/ /\ Accepted(a, o)
              /\ Store(o, Effect(a, cache[o]))
              /\ touched' = [touched EXCEPT ![job.plan] = @ \cup {o}]
              /\ \/ NextTarget(StartTargets("verify"))
                 \/ ~settled /\ Finish("VerificationFailed")
    /\ UNCHANGED <<api, reports, snapshots, queued, rest>>

\* The read back, from the cache.
Verified(a, o) == cache[o].exists /\ a \in cache[o].changes

\* Read one target back; the last one may have to wait for its rollout.
Verify ==
    /\ pc = "verify"
    /\ \/ ~Verified(job.action, Target) /\ Finish("VerificationFailed")
       \/ Verified(job.action, Target) /\ NextTarget(NextAction({"applied"}))
       \/ /\ Verified(job.action, Target)
          /\ job.action \in Slow
          /\ Finish("Verifying")
    /\ UNCHANGED <<api, reports, objects, snapshots, queued, rest>>

-----------------------------------------------------------------------------
(* reconcileRollback.                                                      *)

\* What the history keeps of a load: the cache did not show every key.
Loaded(p) ==
    /\ missed' = IF snapCache[p] = snapshot[p] THEN missed ELSE missed \cup {p}
    /\ UNCHANGED <<mutation, edits, settled>>

\* Mutant of LoadSnapshot: waits for a ConfigMap that may never come.
LoadWaits ==
    /\ pc = "load"
    /\ LET keys == {a \in Actions : Saved(snapCache[job.plan], a)}
       IN  \/ keys = {} /\ Requeue
           \/ /\ keys # {} /\ pc' = "key" /\ job' = [job EXCEPT !.keys = keys]
              /\ UNCHANGED queued
    /\ Loaded(job.plan)
    /\ UNCHANGED <<api, reports, objects, snapshots>>

LoadSnapshot ==
    /\ pc = "load"
    /\ LET keys == {a \in Actions : Saved(snapCache[job.plan], a)}
       IN  \/ keys = {} /\ Finish("RollbackFailed")
           \/ keys # {} /\ pc' = "key" /\ job' = [job EXCEPT !.keys = keys]
    /\ Loaded(job.plan)
    /\ UNCHANGED <<api, reports, objects, snapshots, queued>>

\* The keys of a Go map come in any order.
NextKey ==
    /\ pc = "key"
    /\ \/ job.keys = {} /\ Finish("RolledBack")
       \/ \E a \in job.keys :
             /\ pc' = "restore"
             /\ job' = [job EXCEPT !.keys = @ \ {a}, !.action = a, !.j = 1]
    /\ UNCHANGED <<api, reports, objects, snapshots, queued, rest>>

Item == snapshot[job.plan][job.action][Target]

\* Mutant of Kept: an object that did not exist before is left alone.
KeptIfNew == ~Item.exists

\* An object that did not exist before, and does not exist now.
Kept == ~Item.exists /\ ~object[Target].exists

NextItem ==
    IF job.j < Len(TargetsOf[job.action])
    THEN pc' = "restore" /\ job' = [job EXCEPT !.j = @ + 1]
    ELSE pc' = "key" /\ job' = [job EXCEPT !.action = None, !.j = 0]

\* restoreSnapshotItem up to its delete call or its read back.
Restore ==
    /\ pc = "restore"
    /\ LET now == object[Target]
       IN  \/ Kept /\ NextItem /\ UNCHANGED objects
           \/ /\ ~Kept /\ ~Item.exists /\ ~now.managed
              /\ Finish("RollbackFailed")
              /\ UNCHANGED objects
           \/ /\ ~Kept /\ ~Item.exists /\ now.managed
              /\ Goto("remove")
              /\ UNCHANGED objects
           \/ /\ Item.exists
              /\ Store(Target, Item)
              /\ Goto("check")
              /\ UNCHANGED touched
    /\ UNCHANGED <<api, reports, snapshots, queued, rest>>

\* The delete call names the object and nothing else.
Remove ==
    /\ pc = "remove"
    /\ Store(Target, NoObject)
    /\ Goto("check")
    /\ UNCHANGED <<api, reports, snapshots, queued, rest, touched>>

\* objectState: the spec and the labels, where the changes of every action are.
Alike(v, w) == v.exists = w.exists /\ v.managed = w.managed /\ v.changes = w.changes

\* The object is read again and compared with the snapshot.  What somebody else
\* changed in between is seen if it is in the spec or the labels.
Check ==
    /\ pc = "check"
    /\ \/ Alike(object[Target], Item) /\ NextItem
       \/ object[Target] # Item /\ Finish("RollbackFailed")
    /\ UNCHANGED <<api, reports, objects, snapshots, queued, rest>>

-----------------------------------------------------------------------------
(* What Reconcile reports, in three writes.                                *)

\* Nobody changed the plan since it was read.
Unchanged(p) == spec[p].generation = job.seen.generation

\* writePlanStatus.  A status that changed is an event that queues the plan
\* again; one that did not may still carry a new timestamp.
WritePlanStatus ==
    /\ pc = "status"
    /\ LET p == job.plan
           new == [phase |-> job.phase, observed |-> job.seen.generation]
       IN  \/ /\ Unchanged(p)
              /\ status' = [status EXCEPT ![p] = new]
              /\ queued' \in {queued \cup {p}} \cup (IF new = status[p] THEN {queued} ELSE {})
              /\ Goto("run")
           \/ ~Unchanged(p) /\ Requeue /\ UNCHANGED status
    /\ UNCHANGED <<api, run, finding, objects, snapshots, rest>>

UpsertRun ==
    /\ pc = "run"
    /\ run' = [run EXCEPT ![job.plan] = RunState(job.phase)]
    /\ Goto("finding")
    /\ UNCHANGED <<api, status, finding, objects, snapshots, queued, rest>>

\* What updateFindingStatus writes for a run state, or NoReport.
NoReport == [phase |-> "none", remediation |-> "none"]

Report(state) ==
    CASE state = "succeeded" -> [phase |-> "Resolved", remediation |-> "verified_resolved"]
      [] state = "verifying" -> [phase |-> "Remediating", remediation |-> "verifying"]
      [] state = "rolled_back" -> [phase |-> "Open", remediation |-> "rolled_back"]
      [] state = "failed" -> [phase |-> "InReview", remediation |-> "failed"]
      [] OTHER -> NoReport

\* The last write; a plan that is being verified comes back after 5 seconds.
UpdateFindingStatus ==
    /\ pc = "finding"
    /\ LET report == Report(RunState(job.phase))
       IN  finding' = IF report = NoReport THEN finding
                      ELSE [finding EXCEPT ![FindingOf[job.plan]] = report]
    /\ IF job.phase = "Verifying" THEN Requeue
       ELSE pc' = "idle" /\ job' = NoJob /\ UNCHANGED queued
    /\ UNCHANGED <<api, status, run, objects, snapshots, rest>>

\* A call returns an error.  Reconcile records it in the status, or returns it.
FailurePhase ==
    [label \in {"dryRun", "snapshot", "read", "save", "write", "verify",
                "load", "restore", "remove", "check"} |->
        CASE label = "dryRun" -> "DryRunFailed"
          [] label \in {"snapshot", "read", "save"} -> "SnapshotFailed"
          [] label \in {"write", "verify"} -> "VerificationFailed"
          [] OTHER -> "RollbackFailed"]

Fail ==
    /\ ~settled
    /\ \/ pc \in DOMAIN FailurePhase /\ Finish(FailurePhase[pc]) /\ UNCHANGED queued
       \/ pc \in {"status", "run", "finding"} /\ Requeue
    /\ UNCHANGED <<api, reports, objects, snapshots, rest>>

\* FindingReconciler, woken by every change of a Finding.
ObserveFinding(f) ==
    /\ finding[f].phase # "Observed"
    /\ finding' = [finding EXCEPT ![f].phase = "Observed"]
    /\ UNCHANGED <<api, status, run, objects, snapshots, queued, worker, rest>>

-----------------------------------------------------------------------------
(* The API, the cluster and the deployment.                                *)

ChangeSpec(p, s) ==
    /\ spec[p].generation < MaxGeneration
    /\ spec' = [spec EXCEPT ![p] = [s EXCEPT !.generation = @ + 1]]
    /\ queued' = queued \cup {p}
    /\ UNCHANGED <<reports, objects, snapshots, worker, rest>>

\* DecideApproval: a decision is not reversed, and repeating it changes nothing.
DecideApproval(p, decision) ==
    /\ p \in ApprovalRequired
    /\ spec[p].decision = "pending"
    /\ ChangeSpec(p, [spec[p] EXCEPT !.decision = decision])
    /\ UNCHANGED asked

\* RequestExecution writes a new timestamp every time.
RequestExecution(p) ==
    /\ ~Blocked(p, spec[p])
    /\ ChangeSpec(p, [spec[p] EXCEPT !.execution = TRUE])
    /\ UNCHANGED asked

Eligible == {"succeeded", "failed", "verifying"}

\* RequestRollback reads the run first and changes the plan later.
CheckRollback(p) ==
    /\ run[p] \in Eligible
    /\ p \notin asked
    /\ asked' = asked \cup {p}
    /\ UNCHANGED <<spec, reports, objects, snapshots, queued, worker, rest>>

RequestRollback(p) ==
    /\ p \in asked
    /\ asked' = asked \ {p}
    /\ ChangeSpec(p, [spec[p] EXCEPT !.rollback = TRUE])

\* Somebody else changes, deletes or creates an object.
Edit(o) ==
    /\ edits < MaxEdits
    /\ edits' = edits + 1
    /\ \/ /\ object[o].exists /\ ~object[o].edited
          /\ Store(o, [object[o] EXCEPT !.edited = TRUE])
       \/ object[o].exists /\ Store(o, NoObject)
       \/ /\ ~object[o].exists
          /\ Store(o, [NoObject EXCEPT !.exists = TRUE, !.edited = TRUE])
    /\ UNCHANGED <<api, reports, snapshots, queued, worker, touched, mutation, settled, missed>>

\* The informers catch up with one object, or with one ConfigMap.
SyncObject(o) ==
    /\ cache[o] # object[o]
    /\ cache' = [cache EXCEPT ![o] = object[o]]
    /\ UNCHANGED <<api, reports, object, touched, snapshots, queued, worker, rest>>

SyncSnapshot(p) ==
    /\ snapCache[p] # snapshot[p]
    /\ snapCache' = [snapCache EXCEPT ![p] = snapshot[p]]
    /\ UNCHANGED <<api, reports, objects, snapshot, queued, worker, rest>>

\* The periodic resync of the informer.
Resync(p) ==
    /\ p \notin queued
    /\ queued' = queued \cup {p}
    /\ UNCHANGED <<api, reports, objects, snapshots, worker, rest>>

\* The operator stops between any two calls; the next leader lists every plan
\* and fills its caches before it starts.
Restart ==
    /\ ~settled
    /\ pc' = "idle" /\ job' = NoJob
    /\ queued' = Plans
    /\ mutation' \in Modes
    /\ cache' = object /\ snapCache' = snapshot
    /\ UNCHANGED <<api, reports, object, touched, snapshot, edits, settled, missed>>

-----------------------------------------------------------------------------

\* The steps of the worker after it has taken a plan.
Proceed ==
    \/ Action \/ DryRun \/ EnsureSnapshot \/ ReadItem \/ SaveSnapshot
    \/ Write \/ Verify
    \/ LoadSnapshot \/ NextKey \/ Restore \/ Remove \/ Check
    \/ WritePlanStatus \/ UpsertRun \/ UpdateFindingStatus

Requests ==
    \E p \in Plans :
        \/ \E d \in {"approved", "rejected"} : DecideApproval(p, d)
        \/ RequestExecution(p) \/ CheckRollback(p) \/ RequestRollback(p)

Sync == (\E o \in Objects : SyncObject(o)) \/ (\E p \in Plans : SyncSnapshot(p))

Next ==
    \/ \E p \in Plans : Reconcile(p) \/ Resync(p)
    \/ Proceed \/ Fail
    \/ \E f \in Findings : ObserveFinding(f)
    \/ Requests
    \/ \E o \in Objects : Edit(o)
    \/ Sync \/ Restart

Spec == Init /\ [][Next]_vars

\* For liveness: from some moment on calls answer and the leader stays.
Settle ==
    /\ ~settled
    /\ settled' = TRUE
    /\ UNCHANGED <<api, reports, objects, snapshots, queued, worker, mutation, edits, missed>>

\* The worker serves its queue and finishes what it began; the informers catch
\* up; the finding controller serves its queue; calls do not fail for ever.
Fairness ==
    /\ WF_vars(Proceed)
    /\ \A p \in Plans : SF_vars(Reconcile(p)) /\ WF_vars(SyncSnapshot(p))
    /\ \A o \in Objects : WF_vars(SyncObject(o))
    /\ \A f \in Findings : WF_vars(ObserveFinding(f))
    /\ WF_vars(Settle)

LiveSpec == Init /\ [][Next \/ Settle]_vars /\ Fairness

-----------------------------------------------------------------------------
(* Properties.                                                             *)

TypeOK ==
    /\ spec \in [Plans -> Specs]
    /\ status \in [Plans -> [phase : Phases, observed : Nat]]
    /\ run \in [Plans -> RunStates]
    /\ finding \in [Findings -> FindingStatuses]
    /\ object \in [Objects -> Values] /\ cache \in [Objects -> Values]
    /\ snapshot \in [Plans -> Snapshots] /\ snapCache \in [Plans -> Snapshots]
    /\ queued \subseteq Plans /\ asked \subseteq Plans
    /\ mutation \in BOOLEAN /\ settled \in BOOLEAN /\ edits \in Nat
    /\ pc \in Labels /\ job \in Jobs
    /\ pc # "idle" => job.plan \in Plans
    /\ touched \in [Plans -> SUBSET Objects] /\ missed \subseteq Plans

Targets(a) == {TargetsOf[a][j] : j \in DOMAIN TargetsOf[a]}

\* A plan writes an object of the cluster only after its execution was asked
\* for and, where the policy requires it, approved; and only an operator with
\* mutation enabled comes as far as a snapshot or a write.
GatedWrites ==
    /\ \A p \in Plans : touched[p] # {} =>
          spec[p].execution /\ (p \in ApprovalRequired => spec[p].decision = "approved")
    /\ pc \in {"snapshot", "read", "save", "write", "verify"} => mutation

\* Every object a plan wrote has a snapshot under one of the plan's actions, and
\* no snapshot holds the change it is meant to undo: neither a lagging cache nor
\* a crash nor a repeated execution replaces it by a later state.
SnapshotPreChange ==
    \A p \in Plans :
        /\ \A o \in touched[p] : \E a \in DirectActions(p) : snapshot[p][a][o] # None
        /\ \A a \in Actions, o \in Objects :
              snapshot[p][a][o] # None => a \notin snapshot[p][a][o].changes

\* However late the caches are, a patch keeps the fields that others changed, and
\* an upsert leaves alone an object without the managed-by label.  (An upsert of
\* an object with the label, and a rollback, do take back what others changed.)
WritesRespectOthers ==
    [][pc = "write" /\ object' # object /\ edits' = edits =>
          IF job.action \in Upserts
          THEN ~object[Target].exists \/ object[Target].managed
          ELSE object[Target].edited => object'[Target].edited]_vars

\* Applied means that every direct action of the plan is in the cluster, on
\* every object it writes, until a rollback is asked for or others interfere.
AppliedIsInCluster ==
    \A p \in Plans : status[p].phase = "Applied" /\ ~spec[p].rollback /\ edits = 0 =>
        \A a \in DirectActions(p) : \A o \in Targets(a) : a \in object[o].changes

\* Some action, of this or of another plan, found this change when it took its
\* snapshot; its rollback puts the change back.
Held(a, o) ==
    \E q \in Plans, b \in Actions :
        snapshot[q][b][o] # None /\ a \in snapshot[q][b][o].changes

\* A plan that reports RolledBack has left no change of its actions behind, and
\* adds none later, whatever failed, was repeated or was changed by others.  Two
\* things are excepted, and the code does not prevent them: a rollback that read
\* the ConfigMap from a cache that was behind skips the actions it did not see and
\* reports RolledBack all the same, and a change that another action found on the
\* same object is in that action's snapshot, which may be restored later.
RollbackRemovesChanges ==
    \A p \in Plans : status[p].phase = "RolledBack" /\ p \notin missed =>
        \A a \in DirectActions(p), o \in Objects : a \in object[o].changes => Held(a, o)

\* When the worker is done with a plan, the run reports what the plan reports;
\* failed calls and crashes between the two writes are repaired by another pass.
\* (A plan that was rolled back is the exception: see RollbackReported.)
RunAgrees ==
    \A p \in Plans :
        pc = "idle" /\ p \notin queued /\ status[p].phase # "RolledBack"
            => run[p] = RunState(status[p].phase)

\* A plan whose changes are in the cluster can be rolled back through the API:
\* the state of its run is one that RequestRollback accepts.
ChangedIsEligible ==
    \A p \in Plans :
        pc = "idle" /\ p \notin queued /\ ~spec[p].rollback
            /\ (\E a \in DirectActions(p), o \in Objects : a \in object[o].changes)
                => run[p] \in Eligible

\* The status of a plan catches up with its spec again and again.
StatusCatchesUp ==
    \A p \in Plans : []<>(status[p].observed = spec[p].generation)

\* A rollback that was asked for ends with a verdict.
RollbackEnds ==
    \A p \in Plans : spec[p].rollback ~> status[p].phase \in {"RolledBack", "RollbackFailed"}

-----------------------------------------------------------------------------
(* What the documentation says and the code does not do.                   *)

\* A rollback that was reported by the plan is reported by the run, too.
RollbackReported ==
    \A p \in Plans : status[p].phase = "RolledBack" ~> run[p] = "rolled_back"

\* The finding of a plan that stays Applied stays Resolved.
ResolvedIsReported ==
    \A p \in Plans :
        <>[](status[p].phase = "Applied") => <>[](finding[FindingOf[p]].phase = "Resolved")
=============================================================================
