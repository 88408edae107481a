------------------------- MODULE RemediationProofs -------------------------
(***************************************************************************)
(* What is proved about RemediationController, for any plans, actions and  *)
(* objects, with caches that lag and with failures, restarts and changes   *)
(* by others anywhere: types, the gates in front of every write, the       *)
(* snapshots that a rollback needs, the agreement of plan and run, and     *)
(* that a write respects what others did.                                  *)
(*                                                                         *)
(* The snapshots carry the argument.  A key of the ConfigMap, once there,  *)
(* never changes: the update carries the version that was read.  So what a *)
(* lagging cache shows of it is right, an action that writes has its       *)
(* snapshot behind it, and a change that is found anywhere has a snapshot  *)
(* that is older.  An action that takes a snapshot and finds its own       *)
(* change in the object has therefore read a stale ConfigMap, and cannot   *)
(* save.                                                                   *)
(*                                                                         *)
(* The last part is about what the reports are worth: Applied, RolledBack, *)
(* and a run that can be rolled back.  The first and the last need         *)
(* hypotheses on the constants, which the theorems state.                  *)
(***************************************************************************)
EXTENDS RemediationController, TLAPS

-----------------------------------------------------------------------------
(* The inductive invariant *)

Executing == {"dryRun", "snapshot", "read", "save", "write", "verify"}
Restoring == {"restore", "remove", "check"}
\* The labels inside a loop over targets.
Looping == {"dryRun", "read", "write", "verify"} \cup Restoring

\* A change that was ever made has a snapshot.
Known(a) == \E p \in Plans : Saved(snapshot[p], a)

\* The worker is where its job says.
JobPlaced ==
    /\ pc = "action" => job.i \in Nat \ {0}
    /\ pc \in Executing => job.action \in DirectActions(job.plan)
    /\ pc \in Looping => job.action \in Actions /\ job.j \in 1 .. Len(TargetsOf[job.action])

\* The gates it has passed are behind it.
JobAllowed ==
    /\ pc \in {"action"} \cup Executing => job.seen.execution /\ ~Blocked(job.plan, job.seen)
    /\ pc # "idle" =>
         /\ job.seen.execution => spec[job.plan].execution
         /\ job.seen.decision = "approved" => spec[job.plan].decision = "approved"
    /\ pc \in Executing \ {"dryRun"} => mutation

\* The snapshot it takes, and the one it relies on.
JobSnapshots ==
    /\ pc \in {"action", "dryRun", "snapshot"} => job.items = NoItems
    /\ pc \in {"read", "save"} => ~Saved(job.base, job.action)
    /\ pc = "read" => \A k \in 1 .. job.j - 1 : job.items[TargetsOf[job.action][k]] # None
    /\ pc = "save" =>
         \A k \in 1 .. Len(TargetsOf[job.action]) : job.items[TargetsOf[job.action][k]] # None
    /\ pc \in {"read", "save"} =>
         \A o \in Objects : job.items[o] # None => \A a \in job.items[o].changes : Known(a)
    /\ pc \in {"write", "verify"} \cup Restoring => Saved(snapshot[job.plan], job.action)
    /\ pc \in {"key"} \cup Restoring => \A a \in job.keys : Saved(snapshot[job.plan], a)

TouchedAllowed ==
    \A p \in Plans : touched[p] # {} =>
        spec[p].execution /\ (p \in ApprovalRequired => spec[p].decision = "approved")

SnapshotsWhole ==
    \A p \in Plans, a \in Actions :
        Saved(snapshot[p], a) =>
            /\ a \in DirectActions(p)
            /\ \A o \in Targets(a) : snapshot[p][a][o] # None

CachesRight ==
    \A p \in Plans, a \in Actions : Saved(snapCache[p], a) => snapCache[p][a] = snapshot[p][a]

ChangesKnown ==
    /\ \A o \in Objects : \A a \in object[o].changes : Known(a)
    /\ \A p \in Plans, b \in Actions, o \in Objects :
          snapshot[p][b][o] # None => \A a \in snapshot[p][b][o].changes : Known(a)

\* The run reports what the plan reports, or will be made to.
ReportsPending ==
    /\ \A p \in Plans : \/ p \in queued
                        \/ pc # "idle" /\ job.plan = p
                        \/ status[p].phase = "RolledBack"
                        \/ run[p] = RunState(status[p].phase)
    /\ pc \in {"run", "finding"} => status[job.plan].phase = job.phase
    /\ pc = "finding" => run[job.plan] = RunState(job.phase)

WorkerInv == JobPlaced /\ JobAllowed /\ JobSnapshots
DataInv == TouchedAllowed /\ SnapshotsWhole /\ CachesRight /\ ChangesKnown /\ SnapshotPreChange

RemediationInv == TypeOK /\ WorkerInv /\ DataInv /\ ReportsPending

-----------------------------------------------------------------------------
(* Types of what the actions handle *)

LEMMA JobFields ==
  ASSUME TypeOK
  PROVE  /\ job.plan \in Plans \cup {None} /\ job.seen \in Specs
         /\ job.action \in Actions \cup {None} /\ job.i \in Nat /\ job.j \in Nat
         /\ job.base \in Snapshots /\ job.items \in Items /\ job.keys \subseteq Actions
         /\ job.phase \in Phases /\ job.tally \subseteq {"applied", "dry_run", "proposal"}
  BY DEF TypeOK, Jobs

LEMMA NoItemsType == NoItems \in Items
  BY DEF NoItems, Items

LEMMA NoSnapshotType == NoSnapshot \in Snapshots
  BY NoItemsType DEF NoSnapshot, Snapshots

LEMMA NoSpecType == NoSpec \in Specs
  BY DEF NoSpec, Specs, Decisions

LEMMA NoJobType == NoJob \in Jobs
  BY NoItemsType, NoSnapshotType, NoSpecType DEF NoJob, Jobs, Phases

LEMMA NoObjectType == NoObject \in Values /\ NoObject.changes = {}
  BY DEF NoObject, Values

\* The lists of the constants.
LEMMA ListTypes ==
  /\ \A a \in Actions : /\ TargetsOf[a] \in Seq(Objects) /\ Len(TargetsOf[a]) \in Nat \ {0}
                        /\ DOMAIN TargetsOf[a] = 1 .. Len(TargetsOf[a])
                        /\ \A k \in 1 .. Len(TargetsOf[a]) : TargetsOf[a][k] \in Objects
  /\ \A p \in Plans : /\ ActionsOf[p] \in Seq(Actions) /\ Len(ActionsOf[p]) \in Nat
                      /\ \A k \in 1 .. Len(ActionsOf[p]) : ActionsOf[p][k] \in Actions
  /\ \A p \in Plans : DirectActions(p) \subseteq Actions
<1>1. ASSUME NEW a \in Actions
      PROVE  /\ TargetsOf[a] \in Seq(Objects) /\ Len(TargetsOf[a]) \in Nat \ {0}
             /\ DOMAIN TargetsOf[a] = 1 .. Len(TargetsOf[a])
             /\ \A k \in 1 .. Len(TargetsOf[a]) : TargetsOf[a][k] \in Objects
  <2>1. TargetsOf[a] \in Seq(Objects) /\ TargetsOf[a] # <<>>
    BY RemediationAssumption
  <2>. QED
    BY <2>1
<1>2. ASSUME NEW p \in Plans
      PROVE  /\ ActionsOf[p] \in Seq(Actions) /\ Len(ActionsOf[p]) \in Nat
             /\ \A k \in 1 .. Len(ActionsOf[p]) : ActionsOf[p][k] \in Actions
  BY RemediationAssumption
<1>3. ASSUME NEW p \in Plans PROVE DirectActions(p) \subseteq Actions
  BY RemediationAssumption DEF DirectActions
<1>. QED
  BY <1>1, <1>2, <1>3

LEMMA TargetType ==
  ASSUME TypeOK, JobPlaced, pc \in Looping
  PROVE  /\ job.action \in Actions /\ job.plan \in Plans /\ Target \in Objects
         /\ Target \in Targets(job.action)
         /\ object[Target] \in Values /\ cache[Target] \in Values
<1>1. job.action \in Actions /\ job.j \in 1 .. Len(TargetsOf[job.action])
  BY DEF JobPlaced
<1>2. Target \in Objects /\ Target \in Targets(job.action)
  BY <1>1, ListTypes DEF Target, Targets
<1>. QED
  BY <1>1, <1>2 DEF TypeOK, Looping, Restoring

-----------------------------------------------------------------------------
(* The moves of the worker *)

LEMMA FinishMoves ==
  ASSUME TypeOK, NEW phase \in Phases, Finish(phase)
  PROVE  /\ pc' = "status" /\ job' \in Jobs /\ job'.plan = job.plan /\ job'.seen = job.seen
         /\ job'.phase = phase
  BY JobFields, NoJobType DEF Finish, Jobs

LEMMA NextActionMoves ==
  ASSUME TypeOK, NEW tally \in SUBSET {"applied", "dry_run", "proposal"}, NextAction(tally)
  PROVE  /\ pc' = "action" /\ job' \in Jobs /\ job'.plan = job.plan /\ job'.seen = job.seen
         /\ job'.i = job.i + 1 /\ job'.items = NoItems
<1>. PICK n \in Nat : n = job.i + 1
  BY JobFields
<1>. PICK t \in SUBSET {"applied", "dry_run", "proposal"} : t = job.tally \cup tally
  BY JobFields
<1>1. /\ pc' = "action" /\ job \in Jobs
      /\ job' = [job EXCEPT !.i = n, !.j = 0, !.tally = t, !.action = None,
                            !.base = NoSnapshot, !.items = NoItems]
  BY DEF NextAction, TypeOK
<1>2. job' \in Jobs /\ job'.plan = job.plan /\ job'.seen = job.seen /\ job'.i = n
      /\ job'.items = NoItems
  BY <1>1, NoItemsType, NoSnapshotType DEF Jobs
<1>. QED
  BY <1>1, <1>2

LEMMA StartTargetsMoves ==
  ASSUME TypeOK, NEW label, StartTargets(label)
  PROVE  /\ pc' = label /\ job' \in Jobs /\ job'.plan = job.plan /\ job'.seen = job.seen
         /\ job'.action = job.action /\ job'.j = 1 /\ job'.keys = job.keys
  BY JobFields DEF StartTargets, Jobs, TypeOK

LEMMA NextIndexMoves ==
  ASSUME TypeOK, job' = [job EXCEPT !.j = @ + 1]
  PROVE  /\ job' \in Jobs /\ job'.plan = job.plan /\ job'.seen = job.seen
         /\ job'.action = job.action /\ job'.j = job.j + 1 /\ job'.keys = job.keys
         /\ job'.items = job.items
<1>. PICK n \in Nat : n = job.j + 1
  BY JobFields
<1>1. job \in Jobs /\ job' = [job EXCEPT !.j = n]
  BY DEF TypeOK
<1>2. /\ job' \in Jobs /\ job'.plan = job.plan /\ job'.seen = job.seen
      /\ job'.action = job.action /\ job'.j = n /\ job'.keys = job.keys
      /\ job'.items = job.items
  BY <1>1 DEF Jobs
<1>. QED
  BY <1>2

-----------------------------------------------------------------------------
(* What no step undoes, and what the worker therefore still knows *)

Grows ==
    /\ \A p \in Plans :
          /\ spec[p].execution => spec'[p].execution
          /\ spec[p].decision = "approved" => spec'[p].decision = "approved"
    /\ \A p \in Plans, a \in Actions :
          Saved(snapshot[p], a) => snapshot'[p][a] = snapshot[p][a]

LEMMA SavedStays ==
  ASSUME Grows, NEW p \in Plans, NEW a \in Actions, Saved(snapshot[p], a)
  PROVE  Saved(snapshot'[p], a)
  BY DEF Grows, Saved

LEMMA KnownStays ==
  ASSUME Grows
  PROVE  \A a \in Actions : Known(a) => Known(a)'
  BY SavedStays DEF Known

LEMMA AllowedStays ==
  ASSUME TypeOK, JobAllowed, Grows, pc # "idle",
         job'.plan = job.plan, job'.seen = job.seen,
         pc' \in {"action"} \cup Executing => pc \in {"action"} \cup Executing,
         pc' \in Executing \ {"dryRun"} => mutation'
  PROVE  JobAllowed'
<1>1. job.plan \in Plans
  BY DEF TypeOK
<1>. QED
  BY <1>1 DEF JobAllowed, Grows, Blocked

LEMMA IdleWorker ==
  ASSUME pc' = "idle"
  PROVE  WorkerInv'
  BY DEF WorkerInv, JobPlaced, JobAllowed, JobSnapshots, Executing, Restoring, Looping

\* At these labels the worker relies on no snapshot.
LEMMA ReportingWorker ==
  ASSUME TypeOK, WorkerInv, Grows, pc # "idle",
         job'.plan = job.plan, job'.seen = job.seen, pc' \in {"status", "run", "finding"}
  PROVE  WorkerInv'
<1>1. pc' \notin {"action", "dryRun", "snapshot", "read", "save", "write", "verify", "key"} \cup Executing
                   \cup Restoring \cup Looping
  BY DEF Executing, Restoring, Looping
<1>2. JobPlaced' /\ JobSnapshots'
  BY <1>1 DEF JobPlaced, JobSnapshots
<1>3. JobAllowed'
  BY <1>1, AllowedStays DEF WorkerInv
<1>. QED
  BY <1>2, <1>3 DEF WorkerInv

LEMMA WorkerWaits ==
  ASSUME TypeOK, WorkerInv, Grows, UNCHANGED <<worker, mutation>>
  PROVE  WorkerInv'
<1>1. pc' = pc /\ job' = job /\ mutation' = mutation
  BY DEF worker
<1>2. JobPlaced'
  BY <1>1 DEF WorkerInv, JobPlaced
<1>3. JobAllowed'
  <2>1. CASE pc = "idle"
    BY <1>1, <2>1 DEF JobAllowed, Executing
  <2>2. CASE pc # "idle"
    <3>1. JobAllowed
      BY DEF WorkerInv
    <3>. QED
      BY <1>1, <2>2, <3>1, AllowedStays DEF JobAllowed
  <2>. QED
    BY <2>1, <2>2
<1>4. JobSnapshots'
  <2>1. pc \in {"read", "save"} =>
          \A o \in Objects : job.items[o] # None => \A a \in job.items[o].changes : Known(a)'
    <3>. SUFFICES ASSUME pc \in {"read", "save"}, NEW o \in Objects, job.items[o] # None,
                         NEW a \in job.items[o].changes
                  PROVE  Known(a)'
      OBVIOUS
    <3>1. job.items[o] \in Values
      BY JobFields DEF Items
    <3>2. a \in Actions /\ Known(a)
      BY <3>1 DEF Values, WorkerInv, JobSnapshots
    <3>. QED
      BY <3>2, KnownStays
  <2>2. pc \in {"write", "verify"} \cup Restoring => Saved(snapshot'[job.plan], job.action)
    <3>1. pc \in {"write", "verify"} \cup Restoring => job.plan \in Plans /\ job.action \in Actions
      BY DEF TypeOK, WorkerInv, JobPlaced, Looping, Restoring
    <3>. QED
      BY <3>1, SavedStays DEF WorkerInv, JobSnapshots
  <2>3. pc \in {"key"} \cup Restoring => \A a \in job.keys : Saved(snapshot'[job.plan], a)
    <3>1. pc \in {"key"} \cup Restoring => job.plan \in Plans /\ job.keys \subseteq Actions
      BY JobFields DEF TypeOK, Restoring
    <3>. QED
      BY <3>1, SavedStays DEF WorkerInv, JobSnapshots
  <2>. QED
    BY <1>1, <2>1, <2>2, <2>3 DEF WorkerInv, JobSnapshots
<1>. QED
  BY <1>2, <1>3, <1>4 DEF WorkerInv

-----------------------------------------------------------------------------
(* Steps of the worker that write nothing *)

Quiet ==
    /\ UNCHANGED <<api, reports, objects, snapshots, queued, mutation, edits, settled>>
    /\ missed' = missed \/ missed' = missed \cup {job.plan}

LEMMA QuietGrows ==
  ASSUME Quiet
  PROVE  Grows
  BY DEF Quiet, Grows, api, snapshots

LEMMA QuietStep ==
  ASSUME RemediationInv, Quiet, WorkerInv', pc # "idle",
         pc' \in Labels \ {"idle", "run", "finding"}, job' \in Jobs, job'.plan = job.plan
  PROVE  RemediationInv'
<1>1. UNCHANGED <<spec, asked, status, run, finding, object, cache, touched, snapshot,
                  snapCache, queued, mutation, edits, settled>>
  BY DEF Quiet, api, reports, objects, snapshots
<1>2. TypeOK'
  <2>1. missed' \subseteq Plans
    BY DEF Quiet, RemediationInv, TypeOK
  <2>. QED
    BY <1>1, <2>1 DEF RemediationInv, TypeOK
<1>3. DataInv'
  BY <1>1 DEF RemediationInv, DataInv, TouchedAllowed, SnapshotsWhole, CachesRight,
     ChangesKnown, Known, SnapshotPreChange
<1>4. ReportsPending'
  BY <1>1 DEF RemediationInv, ReportsPending
<1>. QED
  BY <1>2, <1>3, <1>4 DEF RemediationInv

LEMMA QuietFinish ==
  ASSUME RemediationInv, Quiet, pc # "idle", NEW phase \in Phases, Finish(phase)
  PROVE  RemediationInv'
<1>1. TypeOK /\ WorkerInv /\ Grows
  BY QuietGrows DEF RemediationInv
<1>2. pc' = "status" /\ job' \in Jobs /\ job'.plan = job.plan /\ job'.seen = job.seen
  BY <1>1, FinishMoves
<1>3. WorkerInv'
  BY <1>1, <1>2, ReportingWorker
<1>. QED
  BY <1>2, <1>3, QuietStep DEF Labels

LEMMA NextActionKeeps ==
  ASSUME RemediationInv, Quiet, pc \in {"action"} \cup Executing,
         NEW tally \in SUBSET {"applied", "dry_run", "proposal"}, NextAction(tally)
  PROVE  RemediationInv'
<1>1. TypeOK /\ WorkerInv /\ Grows /\ pc # "idle"
  BY QuietGrows DEF RemediationInv, Executing
<1>2. /\ pc' = "action" /\ job' \in Jobs /\ job'.plan = job.plan /\ job'.seen = job.seen
      /\ job'.i = job.i + 1 /\ job'.items = NoItems
  BY <1>1, NextActionMoves
<1>3. JobPlaced' /\ JobSnapshots'
  <2>1. job'.i \in Nat \ {0}
    BY <1>1, <1>2, JobFields
  <2>. QED
    BY <1>2, <2>1 DEF JobPlaced, JobSnapshots, Executing, Restoring, Looping
<1>4. JobAllowed'
  BY <1>1, <1>2, AllowedStays DEF WorkerInv, Executing
<1>5. WorkerInv'
  BY <1>3, <1>4 DEF WorkerInv
<1>. QED
  BY <1>1, <1>2, <1>5, QuietStep DEF Labels

\* The loop over targets goes on.  Reading for a snapshot is a loop of its own.
LEMMA LoopGoesOn ==
  ASSUME TypeOK, WorkerInv, Grows, UNCHANGED mutation, pc \in Looping \ {"read"},
         job.j < Len(TargetsOf[job.action]), job' = [job EXCEPT !.j = @ + 1],
         pc' = pc \/ (pc \in Restoring /\ pc' = "restore")
  PROVE  WorkerInv' /\ job' \in Jobs /\ job'.plan = job.plan
<1>1. /\ job' \in Jobs /\ job'.plan = job.plan /\ job'.seen = job.seen
      /\ job'.action = job.action /\ job'.j = job.j + 1 /\ job'.keys = job.keys
      /\ job'.items = job.items
  BY NextIndexMoves
<1>2. /\ job.action \in Actions /\ job.j \in 1 .. Len(TargetsOf[job.action])
      /\ job.plan \in Plans /\ job.keys \subseteq Actions
  BY JobFields DEF WorkerInv, JobPlaced, TypeOK, Looping, Restoring
<1>3. JobPlaced'
  <2>1. job.j + 1 \in 1 .. Len(TargetsOf[job.action])
    BY <1>2, ListTypes
  <2>. QED
    BY <1>1, <1>2, <2>1 DEF WorkerInv, JobPlaced, Looping, Restoring, Executing
<1>4. JobAllowed'
  BY <1>1, AllowedStays DEF WorkerInv, JobAllowed, Looping, Restoring, Executing
<1>5. JobSnapshots'
  <2>1. pc' \in {"write", "verify"} \cup Restoring => Saved(snapshot'[job.plan], job.action)
    BY <1>2, SavedStays DEF WorkerInv, JobSnapshots, Restoring
  <2>2. pc' \in Restoring => \A a \in job.keys : Saved(snapshot'[job.plan], a)
    BY <1>2, SavedStays DEF WorkerInv, JobSnapshots, Restoring
  <2>3. pc' \notin {"read", "save", "key"}
    BY DEF Looping, Restoring
  <2>4. pc' \in {"action", "dryRun", "snapshot"} => job'.items = NoItems
    BY <1>1 DEF WorkerInv, JobSnapshots, Restoring
  <2>. QED
    BY <1>1, <2>1, <2>2, <2>3, <2>4 DEF JobSnapshots
<1>. QED
  BY <1>1, <1>3, <1>4, <1>5 DEF WorkerInv

LEMMA ActionKeeps ==
  ASSUME RemediationInv, Action
  PROVE  RemediationInv'
<1>. DEFINE actions == ActionsOf[job.plan]
            a == actions[job.i]
<1>1. TypeOK /\ WorkerInv /\ Quiet /\ pc = "action" /\ job.plan \in Plans /\ job.i \in Nat \ {0}
  BY DEF RemediationInv, Action, Quiet, rest, TypeOK, WorkerInv, JobPlaced
<1>2. CASE job.i > Len(actions) /\ Finish(Outcome(job.tally))
  <2>1. Outcome(job.tally) \in Phases
    BY DEF Outcome, Phases
  <2>. QED
    BY <1>1, <1>2, <2>1, QuietFinish
<1>3. CASE Finish("Failed")
  BY <1>1, <1>3, QuietFinish DEF Phases
<1>4. CASE NextAction({"proposal"})
  BY <1>1, <1>4, NextActionKeeps
<1>5. CASE /\ job.i <= Len(actions) /\ a \in Direct
           /\ pc' = "dryRun" /\ job' = [job EXCEPT !.action = a, !.j = 1]
  <2>1. job.i \in 1 .. Len(actions)
    BY <1>1, <1>5, ListTypes
  <2>2. a \in Actions /\ a \in DirectActions(job.plan)
    <3>1. DOMAIN actions = 1 .. Len(actions)
      BY <1>1, ListTypes
    <3>. QED
      BY <1>1, <1>5, <2>1, <3>1, ListTypes DEF DirectActions
  <2>. HIDE DEF a
  <2>3. /\ job' \in Jobs /\ job'.plan = job.plan /\ job'.seen = job.seen
        /\ job'.action = a /\ job'.j = 1 /\ job'.items = job.items
    BY <1>1, <1>5, <2>2, JobFields DEF Jobs, TypeOK
  <2>4. JobPlaced' /\ JobSnapshots'
    <3>1. 1 \in 1 .. Len(TargetsOf[a])
      BY <2>2, ListTypes
    <3>. QED
      BY <1>1, <1>5, <2>2, <2>3, <3>1
         DEF WorkerInv, JobPlaced, JobSnapshots, Executing, Restoring, Looping
  <2>5. JobAllowed'
    BY <1>1, <1>5, <2>3, QuietGrows, AllowedStays DEF WorkerInv, Executing
  <2>6. WorkerInv'
    BY <2>4, <2>5 DEF WorkerInv
  <2>. QED
    BY <1>1, <1>5, <2>3, <2>6, QuietStep DEF Labels
<1>. QED
  BY <1>1, <1>2, <1>3, <1>4, <1>5 DEF Action

LEMMA DryRunKeeps ==
  ASSUME RemediationInv, DryRun
  PROVE  RemediationInv'
<1>1. TypeOK /\ WorkerInv /\ Quiet /\ Grows /\ pc = "dryRun" /\ UNCHANGED mutation
  BY QuietGrows DEF RemediationInv, DryRun, Quiet, rest
<1>2. CASE Finish("DryRunFailed")
  BY <1>1, <1>2, QuietFinish DEF Phases
<1>3. CASE /\ job.j < Len(TargetsOf[job.action]) /\ pc' = pc
           /\ job' = [job EXCEPT !.j = @ + 1]
  <2>1. WorkerInv' /\ job' \in Jobs /\ job'.plan = job.plan
    BY <1>1, <1>3, LoopGoesOn DEF Looping
  <2>. QED
    BY <1>1, <1>3, <2>1, QuietStep DEF Labels
<1>4. CASE NextAction({"dry_run"})
  BY <1>1, <1>4, NextActionKeeps DEF Executing
<1>5. CASE mutation /\ pc' = "snapshot" /\ job' = [job EXCEPT !.tally = @ \cup {"dry_run"}]
  <2>. PICK t \in SUBSET {"applied", "dry_run", "proposal"} : t = job.tally \cup {"dry_run"}
    BY <1>1, JobFields
  <2>1. job \in Jobs /\ job' = [job EXCEPT !.tally = t]
    BY <1>1, <1>5 DEF TypeOK
  <2>2. /\ job' \in Jobs /\ job'.plan = job.plan /\ job'.seen = job.seen
        /\ job'.action = job.action /\ job'.items = job.items
    BY <2>1 DEF Jobs
  <2>3. JobPlaced' /\ JobSnapshots'
    BY <1>1, <1>5, <2>2 DEF WorkerInv, JobPlaced, JobSnapshots, Executing, Restoring, Looping
  <2>4. JobAllowed'
    BY <1>1, <1>5, <2>2, AllowedStays DEF WorkerInv, Executing
  <2>5. WorkerInv'
    BY <2>3, <2>4 DEF WorkerInv
  <2>. QED
    BY <1>1, <1>5, <2>2, <2>5, QuietStep DEF Labels
<1>. QED
  BY <1>1, <1>2, <1>3, <1>4, <1>5 DEF DryRun, NextTarget

LEMMA EnsureSnapshotKeeps ==
  ASSUME RemediationInv, EnsureSnapshot
  PROVE  RemediationInv'
<1>. DEFINE data == snapCache[job.plan]
<1>1. /\ TypeOK /\ WorkerInv /\ Quiet /\ Grows /\ pc = "snapshot" /\ UNCHANGED mutation
      /\ job.plan \in Plans /\ job.action \in DirectActions(job.plan) /\ mutation
  BY QuietGrows DEF RemediationInv, EnsureSnapshot, Quiet, rest, TypeOK, WorkerInv, JobPlaced,
     JobAllowed, Executing
<1>2. job.action \in Actions /\ 1 \in 1 .. Len(TargetsOf[job.action])
  BY <1>1, ListTypes
<1>3. CASE Saved(data, job.action) /\ StartTargets("write")
  <2>1. /\ pc' = "write" /\ job' \in Jobs /\ job'.plan = job.plan /\ job'.seen = job.seen
        /\ job'.action = job.action /\ job'.j = 1
    BY <1>1, <1>3, StartTargetsMoves
  <2>2. Saved(snapshot[job.plan], job.action)
    BY <1>1, <1>2, <1>3 DEF RemediationInv, DataInv, CachesRight, Saved
  <2>3. snapshot' = snapshot
    BY <1>1 DEF Quiet, snapshots
  <2>4. JobPlaced' /\ JobSnapshots'
    BY <1>1, <1>2, <2>1, <2>2, <2>3
       DEF JobPlaced, JobSnapshots, Executing, Restoring, Looping
  <2>5. JobAllowed'
    BY <1>1, <2>1, AllowedStays DEF WorkerInv, Executing
  <2>6. WorkerInv'
    BY <2>4, <2>5 DEF WorkerInv
  <2>. QED
    BY <1>1, <2>1, <2>6, QuietStep DEF Labels
<1>4. CASE /\ ~Saved(data, job.action) /\ pc' = "read"
           /\ job' = [job EXCEPT !.base = data, !.j = 1]
  <2>1. data \in Snapshots /\ job.items = NoItems
    BY <1>1 DEF TypeOK, WorkerInv, JobSnapshots
  <2>2. /\ job' \in Jobs /\ job'.plan = job.plan /\ job'.seen = job.seen
        /\ job'.action = job.action /\ job'.j = 1 /\ job'.base = data /\ job'.items = job.items
    BY <1>1, <1>4, <2>1, JobFields DEF Jobs, TypeOK
  <2>3. JobPlaced'
    BY <1>1, <1>2, <1>4, <2>2 DEF JobPlaced, Executing, Restoring, Looping
  <2>4. JobSnapshots'
    <3>1. \A o \in Objects : job'.items[o] = None
      BY <2>1, <2>2 DEF NoItems
    <3>2. \A k \in 1 .. job'.j - 1 : FALSE
      BY <2>2
    <3>3. ~Saved(job'.base, job'.action)
      BY <1>4, <2>2
    <3>. QED
      BY <1>4, <3>1, <3>2, <3>3 DEF JobSnapshots, Restoring
  <2>5. JobAllowed'
    BY <1>1, <1>4, <2>2, AllowedStays DEF WorkerInv, Executing
  <2>6. WorkerInv'
    BY <2>3, <2>4, <2>5 DEF WorkerInv
  <2>. QED
    BY <1>1, <1>4, <2>2, <2>6, QuietStep DEF Labels
<1>. QED
  BY <1>3, <1>4 DEF EnsureSnapshot

LEMMA ReadItemKeeps ==
  ASSUME RemediationInv, ReadItem
  PROVE  RemediationInv'
<1>. DEFINE items == [job.items EXCEPT ![Target] = object[Target]]
            targets == TargetsOf[job.action]
<1>1. /\ TypeOK /\ WorkerInv /\ Quiet /\ Grows /\ pc = "read" /\ UNCHANGED mutation
      /\ job.plan \in Plans /\ job.action \in Actions /\ job.action \in DirectActions(job.plan)
      /\ job.j \in 1 .. Len(targets) /\ Len(targets) \in Nat
  BY QuietGrows, ListTypes DEF RemediationInv, ReadItem, Quiet, rest, TypeOK, WorkerInv, JobPlaced,
     Executing, Looping
<1>2. Target \in Objects /\ object[Target] \in Values /\ Target = targets[job.j]
  BY <1>1, TargetType DEF Target, WorkerInv, Looping
<1>3. /\ items \in Items /\ items[Target] # None
      /\ \A o \in Objects : items[o] = job.items[o] \/ items[o] = object[Target]
      /\ \A o \in Objects : job.items[o] # None => items[o] # None
  BY <1>1, <1>2, JobFields, RemediationAssumption DEF Items
<1>4. \A o \in Objects : items[o] # None => \A a \in items[o].changes : Known(a)'
  <2>. SUFFICES ASSUME NEW o \in Objects, items[o] # None, NEW a \in items[o].changes
                PROVE  Known(a)'
    OBVIOUS
  <2>1. a \in Actions
    <3>1. items[o] \in Values
      BY <1>3 DEF Items
    <3>. QED
      BY <3>1 DEF Values
  <2>2. Known(a)
    <3>1. CASE items[o] = job.items[o]
      BY <1>1, <3>1 DEF WorkerInv, JobSnapshots
    <3>2. CASE items[o] = object[Target]
      BY <1>2, <3>2 DEF RemediationInv, DataInv, ChangesKnown
    <3>. QED
      BY <1>3, <3>1, <3>2
  <2>. QED
    BY <1>1, <2>1, <2>2, KnownStays
<1>5. \A k \in 1 .. job.j : items[targets[k]] # None
  <2>. SUFFICES ASSUME NEW k \in 1 .. job.j PROVE items[targets[k]] # None
    OBVIOUS
  <2>1. CASE k = job.j
    BY <1>2, <1>3, <2>1
  <2>2. CASE k # job.j
    <3>1. k \in 1 .. job.j - 1 /\ k \in 1 .. Len(targets)
      BY <1>1, <2>2
    <3>2. targets[k] \in Objects
      BY <1>1, <3>1, ListTypes
    <3>. QED
      BY <1>1, <1>3, <3>1, <3>2 DEF WorkerInv, JobSnapshots
  <2>. QED
    BY <2>1, <2>2
<1>. HIDE DEF items
<1>6. CASE /\ job.j < Len(targets) /\ pc' = "read"
           /\ job' = [job EXCEPT !.items = items, !.j = @ + 1]
  <2>. PICK n \in Nat : n = job.j + 1
    BY <1>1
  <2>1. job \in Jobs /\ job' = [job EXCEPT !.items = items, !.j = n]
    BY <1>1, <1>6 DEF TypeOK
  <2>2. /\ job' \in Jobs /\ job'.plan = job.plan /\ job'.seen = job.seen /\ job'.items = items
        /\ job'.action = job.action /\ job'.j = n /\ job'.base = job.base
    BY <1>3, <2>1 DEF Jobs
  <2>3. n \in 1 .. Len(targets) /\ n - 1 = job.j
    BY <1>1, <1>6
  <2>4. JobPlaced'
    BY <1>1, <1>6, <2>2, <2>3 DEF JobPlaced, Executing, Restoring, Looping
  <2>5. JobSnapshots'
    BY <1>1, <1>4, <1>5, <1>6, <2>2, <2>3 DEF WorkerInv, JobSnapshots, Restoring
  <2>6. JobAllowed'
    BY <1>1, <1>6, <2>2, AllowedStays DEF WorkerInv, JobAllowed, Executing
  <2>7. WorkerInv'
    BY <2>4, <2>5, <2>6 DEF WorkerInv
  <2>. QED
    BY <1>1, <1>6, <2>2, <2>7, QuietStep DEF Labels
<1>7. CASE ~(job.j < Len(targets)) /\ pc' = "save" /\ job' = [job EXCEPT !.items = items]
  <2>1. /\ job' \in Jobs /\ job'.plan = job.plan /\ job'.seen = job.seen /\ job'.items = items
        /\ job'.action = job.action /\ job'.base = job.base
    BY <1>1, <1>3, <1>7 DEF Jobs, TypeOK
  <2>2. Len(targets) = job.j
    BY <1>1, <1>7
  <2>3. JobPlaced'
    BY <1>1, <1>7, <2>1 DEF JobPlaced, Executing, Restoring, Looping
  <2>4. JobSnapshots'
    BY <1>1, <1>4, <1>5, <1>7, <2>1, <2>2 DEF WorkerInv, JobSnapshots, Restoring
  <2>5. JobAllowed'
    BY <1>1, <1>7, <2>1, AllowedStays DEF WorkerInv, JobAllowed, Executing
  <2>6. WorkerInv'
    BY <2>3, <2>4, <2>5 DEF WorkerInv
  <2>. QED
    BY <1>1, <1>7, <2>1, <2>6, QuietStep DEF Labels
<1>. QED
  BY <1>6, <1>7 DEF ReadItem, items

LEMMA VerifyKeeps ==
  ASSUME RemediationInv, Verify
  PROVE  RemediationInv'
<1>1. TypeOK /\ WorkerInv /\ Quiet /\ Grows /\ pc = "verify" /\ UNCHANGED mutation
  BY QuietGrows DEF RemediationInv, Verify, Quiet, rest
<1>2. CASE Finish("VerificationFailed") \/ Finish("Verifying")
  BY <1>1, <1>2, QuietFinish DEF Phases
<1>3. CASE /\ job.j < Len(TargetsOf[job.action]) /\ pc' = pc
           /\ job' = [job EXCEPT !.j = @ + 1]
  <2>1. WorkerInv' /\ job' \in Jobs /\ job'.plan = job.plan
    BY <1>1, <1>3, LoopGoesOn DEF Looping
  <2>. QED
    BY <1>1, <1>3, <2>1, QuietStep DEF Labels
<1>4. CASE NextAction({"applied"})
  BY <1>1, <1>4, NextActionKeeps DEF Executing
<1>. QED
  BY <1>2, <1>3, <1>4 DEF Verify, NextTarget

LEMMA LoadSnapshotKeeps ==
  ASSUME RemediationInv, LoadSnapshot
  PROVE  RemediationInv'
<1>. DEFINE keys == {a \in Actions : Saved(snapCache[job.plan], a)}
<1>1. /\ TypeOK /\ WorkerInv /\ Quiet /\ Grows /\ pc = "load" /\ UNCHANGED mutation
      /\ job.plan \in Plans
  BY QuietGrows DEF RemediationInv, LoadSnapshot, Loaded, Quiet, TypeOK
<1>2. CASE Finish("RollbackFailed")
  BY <1>1, <1>2, QuietFinish DEF Phases
<1>3. CASE pc' = "key" /\ job' = [job EXCEPT !.keys = keys]
  <2>1. keys \subseteq Actions /\ \A a \in keys : Saved(snapshot[job.plan], a)
    BY <1>1 DEF RemediationInv, DataInv, CachesRight, Saved
  <2>2. snapshot' = snapshot
    BY <1>1 DEF Quiet, snapshots
  <2>. HIDE DEF keys
  <2>3. job' \in Jobs /\ job'.plan = job.plan /\ job'.seen = job.seen /\ job'.keys = keys
    BY <1>1, <1>3, <2>1 DEF Jobs, TypeOK
  <2>4. JobPlaced' /\ JobSnapshots'
    BY <1>3, <2>1, <2>2, <2>3 DEF JobPlaced, JobSnapshots, Executing, Restoring, Looping
  <2>5. JobAllowed'
    BY <1>1, <1>3, <2>3, AllowedStays DEF WorkerInv, Executing
  <2>6. WorkerInv'
    BY <2>4, <2>5 DEF WorkerInv
  <2>. QED
    BY <1>1, <1>3, <2>3, <2>6, QuietStep DEF Labels
<1>. QED
  BY <1>2, <1>3 DEF LoadSnapshot

LEMMA NextKeyKeeps ==
  ASSUME RemediationInv, NextKey
  PROVE  RemediationInv'
<1>1. /\ TypeOK /\ WorkerInv /\ Quiet /\ Grows /\ pc = "key" /\ UNCHANGED mutation
      /\ job.plan \in Plans /\ job.keys \subseteq Actions
  BY QuietGrows, JobFields DEF RemediationInv, NextKey, Quiet, rest, TypeOK
<1>2. CASE Finish("RolledBack")
  BY <1>1, <1>2, QuietFinish DEF Phases
<1>3. ASSUME NEW a \in job.keys, pc' = "restore",
             job' = [job EXCEPT !.keys = @ \ {a}, !.action = a, !.j = 1]
      PROVE  RemediationInv'
  <2>. PICK keys \in SUBSET Actions : keys = job.keys \ {a}
    BY <1>1
  <2>1. job \in Jobs /\ job' = [job EXCEPT !.keys = keys, !.action = a, !.j = 1] /\ a \in Actions
    BY <1>1, <1>3 DEF TypeOK
  <2>2. /\ job' \in Jobs /\ job'.plan = job.plan /\ job'.seen = job.seen /\ job'.keys = keys
        /\ job'.action = a /\ job'.j = 1
    BY <2>1 DEF Jobs
  <2>3. snapshot' = snapshot
    BY <1>1 DEF Quiet, snapshots
  <2>4. JobPlaced'
    <3>1. 1 \in 1 .. Len(TargetsOf[a])
      BY <2>1, ListTypes
    <3>. QED
      BY <1>3, <2>1, <2>2, <3>1 DEF JobPlaced, Executing, Restoring, Looping
  <2>5. JobSnapshots'
    BY <1>1, <1>3, <2>2, <2>3 DEF WorkerInv, JobSnapshots, Restoring
  <2>6. JobAllowed'
    BY <1>1, <1>3, <2>2, AllowedStays DEF WorkerInv, Executing
  <2>7. WorkerInv'
    BY <2>4, <2>5, <2>6 DEF WorkerInv
  <2>. QED
    BY <1>1, <1>3, <2>2, <2>7, QuietStep DEF Labels
<1>. QED
  BY <1>2, <1>3 DEF NextKey

LEMMA NextItemWorker ==
  ASSUME TypeOK, WorkerInv, Grows, UNCHANGED mutation, pc \in Restoring, NextItem
  PROVE  WorkerInv' /\ job' \in Jobs /\ job'.plan = job.plan /\ pc' \in {"restore", "key"}
<1>1. CASE job.j < Len(TargetsOf[job.action])
  BY <1>1, LoopGoesOn DEF NextItem, Looping, Restoring
<1>2. CASE ~(job.j < Len(TargetsOf[job.action]))
  <2>1. pc' = "key" /\ job' = [job EXCEPT !.action = None, !.j = 0]
    BY <1>2 DEF NextItem
  <2>2. job' \in Jobs /\ job'.plan = job.plan /\ job'.seen = job.seen /\ job'.keys = job.keys
    BY <2>1 DEF Jobs, TypeOK
  <2>3. job.plan \in Plans /\ job.keys \subseteq Actions /\ pc # "idle"
    BY JobFields DEF TypeOK, Restoring
  <2>4. JobPlaced'
    BY <2>1 DEF JobPlaced, Executing, Restoring, Looping
  <2>5. JobSnapshots'
    <3>1. \A a \in job.keys : Saved(snapshot'[job.plan], a)
      BY <2>3, SavedStays DEF WorkerInv, JobSnapshots
    <3>. QED
      BY <2>1, <2>2, <3>1 DEF JobSnapshots, Restoring
  <2>6. JobAllowed'
    BY <2>1, <2>2, <2>3, AllowedStays DEF WorkerInv, Executing
  <2>. QED
    BY <2>1, <2>2, <2>4, <2>5, <2>6 DEF WorkerInv
<1>. QED
  BY <1>1, <1>2

LEMMA CheckKeeps ==
  ASSUME RemediationInv, Check
  PROVE  RemediationInv'
<1>1. TypeOK /\ WorkerInv /\ Quiet /\ Grows /\ pc = "check" /\ UNCHANGED mutation
  BY QuietGrows DEF RemediationInv, Check, Quiet, rest
<1>2. CASE Finish("RollbackFailed")
  BY <1>1, <1>2, QuietFinish DEF Phases
<1>3. CASE NextItem
  BY <1>1, <1>3, NextItemWorker, QuietStep DEF Labels, Restoring
<1>. QED
  BY <1>2, <1>3 DEF Check

-----------------------------------------------------------------------------
(* Steps of the worker that write objects and snapshots *)

LEMMA ReportsWait ==
  ASSUME ReportsPending, UNCHANGED reports, queued \subseteq queued', pc # "idle",
         pc' \notin {"idle", "run", "finding"}, job'.plan = job.plan
  PROVE  ReportsPending'
  BY DEF ReportsPending, reports

\* The worker stays with one target of a snapshot that it restores.
LEMMA RestoringWorker ==
  ASSUME TypeOK, WorkerInv, Grows, UNCHANGED <<mutation, job>>, pc \in Restoring,
         pc' \in Restoring
  PROVE  WorkerInv'
<1>1. job.plan \in Plans /\ job.action \in Actions /\ job.keys \subseteq Actions /\ pc # "idle"
  BY JobFields DEF TypeOK, WorkerInv, JobPlaced, Looping, Restoring
<1>2. JobPlaced'
  BY <1>1 DEF WorkerInv, JobPlaced, Executing, Looping, Restoring
<1>3. JobAllowed'
  BY <1>1, AllowedStays DEF WorkerInv, Executing, Restoring
<1>4. JobSnapshots'
  <2>1. /\ Saved(snapshot'[job.plan], job.action)
        /\ \A a \in job.keys : Saved(snapshot'[job.plan], a)
    BY <1>1, SavedStays DEF WorkerInv, JobSnapshots
  <2>. QED
    BY <2>1 DEF JobSnapshots, Restoring
<1>. QED
  BY <1>2, <1>3, <1>4 DEF WorkerInv

\* An object gets a value all of whose changes have a snapshot.
LEMMA ObjectStored ==
  ASSUME TypeOK, DataInv, NEW o \in Objects, NEW v \in Values, Store(o, v),
         \A a \in v.changes : Known(a), UNCHANGED <<spec, snapshots>>
  PROVE  /\ object' \in [Objects -> Values] /\ cache' \in [Objects -> Values]
         /\ SnapshotsWhole' /\ CachesRight' /\ ChangesKnown' /\ Grows
<1>1. object' = [object EXCEPT ![o] = v] /\ (cache' = cache \/ cache' = object')
  BY DEF Store
<1>2. snapshot' = snapshot /\ snapCache' = snapCache /\ \A a \in Actions : Known(a)' = Known(a)
  BY DEF snapshots, Known
<1>3. object' \in [Objects -> Values] /\ cache' \in [Objects -> Values]
  BY <1>1 DEF TypeOK
<1>4. SnapshotsWhole' /\ CachesRight' /\ Grows
  BY <1>2 DEF DataInv, SnapshotsWhole, CachesRight, Grows
<1>5. \A q \in Objects : \A a \in object'[q].changes : Known(a)'
  <2>. SUFFICES ASSUME NEW q \in Objects, NEW a \in object'[q].changes PROVE Known(a)'
    OBVIOUS
  <2>1. a \in Actions
    <3>1. object'[q] \in Values
      BY <1>3
    <3>. QED
      BY <3>1 DEF Values
  <2>2. Known(a)
    BY <1>1 DEF DataInv, ChangesKnown, TypeOK
  <2>. QED
    BY <1>2, <2>1, <2>2
<1>6. ChangesKnown'
  <2>1. \A p \in Plans, b \in Actions, q \in Objects :
           snapshot'[p][b][q] # None => \A a \in snapshot'[p][b][q].changes : Known(a)'
    BY <1>2 DEF DataInv, ChangesKnown, Known
  <2>. QED
    BY <1>5, <2>1 DEF ChangesKnown
<1>. QED
  BY <1>3, <1>4, <1>6

LEMMA WriteKeeps ==
  ASSUME RemediationInv, Write
  PROVE  RemediationInv'
<1>. DEFINE a == job.action
            o == Target
            p == job.plan
<1>1. /\ TypeOK /\ WorkerInv /\ DataInv /\ ReportsPending /\ pc = "write"
      /\ UNCHANGED <<api, reports, snapshots, queued, rest>>
  BY DEF RemediationInv, Write
<1>2. /\ p \in Plans /\ a \in Actions /\ o \in Objects /\ o \in Targets(a)
      /\ object[o] \in Values /\ cache[o] \in Values
      /\ a \in DirectActions(p) /\ Saved(snapshot[p], a)
  BY <1>1, TargetType DEF WorkerInv, JobPlaced, JobSnapshots, Executing, Looping
<1>3. CASE Finish("VerificationFailed") /\ UNCHANGED objects
  BY <1>1, <1>3, QuietFinish DEF Quiet, rest, Phases
<1>4. CASE /\ Accepted(a, o) /\ Store(o, Effect(a, cache[o]))
           /\ touched' = [touched EXCEPT ![p] = @ \cup {o}]
           /\ NextTarget(StartTargets("verify")) \/ Finish("VerificationFailed")
  <2>. DEFINE v == Effect(a, cache[o])
  <2>1. v \in Values /\ v.changes \subseteq object[o].changes \cup {a}
    <3>1. cache[o] = object[o]
      BY <1>4 DEF Accepted
    <3>2. CASE a \in Upserts
      <4>1. v = [exists |-> TRUE, managed |-> TRUE, changes |-> {a}, edited |-> FALSE]
        BY <3>2 DEF Effect
      <4>. QED
        BY <1>2, <4>1 DEF Values
    <3>3. CASE a \notin Upserts
      <4>. PICK new \in SUBSET Actions : new = cache[o].changes \cup {a}
        BY <1>2 DEF Values
      <4>1. v = [cache[o] EXCEPT !.changes = new]
        BY <3>3 DEF Effect
      <4>2. v \in Values /\ v.changes = new
        BY <1>2, <4>1 DEF Values
      <4>. QED
        BY <3>1, <4>2
    <3>. QED
      BY <3>2, <3>3
  <2>. HIDE DEF v
  <2>2. \A b \in v.changes : Known(b)
    BY <1>1, <1>2, <2>1 DEF DataInv, ChangesKnown, Known
  <2>3. spec' = spec /\ snapshot' = snapshot /\ Store(o, v)
    BY <1>1, <1>4 DEF api, snapshots, v
  <2>4. /\ object' \in [Objects -> Values] /\ cache' \in [Objects -> Values]
        /\ SnapshotsWhole' /\ CachesRight' /\ ChangesKnown' /\ Grows
    BY <1>1, <1>2, <2>1, <2>2, <2>3, ObjectStored
  <2>5. /\ touched' \in [Plans -> SUBSET Objects]
        /\ \A q \in Plans : touched'[q] = IF q = p THEN touched[p] \cup {o} ELSE touched[q]
    BY <1>1, <1>2, <1>4 DEF TypeOK
  <2>6. TouchedAllowed'
    <3>1. spec[p].execution /\ (p \in ApprovalRequired => spec[p].decision = "approved")
      BY <1>1 DEF WorkerInv, JobAllowed, Executing, Blocked
    <3>. QED
      BY <1>1, <2>3, <2>5, <3>1 DEF DataInv, TouchedAllowed
  <2>7. SnapshotPreChange'
    <3>1. snapshot[p][a][o] # None
      BY <1>1, <1>2 DEF DataInv, SnapshotsWhole
    <3>2. \A q \in Plans : \A x \in touched'[q] :
             \E b \in DirectActions(q) : snapshot'[q][b][x] # None
      BY <1>1, <1>2, <2>3, <2>5, <3>1 DEF DataInv, SnapshotPreChange
    <3>. QED
      BY <1>1, <2>3, <3>2 DEF DataInv, SnapshotPreChange
  <2>8. /\ WorkerInv' /\ job' \in Jobs /\ job'.plan = p
        /\ pc' \in Labels \ {"idle", "run", "finding"}
    <3>1. mutation' = mutation
      BY <1>1 DEF rest
    <3>2. CASE Finish("VerificationFailed")
      <4>1. pc' = "status" /\ job' \in Jobs /\ job'.plan = job.plan /\ job'.seen = job.seen
        BY <1>1, <3>2, FinishMoves DEF Phases
      <4>. QED
        BY <1>1, <2>4, <4>1, ReportingWorker DEF Labels
    <3>3. CASE /\ job.j < Len(TargetsOf[job.action]) /\ pc' = pc
               /\ job' = [job EXCEPT !.j = @ + 1]
      BY <1>1, <2>4, <3>1, <3>3, LoopGoesOn DEF Looping, Labels
    <3>4. CASE StartTargets("verify")
      <4>1. /\ pc' = "verify" /\ job' \in Jobs /\ job'.plan = job.plan /\ job'.seen = job.seen
            /\ job'.action = job.action /\ job'.j = 1
        BY <1>1, <3>4, StartTargetsMoves
      <4>2. JobPlaced'
        <5>1. 1 \in 1 .. Len(TargetsOf[a])
          BY <1>2, ListTypes
        <5>. QED
          BY <1>2, <4>1, <5>1 DEF JobPlaced, Executing, Looping, Restoring
      <4>3. JobSnapshots'
        BY <1>2, <2>3, <4>1 DEF JobSnapshots, Restoring
      <4>4. JobAllowed'
        BY <1>1, <2>4, <3>1, <4>1, AllowedStays DEF WorkerInv, JobAllowed, Executing
      <4>. QED
        BY <4>1, <4>2, <4>3, <4>4 DEF WorkerInv, Labels
    <3>. QED
      BY <1>4, <3>2, <3>3, <3>4 DEF NextTarget
  <2>9. TypeOK'
    BY <1>1, <1>2, <2>4, <2>5, <2>8 DEF TypeOK, api, reports, snapshots, rest
  <2>10. ReportsPending'
    BY <1>1, <2>8, ReportsWait
  <2>. QED
    BY <2>4, <2>6, <2>7, <2>8, <2>9, <2>10 DEF RemediationInv, DataInv
<1>. QED
  BY <1>1, <1>3, <1>4 DEF Write

LEMMA TouchedSame ==
  ASSUME DataInv, Grows, UNCHANGED <<snapshot, touched>>
  PROVE  TouchedAllowed' /\ SnapshotPreChange'
  BY DEF DataInv, TouchedAllowed, SnapshotPreChange, Grows

\* Restore and Remove put the object into a state that was there before.
LEMMA RestoredKeeps ==
  ASSUME RemediationInv, pc \in Restoring, pc' = "check", UNCHANGED job,
         NEW v \in Values, \A a \in v.changes : Known(a), Store(Target, v),
         UNCHANGED <<api, reports, snapshots, queued, rest, touched>>
  PROVE  RemediationInv'
<1>1. TypeOK /\ WorkerInv /\ DataInv /\ ReportsPending /\ pc # "idle" /\ job.plan \in Plans
  BY DEF RemediationInv, Restoring, TypeOK
<1>2. Target \in Objects
  BY <1>1, TargetType DEF WorkerInv, Looping
<1>3. spec' = spec /\ snapshot' = snapshot /\ mutation' = mutation
  BY DEF api, snapshots, rest
<1>4. /\ object' \in [Objects -> Values] /\ cache' \in [Objects -> Values]
      /\ SnapshotsWhole' /\ CachesRight' /\ ChangesKnown' /\ Grows
  BY <1>1, <1>2, <1>3, ObjectStored
<1>5. TouchedAllowed' /\ SnapshotPreChange'
  BY <1>1, <1>3, <1>4, TouchedSame
<1>6. WorkerInv'
  BY <1>1, <1>3, <1>4, RestoringWorker DEF Restoring
<1>7. TypeOK'
  BY <1>1, <1>4 DEF TypeOK, api, reports, snapshots, rest, Labels
<1>8. ReportsPending'
  BY <1>1, ReportsWait
<1>. QED
  BY <1>4, <1>5, <1>6, <1>7, <1>8 DEF RemediationInv, DataInv

LEMMA RestoreKeeps ==
  ASSUME RemediationInv, Restore
  PROVE  RemediationInv'
<1>1. /\ TypeOK /\ WorkerInv /\ DataInv /\ pc = "restore" /\ job.plan \in Plans
      /\ UNCHANGED <<api, reports, snapshots, queued, rest>>
  BY DEF RemediationInv, Restore, TypeOK
<1>2. CASE NextItem /\ UNCHANGED objects
  <2>1. Quiet /\ Grows /\ UNCHANGED mutation
    BY <1>1, <1>2, QuietGrows DEF Quiet, rest
  <2>. QED
    BY <1>1, <1>2, <2>1, NextItemWorker, QuietStep DEF Restoring, Labels
<1>3. CASE Finish("RollbackFailed") /\ UNCHANGED objects
  BY <1>1, <1>3, QuietFinish DEF Quiet, rest, Phases
<1>4. CASE Goto("remove") /\ UNCHANGED objects
  <2>1. Quiet /\ Grows /\ UNCHANGED mutation /\ pc' = "remove" /\ job' = job /\ job \in Jobs
    BY <1>1, <1>4, QuietGrows DEF Quiet, rest, Goto, TypeOK
  <2>. QED
    BY <1>1, <2>1, RestoringWorker, QuietStep DEF Restoring, Labels
<1>5. CASE Store(Target, Item) /\ Goto("check") /\ UNCHANGED touched
  <2>1. /\ job.action \in Actions /\ Target \in Objects /\ Target \in Targets(job.action)
        /\ Saved(snapshot[job.plan], job.action)
    BY <1>1, TargetType DEF WorkerInv, JobSnapshots, Looping, Restoring
  <2>2. Item # None
    BY <1>1, <2>1 DEF DataInv, SnapshotsWhole, Item
  <2>3. Item \in Values
    BY <1>1, <2>1, <2>2 DEF TypeOK, Snapshots, Items, Item
  <2>4. \A a \in Item.changes : Known(a)
    BY <1>1, <2>1, <2>2 DEF DataInv, ChangesKnown, Item
  <2>. QED
    BY <1>1, <1>5, <2>3, <2>4, RestoredKeeps DEF Goto, Restoring
<1>. QED
  BY <1>2, <1>3, <1>4, <1>5 DEF Restore

LEMMA RemoveKeeps ==
  ASSUME RemediationInv, Remove
  PROVE  RemediationInv'
  BY NoObjectType, RestoredKeeps DEF Remove, Goto, Restoring

LEMMA SaveSnapshotKeeps ==
  ASSUME RemediationInv, SaveSnapshot
  PROVE  RemediationInv'
<1>. DEFINE p == job.plan
            a == job.action
            items == job.items
<1>1. /\ TypeOK /\ WorkerInv /\ DataInv /\ ReportsPending /\ pc = "save" /\ p \in Plans
      /\ UNCHANGED <<api, reports, objects, queued, rest>>
  BY DEF RemediationInv, SaveSnapshot, TypeOK
<1>2. CASE Finish("SnapshotFailed") /\ UNCHANGED snapshots
  BY <1>1, <1>2, QuietFinish DEF Quiet, rest, Phases
<1>3. CASE /\ FreshSnapshot
           /\ snapshot' = [snapshot EXCEPT ![p] = [job.base EXCEPT ![a] = items]]
           /\ snapCache' = IF Lag THEN snapCache ELSE snapshot'
           /\ StartTargets("write") \/ Finish("SnapshotFailed")
  <2>1. /\ a \in DirectActions(p) /\ a \in Actions /\ items \in Items /\ mutation
        /\ job.base = snapshot[p] /\ ~Saved(snapshot[p], a)
    BY <1>1, <1>3, ListTypes, JobFields DEF FreshSnapshot, WorkerInv, JobPlaced, JobAllowed,
       JobSnapshots, Executing
  <2>2. /\ snapshot' \in [Plans -> Snapshots]
        /\ \A q \in Plans, b \in Actions :
              snapshot'[q][b] = IF q = p /\ b = a THEN items ELSE snapshot[q][b]
    BY <1>1, <1>3, <2>1 DEF TypeOK, Snapshots
  <2>3. spec' = spec /\ object' = object /\ touched' = touched /\ mutation' = mutation
    BY <1>1 DEF api, objects, rest
  <2>4. Grows
    BY <2>1, <2>2, <2>3 DEF Grows
  <2>5. items # NoItems /\ \A o \in Targets(a) : items[o] # None
    <3>1. \A k \in 1 .. Len(TargetsOf[a]) : items[TargetsOf[a][k]] # None
      BY <1>1 DEF WorkerInv, JobSnapshots
    <3>2. \A o \in Targets(a) : items[o] # None
      BY <2>1, <3>1, ListTypes DEF Targets
    <3>3. TargetsOf[a][1] \in Objects /\ items[TargetsOf[a][1]] # None
      BY <2>1, <3>1, ListTypes
    <3>. QED
      BY <3>2, <3>3 DEF NoItems
  <2>6. SnapshotsWhole'
    BY <1>1, <2>1, <2>2, <2>5 DEF DataInv, SnapshotsWhole, Saved
  <2>7. CachesRight' /\ snapCache' \in [Plans -> Snapshots]
    <3>1. CASE ~Lag
      BY <1>3, <2>2, <3>1 DEF CachesRight
    <3>2. CASE Lag
      BY <1>1, <1>3, <2>1, <2>2, <3>2 DEF DataInv, CachesRight, Saved, TypeOK
    <3>. QED
      BY <3>1, <3>2
  <2>8. \A o \in Objects : items[o] # None => \A b \in items[o].changes : Known(b)
    BY <1>1 DEF WorkerInv, JobSnapshots
  <2>9. ChangesKnown'
    <3>1. \A o \in Objects : \A b \in object'[o].changes : Known(b)'
      <4>. SUFFICES ASSUME NEW o \in Objects, NEW b \in object[o].changes PROVE Known(b)'
        BY <2>3
      <4>1. object[o] \in Values
        BY <1>1 DEF TypeOK
      <4>2. b \in Actions /\ Known(b)
        BY <1>1, <4>1 DEF Values, DataInv, ChangesKnown
      <4>. QED
        BY <2>4, <4>2, KnownStays
    <3>2. ASSUME NEW q \in Plans, NEW c \in Actions, NEW o \in Objects, snapshot'[q][c][o] # None,
                 NEW b \in snapshot'[q][c][o].changes
          PROVE  Known(b)'
      <4>1. snapshot'[q][c][o] \in Values
        BY <2>2, <3>2 DEF Snapshots, Items
      <4>2. b \in Actions
        BY <4>1 DEF Values
      <4>3. Known(b)
        BY <1>1, <2>2, <2>8, <3>2 DEF DataInv, ChangesKnown
      <4>. QED
        BY <2>4, <4>2, <4>3, KnownStays
    <3>. QED
      BY <3>1, <3>2 DEF ChangesKnown
  <2>10. SnapshotPreChange'
    <3>1. ~Known(a)
      <4>. SUFFICES ASSUME NEW q \in Plans, Saved(snapshot[q], a) PROVE FALSE
        BY DEF Known
      <4>1. a \in DirectActions(q)
        BY <1>1, <2>1 DEF DataInv, SnapshotsWhole
      <4>2. q = p
        BY <1>1, <2>1, <4>1, RemediationAssumption
      <4>. QED
        BY <2>1, <4>2
    <3>2. \A o \in Objects : items[o] # None => a \notin items[o].changes
      BY <2>8, <3>1
    <3>3. ASSUME NEW q \in Plans, NEW o \in touched[q]
          PROVE  \E b \in DirectActions(q) : snapshot'[q][b][o] # None
      <4>1. PICK b \in DirectActions(q) : snapshot[q][b][o] # None
        BY <1>1, <3>3 DEF DataInv, SnapshotPreChange
      <4>2. b \in Actions /\ o \in Objects
        BY <1>1, <3>3, ListTypes DEF TypeOK
      <4>3. Saved(snapshot[q], b)
        BY <4>1, <4>2 DEF Saved, NoItems
      <4>. QED
        BY <2>4, <4>1, <4>2, <4>3 DEF Grows
    <3>4. \A q \in Plans, b \in Actions, o \in Objects :
             snapshot'[q][b][o] # None => b \notin snapshot'[q][b][o].changes
      BY <1>1, <2>2, <3>2 DEF DataInv, SnapshotPreChange
    <3>. QED
      BY <2>3, <3>3, <3>4 DEF SnapshotPreChange
  <2>11. TouchedAllowed'
    BY <1>1, <2>3 DEF DataInv, TouchedAllowed
  <2>12. /\ WorkerInv' /\ job' \in Jobs /\ job'.plan = p
         /\ pc' \in Labels \ {"idle", "run", "finding"}
    <3>1. CASE Finish("SnapshotFailed")
      <4>1. pc' = "status" /\ job' \in Jobs /\ job'.plan = job.plan /\ job'.seen = job.seen
        BY <1>1, <3>1, FinishMoves DEF Phases
      <4>. QED
        BY <1>1, <2>4, <4>1, ReportingWorker DEF Labels
    <3>2. CASE StartTargets("write")
      <4>1. /\ pc' = "write" /\ job' \in Jobs /\ job'.plan = job.plan /\ job'.seen = job.seen
            /\ job'.action = job.action /\ job'.j = 1
        BY <1>1, <3>2, StartTargetsMoves
      <4>2. JobPlaced'
        <5>1. 1 \in 1 .. Len(TargetsOf[a])
          BY <2>1, ListTypes
        <5>. QED
          BY <2>1, <4>1, <5>1 DEF JobPlaced, Executing, Looping, Restoring
      <4>3. JobSnapshots'
        BY <1>1, <2>1, <2>2, <2>5, <4>1 DEF JobSnapshots, Restoring, Saved
      <4>4. JobAllowed'
        BY <1>1, <2>1, <2>3, <2>4, <4>1, AllowedStays DEF WorkerInv, Executing
      <4>. QED
        BY <4>1, <4>2, <4>3, <4>4 DEF WorkerInv, Labels
    <3>. QED
      BY <1>3, <3>1, <3>2
  <2>13. TypeOK'
    BY <1>1, <2>2, <2>7, <2>12 DEF TypeOK, api, reports, objects, rest
  <2>14. ReportsPending'
    BY <1>1, <2>12, ReportsWait
  <2>. QED
    BY <2>6, <2>7, <2>9, <2>10, <2>11, <2>12, <2>13, <2>14 DEF RemediationInv, DataInv
<1>. QED
  BY <1>2, <1>3 DEF SaveSnapshot

-----------------------------------------------------------------------------
(* Steps that write no object and no snapshot *)

LEMMA DataKept ==
  ASSUME DataInv, Grows, UNCHANGED <<objects, snapshots>>
  PROVE  DataInv'
<1>1. UNCHANGED <<object, cache, touched, snapshot, snapCache>>
  BY DEF objects, snapshots
<1>2. TouchedAllowed'
  BY <1>1 DEF DataInv, TouchedAllowed, Grows
<1>. QED
  BY <1>1, <1>2 DEF DataInv, SnapshotsWhole, CachesRight, ChangesKnown, Known, SnapshotPreChange

LEMMA SpecSame ==
  ASSUME UNCHANGED <<spec, snapshot>>
  PROVE  Grows
  BY DEF Grows

LEMMA ReconcileKeeps ==
  ASSUME RemediationInv, NEW p \in Plans, Reconcile(p)
  PROVE  RemediationInv'
<1>. DEFINE s == spec[p]
            begun == [NoJob EXCEPT !.plan = p, !.seen = s]
            done == status[p] = [phase |-> "RolledBack", observed |-> s.generation]
<1>1. /\ TypeOK /\ WorkerInv /\ DataInv /\ ReportsPending /\ pc = "idle"
      /\ UNCHANGED <<api, reports, objects, snapshots, rest>> /\ queued' = queued \ {p}
  BY DEF RemediationInv, Reconcile
<1>2. Grows /\ UNCHANGED <<spec, mutation, status, run>>
  BY <1>1, SpecSame DEF api, snapshots, rest, reports
<1>3. DataInv'
  BY <1>1, <1>2, DataKept
<1>4. CASE s.rollback /\ done /\ UNCHANGED worker
  <2>1. WorkerInv'
    BY <1>1, <1>2, <1>4, WorkerWaits
  <2>2. status[p].phase = "RolledBack"
    BY <1>4
  <2>3. pc' = pc /\ job' = job
    BY <1>4 DEF worker
  <2>4. ReportsPending'
    BY <1>1, <1>2, <2>2, <2>3 DEF ReportsPending
  <2>5. TypeOK'
    BY <1>1, <2>3 DEF TypeOK, api, reports, objects, snapshots, rest
  <2>. QED
    BY <1>3, <2>1, <2>4, <2>5 DEF RemediationInv
<1>5. s \in Specs
  BY <1>1 DEF TypeOK
<1>. HIDE DEF s
<1>6. begun \in Jobs /\ begun.plan = p /\ begun.seen = s /\ begun.items = NoItems
  BY <1>5, NoJobType DEF Jobs, NoJob
<1>. HIDE DEF begun
<1>7. CASE \/ pc' = "load" /\ job' = begun
           \/ pc' = "status" /\ job' = [begun EXCEPT !.phase = Gate(p, s)]
           \/ /\ ~Blocked(p, s) /\ s.execution
              /\ pc' = "action" /\ job' = [begun EXCEPT !.i = 1]
  <2>1. Gate(p, s) \in Phases
    BY <1>5 DEF Gate, Phases
  <2>2. /\ job' \in Jobs /\ job'.plan = p /\ job'.seen = s
        /\ pc' = "action" => job'.i = 1 /\ job'.items = NoItems
    <3>1. CASE pc' = "load" /\ job' = begun
      BY <1>6, <3>1
    <3>2. CASE pc' = "status" /\ job' = [begun EXCEPT !.phase = Gate(p, s)]
      <4>. DEFINE gate == Gate(p, s)
      <4>. HIDE DEF gate
      <4>1. gate \in Phases /\ job' = [begun EXCEPT !.phase = gate]
        BY <2>1, <3>2 DEF gate
      <4>. QED
        BY <1>6, <3>2, <4>1 DEF Jobs
    <3>3. CASE pc' = "action" /\ job' = [begun EXCEPT !.i = 1]
      BY <1>6, <3>3 DEF Jobs
    <3>. QED
      BY <1>7, <3>1, <3>2, <3>3
  <2>3. pc' \in {"load", "status", "action"}
    BY <1>7
  <2>4. JobPlaced' /\ JobSnapshots'
    BY <2>2, <2>3 DEF JobPlaced, JobSnapshots, Executing, Looping, Restoring
  <2>5. JobAllowed'
    BY <1>2, <1>7, <2>2, <2>3 DEF JobAllowed, Executing, Blocked, s
  <2>6. TypeOK'
    BY <1>1, <2>2, <2>3 DEF TypeOK, api, reports, objects, snapshots, rest, Labels
  <2>7. ReportsPending'
    BY <1>1, <1>2, <2>2, <2>3 DEF ReportsPending
  <2>. QED
    BY <1>3, <2>4, <2>5, <2>6, <2>7 DEF RemediationInv, WorkerInv
<1>. QED
  BY <1>4, <1>7 DEF Reconcile, s, begun

\* The pass is over, and the plan is in the queue again.
LEMMA RequeueKeeps ==
  ASSUME RemediationInv, pc # "idle", Requeue,
         UNCHANGED <<api, status, run, objects, snapshots, rest>>,
         finding' \in [Findings -> FindingStatuses]
  PROVE  RemediationInv'
<1>1. /\ TypeOK /\ WorkerInv /\ DataInv /\ ReportsPending /\ job.plan \in Plans
      /\ pc' = "idle" /\ job' = NoJob /\ queued' = queued \cup {job.plan}
  BY DEF RemediationInv, Requeue, TypeOK
<1>2. Grows
  BY SpecSame DEF api, snapshots
<1>3. TypeOK'
  BY <1>1, NoJobType DEF TypeOK, api, objects, snapshots, rest, Labels
<1>4. ReportsPending'
  BY <1>1 DEF ReportsPending
<1>. QED
  BY <1>1, <1>2, <1>3, <1>4, DataKept, IdleWorker DEF RemediationInv

LEMMA WritePlanStatusKeeps ==
  ASSUME RemediationInv, WritePlanStatus
  PROVE  RemediationInv'
<1>. DEFINE p == job.plan
            new == [phase |-> job.phase, observed |-> job.seen.generation]
<1>1. /\ TypeOK /\ WorkerInv /\ DataInv /\ ReportsPending /\ pc = "status" /\ p \in Plans
      /\ UNCHANGED <<api, run, finding, objects, snapshots, rest>>
  BY DEF RemediationInv, WritePlanStatus, TypeOK
<1>2. CASE Requeue /\ UNCHANGED status
  BY <1>1, <1>2, RequeueKeeps DEF TypeOK
<1>3. CASE /\ status' = [status EXCEPT ![p] = new] /\ Goto("run")
           /\ queued' \in {queued \cup {p}} \cup (IF new = status[p] THEN {queued} ELSE {})
  <2>1. new \in [phase : Phases, observed : Nat] /\ new.phase = job.phase
    BY <1>1, JobFields DEF Specs
  <2>. HIDE DEF new
  <2>2. /\ pc' = "run" /\ job' = job /\ queued \subseteq queued' /\ queued' \subseteq Plans
        /\ status' \in [Plans -> [phase : Phases, observed : Nat]]
        /\ \A q \in Plans : status'[q] = IF q = p THEN new ELSE status[q]
    BY <1>1, <1>3, <2>1 DEF Goto, TypeOK
  <2>3. Grows
    BY <1>1, SpecSame DEF api, snapshots
  <2>4. WorkerInv'
    BY <1>1, <2>2, <2>3, ReportingWorker
  <2>5. DataInv'
    BY <1>1, <2>3, DataKept
  <2>6. TypeOK'
    BY <1>1, <2>2 DEF TypeOK, api, objects, snapshots, rest, Labels
  <2>7. ReportsPending'
    BY <1>1, <2>1, <2>2 DEF ReportsPending
  <2>. QED
    BY <2>4, <2>5, <2>6, <2>7 DEF RemediationInv
<1>. QED
  BY <1>2, <1>3 DEF WritePlanStatus

LEMMA UpsertRunKeeps ==
  ASSUME RemediationInv, UpsertRun
  PROVE  RemediationInv'
<1>1. /\ TypeOK /\ WorkerInv /\ DataInv /\ ReportsPending /\ pc = "run" /\ job.plan \in Plans
      /\ UNCHANGED <<api, status, finding, objects, snapshots, queued, rest>>
      /\ run' = [run EXCEPT ![job.plan] = RunState(job.phase)] /\ pc' = "finding" /\ job' = job
  BY DEF RemediationInv, UpsertRun, TypeOK, Goto
<1>2. RunState(job.phase) \in RunStates
  BY <1>1, JobFields DEF RunStates
<1>3. /\ run' \in [Plans -> RunStates] /\ run'[job.plan] = RunState(job.phase)
      /\ \A q \in Plans \ {job.plan} : run'[q] = run[q]
  BY <1>1, <1>2 DEF TypeOK
<1>4. Grows
  BY <1>1, SpecSame DEF api, snapshots
<1>5. WorkerInv' /\ DataInv'
  BY <1>1, <1>4, ReportingWorker, DataKept
<1>6. TypeOK'
  BY <1>1, <1>3 DEF TypeOK, api, objects, snapshots, rest, Labels
<1>7. ReportsPending'
  BY <1>1, <1>3 DEF ReportsPending
<1>. QED
  BY <1>5, <1>6, <1>7 DEF RemediationInv

LEMMA UpdateFindingStatusKeeps ==
  ASSUME RemediationInv, UpdateFindingStatus
  PROVE  RemediationInv'
<1>. DEFINE report == Report(RunState(job.phase))
<1>1. /\ TypeOK /\ WorkerInv /\ DataInv /\ ReportsPending /\ pc = "finding"
      /\ job.plan \in Plans /\ UNCHANGED <<api, status, run, objects, snapshots, rest>>
  BY DEF RemediationInv, UpdateFindingStatus, TypeOK
<1>2. report \in FindingStatuses
  <2>. DEFINE state == RunState(job.phase)
  <2>. HIDE DEF state
  <2>1. Report(state) \in FindingStatuses
    BY DEF Report, NoReport, FindingStatuses
  <2>. QED
    BY <2>1 DEF state
<1>3. finding' \in [Findings -> FindingStatuses]
  <2>1. FindingOf[job.plan] \in Findings
    BY <1>1, RemediationAssumption
  <2>2. finding' = finding \/ finding' = [finding EXCEPT ![FindingOf[job.plan]] = report]
    BY DEF UpdateFindingStatus
  <2>. HIDE DEF report
  <2>. QED
    BY <1>1, <1>2, <2>1, <2>2 DEF TypeOK
<1>4. CASE Requeue
  BY <1>1, <1>3, <1>4, RequeueKeeps
<1>5. CASE pc' = "idle" /\ job' = NoJob /\ UNCHANGED queued
  <2>1. Grows
    BY <1>1, SpecSame DEF api, snapshots
  <2>2. TypeOK'
    BY <1>1, <1>3, <1>5, NoJobType DEF TypeOK, api, objects, snapshots, rest, Labels
  <2>3. ReportsPending'
    BY <1>1, <1>5 DEF ReportsPending
  <2>. QED
    BY <1>1, <1>5, <2>1, <2>2, <2>3, DataKept, IdleWorker DEF RemediationInv
<1>. QED
  BY <1>4, <1>5 DEF UpdateFindingStatus

LEMMA FailKeeps ==
  ASSUME RemediationInv, Fail
  PROVE  RemediationInv'
<1>1. UNCHANGED <<api, reports, objects, snapshots, rest>> /\ TypeOK
  BY DEF Fail, RemediationInv
<1>2. CASE pc \in DOMAIN FailurePhase /\ Finish(FailurePhase[pc]) /\ UNCHANGED queued
  <2>1. FailurePhase[pc] \in Phases /\ pc # "idle"
    BY <1>2 DEF FailurePhase, Phases
  <2>. QED
    BY <1>1, <1>2, <2>1, QuietFinish DEF Quiet, rest
<1>3. CASE pc \in {"status", "run", "finding"} /\ Requeue
  BY <1>1, <1>3, RequeueKeeps DEF reports, TypeOK
<1>. QED
  BY <1>2, <1>3 DEF Fail

-----------------------------------------------------------------------------
(* The API, the cluster and the deployment *)

\* Steps during which the worker stands still, and no run loses its place in the
\* queue.
LEMMA OthersKeep ==
  ASSUME RemediationInv, Grows, UNCHANGED <<worker, mutation, status, run>>,
         queued \subseteq queued', TypeOK', DataInv'
  PROVE  RemediationInv'
<1>1. WorkerInv'
  BY WorkerWaits DEF RemediationInv
<1>2. ReportsPending'
  BY DEF RemediationInv, ReportsPending, worker
<1>. QED
  BY <1>1, <1>2 DEF RemediationInv

LEMMA ObserveFindingKeeps ==
  ASSUME RemediationInv, NEW f \in Findings, ObserveFinding(f)
  PROVE  RemediationInv'
<1>1. /\ TypeOK /\ DataInv /\ finding' = [finding EXCEPT ![f].phase = "Observed"]
      /\ UNCHANGED <<api, status, run, objects, snapshots, queued, worker, rest>>
  BY DEF RemediationInv, ObserveFinding
<1>2. [finding[f] EXCEPT !.phase = "Observed"] \in FindingStatuses
  BY <1>1 DEF TypeOK, FindingStatuses
<1>3. finding' \in [Findings -> FindingStatuses]
  BY <1>1, <1>2 DEF TypeOK
<1>4. Grows
  BY <1>1, SpecSame DEF api, snapshots
<1>5. TypeOK'
  BY <1>1, <1>3 DEF TypeOK, api, objects, snapshots, worker, rest
<1>. QED
  BY <1>1, <1>4, <1>5, DataKept, OthersKeep DEF rest

\* The API never takes back an execution or an approval.
LEMMA ChangeSpecKeeps ==
  ASSUME RemediationInv, NEW p \in Plans, NEW s \in Specs, ChangeSpec(p, s),
         spec[p].execution => s.execution,
         spec[p].decision = "approved" => s.decision = "approved",
         asked' \subseteq Plans
  PROVE  RemediationInv'
<1>. PICK n \in Nat : n = s.generation + 1
  BY DEF Specs
<1>. DEFINE new == [s EXCEPT !.generation = n]
<1>1. /\ TypeOK /\ DataInv /\ spec' = [spec EXCEPT ![p] = new] /\ queued' = queued \cup {p}
      /\ UNCHANGED <<reports, objects, snapshots, worker, rest>>
  BY DEF RemediationInv, ChangeSpec
<1>2. new \in Specs /\ new.execution = s.execution /\ new.decision = s.decision
  BY DEF Specs
<1>. HIDE DEF new
<1>3. /\ spec' \in [Plans -> Specs]
      /\ \A q \in Plans : spec'[q] = IF q = p THEN new ELSE spec[q]
  BY <1>1, <1>2 DEF TypeOK
<1>4. Grows
  BY <1>1, <1>2, <1>3 DEF Grows, snapshots
<1>5. TypeOK'
  BY <1>1, <1>3 DEF TypeOK, reports, objects, snapshots, worker, rest
<1>. QED
  BY <1>1, <1>4, <1>5, DataKept, OthersKeep DEF rest, reports

LEMMA RequestsKeep ==
  ASSUME RemediationInv, Requests
  PROVE  RemediationInv'
<1>1. PICK p \in Plans : \/ \E d \in {"approved", "rejected"} : DecideApproval(p, d)
                         \/ RequestExecution(p) \/ CheckRollback(p) \/ RequestRollback(p)
  BY DEF Requests
<1>2. TypeOK /\ DataInv /\ spec[p] \in Specs /\ asked \subseteq Plans
  BY DEF RemediationInv, TypeOK
<1>3. ASSUME NEW d \in {"approved", "rejected"}, DecideApproval(p, d)
      PROVE  RemediationInv'
  <2>. DEFINE s == [spec[p] EXCEPT !.decision = d]
  <2>1. s \in Specs /\ s.execution = spec[p].execution
    BY <1>2 DEF Specs, Decisions
  <2>2. ChangeSpec(p, s) /\ spec[p].decision = "pending" /\ asked' = asked
    BY <1>3 DEF DecideApproval
  <2>. QED
    BY <1>2, <2>1, <2>2, ChangeSpecKeeps
<1>4. CASE RequestExecution(p)
  <2>. DEFINE s == [spec[p] EXCEPT !.execution = TRUE]
  <2>1. s \in Specs /\ s.decision = spec[p].decision /\ s.execution
    BY <1>2 DEF Specs
  <2>2. ChangeSpec(p, s) /\ asked' = asked
    BY <1>4 DEF RequestExecution
  <2>. QED
    BY <1>2, <2>1, <2>2, ChangeSpecKeeps
<1>5. CASE RequestRollback(p)
  <2>. DEFINE s == [spec[p] EXCEPT !.rollback = TRUE]
  <2>1. s \in Specs /\ s.decision = spec[p].decision /\ s.execution = spec[p].execution
    BY <1>2 DEF Specs
  <2>2. ChangeSpec(p, s) /\ asked' \subseteq Plans
    BY <1>2, <1>5 DEF RequestRollback
  <2>. QED
    BY <1>2, <2>1, <2>2, ChangeSpecKeeps
<1>6. CASE CheckRollback(p)
  <2>1. /\ UNCHANGED <<spec, reports, objects, snapshots, queued, worker, rest>>
        /\ asked' \subseteq Plans
    BY <1>2, <1>6 DEF CheckRollback
  <2>2. Grows
    BY <2>1, SpecSame DEF snapshots
  <2>3. TypeOK'
    BY <1>2, <2>1 DEF TypeOK, reports, objects, snapshots, worker, rest
  <2>. QED
    BY <1>2, <2>1, <2>2, <2>3, DataKept, OthersKeep DEF rest, reports
<1>. QED
  BY <1>1, <1>3, <1>4, <1>5, <1>6

LEMMA EditKeeps ==
  ASSUME RemediationInv, NEW o \in Objects, Edit(o)
  PROVE  RemediationInv'
<1>1. /\ TypeOK /\ DataInv /\ object[o] \in Values /\ edits' = edits + 1
      /\ UNCHANGED <<api, reports, snapshots, queued, worker, touched, mutation, settled, missed>>
  BY DEF RemediationInv, Edit, TypeOK
<1>2. PICK v \in Values : Store(o, v) /\ v.changes \subseteq object[o].changes
  <2>1. CASE Store(o, [object[o] EXCEPT !.edited = TRUE])
    <3>1. /\ [object[o] EXCEPT !.edited = TRUE] \in Values
          /\ [object[o] EXCEPT !.edited = TRUE].changes = object[o].changes
      BY <1>1 DEF Values
    <3>. QED
      BY <2>1, <3>1
  <2>2. CASE Store(o, NoObject)
    BY <2>2, NoObjectType
  <2>3. CASE Store(o, [NoObject EXCEPT !.exists = TRUE, !.edited = TRUE])
    <3>1. /\ [NoObject EXCEPT !.exists = TRUE, !.edited = TRUE] \in Values
          /\ [NoObject EXCEPT !.exists = TRUE, !.edited = TRUE].changes = {}
      BY DEF NoObject, Values
    <3>. QED
      BY <2>3, <3>1
  <2>. QED
    BY <2>1, <2>2, <2>3 DEF Edit
<1>3. \A a \in v.changes : Known(a)
  BY <1>1, <1>2 DEF DataInv, ChangesKnown
<1>4. /\ object' \in [Objects -> Values] /\ cache' \in [Objects -> Values]
      /\ SnapshotsWhole' /\ CachesRight' /\ ChangesKnown' /\ Grows
  BY <1>1, <1>2, <1>3, ObjectStored DEF api
<1>5. TouchedAllowed' /\ SnapshotPreChange'
  BY <1>1, <1>4, TouchedSame DEF snapshots
<1>6. edits' \in Nat
  BY <1>1 DEF TypeOK
<1>7. TypeOK'
  BY <1>1, <1>4, <1>6 DEF TypeOK, api, reports, snapshots, worker
<1>8. DataInv'
  BY <1>4, <1>5 DEF DataInv
<1>. QED
  BY <1>1, <1>4, <1>7, <1>8, OthersKeep DEF reports

LEMMA SyncKeeps ==
  ASSUME RemediationInv, Sync
  PROVE  RemediationInv'
<1>1. TypeOK /\ DataInv
  BY DEF RemediationInv
<1>2. ASSUME NEW o \in Objects, SyncObject(o) PROVE RemediationInv'
  <2>1. /\ UNCHANGED <<api, reports, object, touched, snapshots, queued, worker, rest>>
        /\ cache' = [cache EXCEPT ![o] = object[o]]
    BY <1>2 DEF SyncObject
  <2>2. Grows
    BY <2>1, SpecSame DEF api, snapshots
  <2>3. TypeOK'
    BY <1>1, <2>1 DEF TypeOK, api, reports, snapshots, worker, rest
  <2>4. DataInv'
    BY <1>1, <2>1 DEF DataInv, TouchedAllowed, SnapshotsWhole, CachesRight, ChangesKnown, Known,
       SnapshotPreChange, api, snapshots
  <2>. QED
    BY <2>1, <2>2, <2>3, <2>4, OthersKeep DEF reports, rest
<1>3. ASSUME NEW p \in Plans, SyncSnapshot(p) PROVE RemediationInv'
  <2>1. /\ UNCHANGED <<api, reports, objects, snapshot, queued, worker, rest>>
        /\ snapCache' = [snapCache EXCEPT ![p] = snapshot[p]]
    BY <1>3 DEF SyncSnapshot
  <2>2. Grows
    BY <2>1, SpecSame DEF api
  <2>3. TypeOK'
    BY <1>1, <2>1 DEF TypeOK, api, reports, objects, worker, rest
  <2>4. CachesRight'
    BY <1>1, <2>1 DEF DataInv, CachesRight, TypeOK
  <2>5. DataInv'
    BY <1>1, <2>1, <2>4 DEF DataInv, TouchedAllowed, SnapshotsWhole, ChangesKnown, Known,
       SnapshotPreChange, api, objects
  <2>. QED
    BY <2>1, <2>2, <2>3, <2>5, OthersKeep DEF reports, rest
<1>. QED
  BY <1>2, <1>3 DEF Sync

LEMMA ResyncKeeps ==
  ASSUME RemediationInv, NEW p \in Plans, Resync(p)
  PROVE  RemediationInv'
<1>1. /\ TypeOK /\ DataInv /\ UNCHANGED <<api, reports, objects, snapshots, worker, rest>>
      /\ queued' = queued \cup {p}
  BY DEF RemediationInv, Resync
<1>2. Grows
  BY <1>1, SpecSame DEF api, snapshots
<1>3. TypeOK'
  BY <1>1 DEF TypeOK, api, reports, objects, snapshots, worker, rest
<1>. QED
  BY <1>1, <1>2, <1>3, DataKept, OthersKeep DEF reports, rest

LEMMA RestartKeeps ==
  ASSUME RemediationInv, Restart
  PROVE  RemediationInv'
<1>1. /\ TypeOK /\ DataInv /\ pc' = "idle" /\ job' = NoJob /\ queued' = Plans
      /\ mutation' \in BOOLEAN /\ cache' = object /\ snapCache' = snapshot
      /\ UNCHANGED <<api, reports, object, touched, snapshot, edits, settled, missed>>
  BY RemediationAssumption DEF RemediationInv, Restart
<1>2. TypeOK'
  BY <1>1, NoJobType DEF TypeOK, api, reports, Labels
<1>3. DataInv'
  BY <1>1 DEF DataInv, TouchedAllowed, SnapshotsWhole, CachesRight, ChangesKnown, Known,
     SnapshotPreChange, api
<1>4. ReportsPending'
  BY <1>1 DEF ReportsPending
<1>. QED
  BY <1>1, <1>2, <1>3, <1>4, IdleWorker DEF RemediationInv

LEMMA StutterKeeps ==
  ASSUME RemediationInv, UNCHANGED vars
  PROVE  RemediationInv'
<1>1. UNCHANGED <<api, reports, objects, snapshots, queued, worker, rest>> /\ TypeOK /\ DataInv
  BY DEF vars, RemediationInv
<1>2. Grows
  BY <1>1, SpecSame DEF api, snapshots
<1>3. TypeOK'
  BY <1>1 DEF TypeOK, api, reports, objects, snapshots, worker, rest
<1>. QED
  BY <1>1, <1>2, <1>3, DataKept, OthersKeep DEF reports, rest

-----------------------------------------------------------------------------
(* Every step *)

LEMMA ProceedKeeps ==
  ASSUME RemediationInv, Proceed
  PROVE  RemediationInv'
<1>1. CASE Action \/ DryRun \/ EnsureSnapshot \/ ReadItem \/ SaveSnapshot \/ Write \/ Verify
  BY <1>1, ActionKeeps, DryRunKeeps, EnsureSnapshotKeeps, ReadItemKeeps, SaveSnapshotKeeps,
     WriteKeeps, VerifyKeeps
<1>2. CASE LoadSnapshot \/ NextKey \/ Restore \/ Remove \/ Check
  BY <1>2, LoadSnapshotKeeps, NextKeyKeeps, RestoreKeeps, RemoveKeeps, CheckKeeps
<1>3. CASE WritePlanStatus \/ UpsertRun \/ UpdateFindingStatus
  BY <1>3, WritePlanStatusKeeps, UpsertRunKeeps, UpdateFindingStatusKeeps
<1>. QED
  BY <1>1, <1>2, <1>3 DEF Proceed

LEMMA RemediationInductive ==
  ASSUME RemediationInv, [Next]_vars
  PROVE  RemediationInv'
<1>1. CASE \E p \in Plans : Reconcile(p) \/ Resync(p)
  BY <1>1, ReconcileKeeps, ResyncKeeps
<1>2. CASE Proceed \/ Fail
  BY <1>2, ProceedKeeps, FailKeeps
<1>3. CASE \E f \in Findings : ObserveFinding(f)
  BY <1>3, ObserveFindingKeeps
<1>4. CASE Requests
  BY <1>4, RequestsKeep
<1>5. CASE \E o \in Objects : Edit(o)
  BY <1>5, EditKeeps
<1>6. CASE Sync \/ Restart
  BY <1>6, SyncKeeps, RestartKeeps
<1>7. CASE UNCHANGED vars
  BY <1>7, StutterKeeps
<1>. QED
  BY <1>1, <1>2, <1>3, <1>4, <1>5, <1>6, <1>7 DEF Next

LEMMA RemediationInitial ==
  ASSUME Init
  PROVE  RemediationInv
<1>1. TypeOK
  <2>1. [phase |-> "none", observed |-> 0] \in [phase : Phases, observed : Nat]
    BY DEF Phases
  <2>2. [phase |-> "none", remediation |-> "none"] \in FindingStatuses
    BY DEF FindingStatuses
  <2>3. "none" \in RunStates
    BY DEF RunStates
  <2>4. /\ spec \in [Plans -> Specs]
        /\ status \in [Plans -> [phase : Phases, observed : Nat]]
        /\ run \in [Plans -> RunStates]
        /\ finding \in [Findings -> FindingStatuses]
        /\ snapshot \in [Plans -> Snapshots] /\ snapCache \in [Plans -> Snapshots]
        /\ touched \in [Plans -> SUBSET Objects]
    BY <2>1, <2>2, <2>3, NoSpecType, NoSnapshotType DEF Init
  <2>. QED
    BY <2>4, NoJobType, RemediationAssumption DEF Init, TypeOK, Labels
<1>2. /\ pc = "idle" /\ queued = Plans /\ object = Initial
      /\ \A p \in Plans : touched[p] = {}
      /\ \A p \in Plans, a \in Actions : snapshot[p][a] = NoItems /\ snapCache[p][a] = NoItems
  BY DEF Init, NoSnapshot
<1>3. \A p \in Plans, a \in Actions, o \in Objects : snapshot[p][a][o] = None
  BY <1>2 DEF NoItems
<1>4. WorkerInv /\ ReportsPending
  BY <1>2 DEF WorkerInv, JobPlaced, JobAllowed, JobSnapshots, Executing, Restoring, Looping,
     ReportsPending
<1>5. DataInv
  BY <1>2, <1>3, RemediationAssumption DEF DataInv, TouchedAllowed, SnapshotsWhole, CachesRight,
     ChangesKnown, SnapshotPreChange, Saved
<1>. QED
  BY <1>1, <1>4, <1>5 DEF RemediationInv

LEMMA RemediationInvariant == Spec => []RemediationInv
  BY RemediationInitial, RemediationInductive, PTL DEF Spec

\* Every variable keeps its type; in particular, an index never runs out of its
\* list, and a rollback finds an item for every target of every key
\* (restoreSnapshotItem).
THEOREM TypeCorrect == Spec => []TypeOK
  BY RemediationInvariant, PTL DEF RemediationInv

\* A plan writes an object only after its execution was asked for and, where the
\* policy requires it, approved, and only an operator with mutation enabled comes
\* as far as a snapshot (Reconcile, reconcilePlanActions).
THEOREM WritesAreGated == Spec => []GatedWrites
<1>1. RemediationInv => GatedWrites
  BY DEF RemediationInv, DataInv, TouchedAllowed, WorkerInv, JobAllowed, GatedWrites, Executing
<1>. QED
  BY <1>1, RemediationInvariant, PTL

\* Every object that a plan wrote has a snapshot from before: whatever lags,
\* fails or is repeated, none holds the change it is meant to undo
\* (ensureActionSnapshot).
THEOREM SnapshotsPrecedeChanges == Spec => []SnapshotPreChange
  BY RemediationInvariant, PTL DEF RemediationInv, DataInv

\* When the worker is done with a plan, the run reports what the plan reports
\* (writePlanStatus, upsertRun).
THEOREM RunsAgree == Spec => []RunAgrees
<1>1. RemediationInv => RunAgrees
  BY DEF RemediationInv, ReportsPending, RunAgrees
<1>. QED
  BY <1>1, RemediationInvariant, PTL

\* A patch keeps the fields that others changed, and an upsert leaves alone an
\* object without the managed-by label, although both are made from a cache that
\* may lag (executeTypedAction).  Upserts of labelled objects and rollbacks are
\* not covered: they do replace what others changed.
THEOREM OthersAreRespected == Spec => WritesRespectOthers
<1>. DEFINE Respects ==
       pc = "write" /\ object' # object /\ edits' = edits =>
          IF job.action \in Upserts
          THEN ~object[Target].exists \/ object[Target].managed
          ELSE object[Target].edited => object'[Target].edited
<1>1. ASSUME RemediationInv, [Next]_vars PROVE [Respects]_vars
  <2>. SUFFICES ASSUME pc = "write", object' # object, edits' = edits
                PROVE  Respects
    OBVIOUS
  <2>1. /\ TypeOK /\ Target \in Objects /\ object[Target] \in Values /\ edits \in Nat
    BY <1>1, TargetType DEF RemediationInv, WorkerInv, Looping, TypeOK
  <2>2. Write
    <3>1. edits' # edits + 1
      BY <2>1
    <3>. QED
      BY <1>1, <3>1 DEF Next, Proceed, Reconcile, Resync, Fail, ObserveFinding, Requests, DecideApproval,
         RequestExecution, CheckRollback, RequestRollback, ChangeSpec, Edit, Sync, SyncObject,
         SyncSnapshot, Restart, Action, DryRun, EnsureSnapshot, ReadItem, SaveSnapshot, Verify,
         LoadSnapshot, NextKey, Restore, Remove, Check, WritePlanStatus, UpsertRun,
         UpdateFindingStatus, vars, objects
  <2>3. /\ CanWrite(job.action, object[Target])
        /\ object' = [object EXCEPT ![Target] = Effect(job.action, object[Target])]
    BY <2>2 DEF Write, Accepted, Store, objects
  <2>4. object'[Target] = Effect(job.action, object[Target])
    BY <2>1, <2>3 DEF TypeOK
  <2>5. CASE job.action \in Upserts
    BY <2>3, <2>5 DEF CanWrite
  <2>6. CASE job.action \notin Upserts
    <3>1. Effect(job.action, object[Target]).edited = object[Target].edited
      BY <2>1, <2>6 DEF Effect, Values
    <3>. QED
      BY <2>4, <2>6, <3>1
  <2>. QED
    BY <2>5, <2>6
<1>. QED
  BY <1>1, RemediationInvariant, PTL DEF Spec, WritesRespectOthers

-----------------------------------------------------------------------------
(* What the reports are worth.                                             *)
(*                                                                         *)
(* The three theorems below speak of whole executions and rollbacks, and   *)
(* each needs a hypothesis on the constants.  They share HistoryInv, which *)
(* needs none.                                                             *)

Passing == {"action"} \cup Executing
Reporting == {"status", "run", "finding"}
RollingBack == {"load", "key"} \cup Restoring

\* A value that object o may be found with: its changes are changes of direct
\* actions that have o as a target, of plans that wrote, and only an object that
\* exists holds changes.
Sane(o, v, wrote) ==
    /\ \A a \in v.changes : o \in Targets(a) /\ a \in Direct
    /\ \A p \in Plans : v.changes \cap DirectActions(p) # {} => wrote[p] # {}
    /\ v.changes # {} => v.exists

ValuesSane ==
    /\ \A o \in Objects : Sane(o, object[o], touched)
    /\ \A p \in Plans, a \in Actions, o \in Objects :
          snapshot[p][a][o] # None => Sane(o, snapshot[p][a][o], touched) /\ o \in Targets(a)
    /\ pc \in {"read", "save"} => \A o \in Objects :
          job.items[o] # None => Sane(o, job.items[o], touched) /\ o \in Targets(job.action)

\* A rollback that was asked for stays asked for, and nothing else rolls back.
RollbackKept ==
    /\ pc # "idle" => (job.seen.rollback => spec[job.plan].rollback)
    /\ pc \in Passing => ~job.seen.rollback
    /\ pc \in RollingBack => job.seen.rollback
    /\ pc \in Reporting /\ job.phase = "RolledBack" => job.seen.rollback
    /\ \A p \in Plans : status[p].phase = "RolledBack" => spec[p].rollback

\* An execution is at an entry of the plan's list, and counts an action as applied
\* only with mutation enabled.
PassPlaced ==
    /\ mutation \in Modes
    /\ pc \in Executing =>
          job.i \in 1 .. Len(ActionsOf[job.plan]) /\ job.action = ActionsOf[job.plan][job.i]
    /\ pc \in Passing /\ "applied" \in job.tally => mutation
    /\ \A p \in Plans : touched[p] # {} => DirectActions(p) # {}

HistoryInv == ValuesSane /\ RollbackKept /\ PassPlaced

\* For ChangedIsEligible.  Every start of the operator enables mutation.
MutationStaysOn == Modes \subseteq {TRUE}

DoneDirect(n) == \E k \in 1 .. Len(ActionsOf[job.plan]) : k < n /\ ActionsOf[job.plan][k] \in Direct

\* A plan that wrote reports a state that RequestRollback accepts, or is about to.
EligiblePending ==
    /\ pc \in Passing => (DoneDirect(job.i) => "applied" \in job.tally)
    /\ pc \in Reporting /\ touched[job.plan] # {} /\ ~spec[job.plan].rollback
          => RunState(job.phase) \in Eligible
    /\ \A p \in Plans : touched[p] # {} /\ ~spec[p].rollback =>
          p \in queued \/ (pc # "idle" /\ job.plan = p) \/ run[p] \in Eligible

\* For AppliedIsInCluster.  Actions that share an object only patch it, and are
\* actions of one plan.
OwnTargets ==
    \A p \in Plans, q \in Plans : \A a \in DirectActions(p), b \in DirectActions(q) :
        a # b /\ Targets(a) \cap Targets(b) # {} => p = q /\ a \notin Upserts /\ b \notin Upserts

InCluster(a) == \A o \in Targets(a) : a \in object[o].changes

Undisturbed(p) == edits = 0 /\ ~spec[p].rollback

\* The direct actions among the first entries are in the cluster.
GoneThrough(p, n) ==
    \A k \in 1 .. Len(ActionsOf[p]) :
        k < n /\ ActionsOf[p][k] \in Direct => InCluster(ActionsOf[p][k])

\* What the cache shows of an undisturbed plan is true, and so is what the worker
\* has concluded from it.
AppliedSoFar ==
    /\ \A p \in Plans : Undisturbed(p) => \A a \in DirectActions(p), o \in Objects :
          a \in cache[o].changes => a \in object[o].changes
    /\ pc \in Passing /\ mutation /\ Undisturbed(job.plan) => GoneThrough(job.plan, job.i)
    /\ pc = "verify" /\ Undisturbed(job.plan) =>
          \A k \in 1 .. Len(TargetsOf[job.action]) :
              k < job.j => job.action \in object[TargetsOf[job.action][k]].changes
    /\ pc \in Reporting /\ job.phase = "Applied" /\ Undisturbed(job.plan) =>
          \A a \in DirectActions(job.plan) : InCluster(a)
    /\ \A p \in Plans : status[p].phase = "Applied" /\ Undisturbed(p) =>
          \A a \in DirectActions(p) : InCluster(a)

\* For RollbackRemovesChanges.  What is left of plan p is in a snapshot.
Clean(p) == \A a \in DirectActions(p), o \in Objects : a \in object[o].changes => Held(a, o)

\* The rollback has still to come to action a on object o.
Due(a, o) ==
    \/ a \in job.keys
    \/ /\ pc \in Restoring /\ a = job.action
       /\ \E k \in 1 .. Len(TargetsOf[a]) : job.j <= k /\ TargetsOf[a][k] = o

\* A rollback that saw every key forgets no change, and a plan that was rolled back
\* is not executed.
Cleaning ==
    /\ pc \in Passing => status[job.plan].phase # "RolledBack"
    /\ pc \in {"key"} \cup Restoring /\ job.plan \notin missed =>
          \A a \in DirectActions(job.plan), o \in Objects :
              a \in object[o].changes => Due(a, o) \/ Held(a, o)
    /\ pc \in Reporting /\ job.phase = "RolledBack" /\ job.plan \notin missed => Clean(job.plan)
    /\ \A p \in Plans : status[p].phase = "RolledBack" /\ p \notin missed => Clean(p)

-----------------------------------------------------------------------------
(* What a step is to the worker *)

\* The worker stays with one action, takes one, goes on with the next one, or is
\* done with the plan.
StaysWith ==
    /\ pc \in Executing /\ pc' \in Executing
    /\ job'.i = job.i /\ job'.action = job.action
    /\ job'.tally = job.tally \/ job'.tally = job.tally \cup {"dry_run"}

Takes ==
    /\ pc = "action" /\ pc' = "dryRun" /\ job.i \in 1 .. Len(ActionsOf[job.plan])
    /\ job'.i = job.i /\ job'.action = ActionsOf[job.plan][job.i] /\ job'.tally = job.tally

Advances ==
    /\ pc' = "action" /\ job'.i = job.i + 1
    /\ \/ /\ pc = "action" /\ ActionsOf[job.plan][job.i] \notin Direct
          /\ job'.tally = job.tally \cup {"proposal"}
       \/ pc = "dryRun" /\ ~mutation /\ job'.tally = job.tally \cup {"dry_run"}
       \/ /\ pc = "verify" /\ mutation /\ job'.tally = job.tally \cup {"applied"}
          /\ job.j = Len(TargetsOf[job.action]) /\ Verified(job.action, Target)

Concludes ==
    /\ pc' = "status"
    /\ \/ pc = "action" /\ job.i > Len(ActionsOf[job.plan]) /\ job'.phase = Outcome(job.tally)
       \/ RunState(job'.phase) \in Eligible /\ job'.phase # "Applied"

\* What a step of an execution is, for the proofs below.
PassStep ==
    /\ pc \in Passing /\ job'.plan = job.plan /\ job'.seen = job.seen
    /\ UNCHANGED <<spec, status, run, queued, mutation, edits>>
    /\ StaysWith \/ Takes \/ Advances \/ Concludes

LEMMA NextActionCounts ==
  ASSUME TypeOK, NEW tally \in SUBSET {"applied", "dry_run", "proposal"}, NextAction(tally)
  PROVE  job'.tally = job.tally \cup tally
<1>. PICK n \in Nat : n = job.i + 1
  BY JobFields
<1>. PICK t \in SUBSET {"applied", "dry_run", "proposal"} : t = job.tally \cup tally
  BY JobFields
<1>1. /\ job \in Jobs
      /\ job' = [job EXCEPT !.i = n, !.j = 0, !.tally = t, !.action = None,
                            !.base = NoSnapshot, !.items = NoItems]
  BY DEF NextAction, TypeOK
<1>2. job'.tally = t
  BY <1>1 DEF Jobs
<1>. QED
  BY <1>2

\* The phases in which an execution may end before its last action.
Failures == {"Failed", "DryRunFailed", "SnapshotFailed", "VerificationFailed", "Verifying"}

LEMMA FailedPhases ==
  \A phase \in Failures :
      /\ RunState(phase) \in Eligible /\ phase # "Applied" /\ phase \in Phases
  BY DEF Failures, RunState, Eligible, Phases

LEMMA FinishConcludes ==
  ASSUME TypeOK, pc \in Passing, UNCHANGED <<spec, status, run, queued, mutation, edits>>,
         NEW phase \in Failures,
         Finish(phase)
  PROVE  PassStep
<1>1. pc' = "status" /\ job'.plan = job.plan /\ job'.seen = job.seen /\ job'.phase = phase
  BY FinishMoves, FailedPhases
<1>. QED
  BY <1>1, FailedPhases DEF PassStep, Concludes

LEMMA JobCounts ==
  ASSUME TypeOK
  PROVE  /\ job.j + 1 \in Nat
         /\ job.tally \cup {"dry_run"} \in SUBSET {"applied", "dry_run", "proposal"}
  BY JobFields

LEMMA StayMoves ==
  ASSUME TypeOK, pc \in Executing, pc' \in Executing,
         UNCHANGED <<spec, status, run, queued, mutation, edits>>,
         \/ job' = [job EXCEPT !.j = 1]
         \/ job' = [job EXCEPT !.j = @ + 1]
         \/ job' = [job EXCEPT !.tally = @ \cup {"dry_run"}]
         \/ \E data \in Snapshots : job' = [job EXCEPT !.base = data, !.j = 1]
         \/ \E items \in Items : job' = [job EXCEPT !.items = items, !.j = @ + 1]
         \/ \E items \in Items : job' = [job EXCEPT !.items = items]
  PROVE  PassStep
<1>. PICK n \in Nat : n = job.j + 1
  BY JobCounts
<1>. PICK t \in SUBSET {"applied", "dry_run", "proposal"} : t = job.tally \cup {"dry_run"}
  BY JobCounts
<1>1. /\ job \in Jobs
      /\ \/ job' = [job EXCEPT !.j = 1]
         \/ job' = [job EXCEPT !.j = n]
         \/ job' = [job EXCEPT !.tally = t]
         \/ \E data \in Snapshots : job' = [job EXCEPT !.base = data, !.j = 1]
         \/ \E items \in Items : job' = [job EXCEPT !.items = items, !.j = n]
         \/ \E items \in Items : job' = [job EXCEPT !.items = items]
  BY DEF TypeOK
<1>2. /\ job'.plan = job.plan /\ job'.seen = job.seen /\ job'.i = job.i
      /\ job'.action = job.action /\ (job'.tally = job.tally \/ job'.tally = t)
  BY <1>1 DEF Jobs
<1>. QED
  BY <1>2 DEF PassStep, StaysWith, Passing

LEMMA ActionPasses ==
  ASSUME RemediationInv, Action
  PROVE  PassStep
<1>. DEFINE actions == ActionsOf[job.plan]
            a == actions[job.i]
<1>1. /\ TypeOK /\ pc = "action" /\ job.plan \in Plans /\ job.i \in Nat \ {0}
      /\ UNCHANGED <<spec, status, run, queued, mutation, edits>> /\ pc \in Passing
  BY DEF RemediationInv, Action, api, reports, rest, TypeOK, WorkerInv, JobPlaced, Passing
<1>2. CASE job.i > Len(actions) /\ Finish(Outcome(job.tally))
  <2>1. Outcome(job.tally) \in Phases
    BY DEF Outcome, Phases
  <2>2. /\ pc' = "status" /\ job'.plan = job.plan /\ job'.seen = job.seen
        /\ job'.phase = Outcome(job.tally)
    BY <1>1, <1>2, <2>1, FinishMoves
  <2>. QED
    BY <1>1, <1>2, <2>2 DEF PassStep, Concludes
<1>3. CASE Finish("Failed")
  BY <1>1, <1>3, FinishConcludes DEF Failures
<1>4. CASE job.i <= Len(actions) /\ a \notin Direct /\ NextAction({"proposal"})
  <2>1. /\ pc' = "action" /\ job'.plan = job.plan /\ job'.seen = job.seen
        /\ job'.i = job.i + 1 /\ job'.tally = job.tally \cup {"proposal"}
    BY <1>1, <1>4, NextActionMoves, NextActionCounts
  <2>. QED
    BY <1>1, <1>4, <2>1 DEF PassStep, Advances
<1>5. CASE /\ job.i <= Len(actions) /\ a \in Direct
           /\ pc' = "dryRun" /\ job' = [job EXCEPT !.action = a, !.j = 1]
  <2>1. job.i \in 1 .. Len(actions) /\ a \in Actions
    BY <1>1, <1>5, ListTypes
  <2>. HIDE DEF a
  <2>2. /\ job'.plan = job.plan /\ job'.seen = job.seen /\ job'.i = job.i
        /\ job'.action = a /\ job'.tally = job.tally
    BY <1>1, <1>5, <2>1 DEF Jobs, TypeOK
  <2>. QED
    BY <1>1, <1>5, <2>1, <2>2 DEF PassStep, Takes, a
<1>. QED
  BY <1>1, <1>2, <1>3, <1>4, <1>5, RemediationAssumption DEF Action

LEMMA DryRunPasses ==
  ASSUME RemediationInv, DryRun
  PROVE  PassStep
<1>1. /\ TypeOK /\ pc = "dryRun" /\ UNCHANGED <<spec, status, run, queued, mutation, edits>>
      /\ pc \in Passing /\ pc \in Executing
  BY DEF RemediationInv, DryRun, api, reports, rest, Passing, Executing
<1>2. CASE Finish("DryRunFailed")
  BY <1>1, <1>2, FinishConcludes DEF Failures
<1>3. CASE pc' = pc /\ job' = [job EXCEPT !.j = @ + 1]
  BY <1>1, <1>3, StayMoves
<1>4. CASE ~mutation /\ NextAction({"dry_run"})
  <2>1. /\ pc' = "action" /\ job'.plan = job.plan /\ job'.seen = job.seen
        /\ job'.i = job.i + 1 /\ job'.tally = job.tally \cup {"dry_run"}
    BY <1>1, <1>4, NextActionMoves, NextActionCounts
  <2>. QED
    BY <1>1, <1>4, <2>1 DEF PassStep, Advances
<1>5. CASE pc' = "snapshot" /\ job' = [job EXCEPT !.tally = @ \cup {"dry_run"}]
  BY <1>1, <1>5, StayMoves DEF Executing
<1>. QED
  BY <1>1, <1>2, <1>3, <1>4, <1>5 DEF DryRun, NextTarget

LEMMA SnapshotPasses ==
  ASSUME RemediationInv, EnsureSnapshot \/ ReadItem \/ SaveSnapshot
  PROVE  PassStep
<1>1. /\ TypeOK /\ pc \in {"snapshot", "read", "save"} /\ job.plan \in Plans
      /\ UNCHANGED <<spec, status, run, queued, mutation, edits>>
      /\ pc \in Passing /\ pc \in Executing
  BY DEF RemediationInv, EnsureSnapshot, ReadItem, SaveSnapshot, api, reports, rest, Passing,
     Executing, TypeOK
<1>2. CASE EnsureSnapshot
  <2>1. snapCache[job.plan] \in Snapshots
    BY <1>1 DEF TypeOK
  <2>2. pc' \in Executing /\ \/ job' = [job EXCEPT !.j = 1]
                             \/ job' = [job EXCEPT !.base = snapCache[job.plan], !.j = 1]
    BY <1>2 DEF EnsureSnapshot, StartTargets, Executing
  <2>. QED
    BY <1>1, <2>1, <2>2, StayMoves
<1>3. CASE ReadItem
  <2>. DEFINE items == [job.items EXCEPT ![Target] = object[Target]]
  <2>1. items \in Items
    BY <1>1, <1>3, TargetType, JobFields DEF RemediationInv, WorkerInv, ReadItem, Looping, Items
  <2>2. pc' \in Executing /\ \/ job' = [job EXCEPT !.items = items, !.j = @ + 1]
                             \/ job' = [job EXCEPT !.items = items]
    BY <1>3 DEF ReadItem, Executing
  <2>. HIDE DEF items
  <2>. QED
    BY <1>1, <2>1, <2>2, StayMoves
<1>4. CASE SaveSnapshot
  <2>1. CASE StartTargets("write")
    BY <1>1, <2>1, StayMoves DEF StartTargets, Executing
  <2>2. CASE Finish("SnapshotFailed")
    BY <1>1, <2>2, FinishConcludes DEF Failures
  <2>. QED
    BY <1>4, <2>1, <2>2 DEF SaveSnapshot
<1>. QED
  BY <1>2, <1>3, <1>4

LEMMA WritePasses ==
  ASSUME RemediationInv, Write
  PROVE  PassStep
<1>1. /\ TypeOK /\ pc = "write" /\ UNCHANGED <<spec, status, run, queued, mutation, edits>>
      /\ pc \in Passing /\ pc \in Executing
  BY DEF RemediationInv, Write, api, reports, rest, Passing, Executing
<1>2. CASE Finish("VerificationFailed")
  BY <1>1, <1>2, FinishConcludes DEF Failures
<1>3. CASE pc' = pc /\ job' = [job EXCEPT !.j = @ + 1]
  BY <1>1, <1>3, StayMoves
<1>4. CASE StartTargets("verify")
  BY <1>1, <1>4, StayMoves DEF StartTargets, Executing
<1>. QED
  BY <1>2, <1>3, <1>4 DEF Write, NextTarget

LEMMA VerifyPasses ==
  ASSUME RemediationInv, Verify
  PROVE  PassStep
<1>1. /\ TypeOK /\ pc = "verify" /\ UNCHANGED <<spec, status, run, queued, mutation, edits>>
      /\ pc \in Passing /\ pc \in Executing /\ mutation
      /\ job.action \in Actions /\ job.j \in 1 .. Len(TargetsOf[job.action])
  BY DEF RemediationInv, Verify, api, reports, rest, Passing, Executing, WorkerInv, JobAllowed,
     JobPlaced, Looping
<1>2. CASE Finish("VerificationFailed") \/ Finish("Verifying")
  BY <1>1, <1>2, FinishConcludes DEF Failures
<1>3. CASE pc' = pc /\ job' = [job EXCEPT !.j = @ + 1]
  BY <1>1, <1>3, StayMoves
<1>4. CASE /\ ~(job.j < Len(TargetsOf[job.action])) /\ Verified(job.action, Target)
           /\ NextAction({"applied"})
  <2>1. /\ pc' = "action" /\ job'.plan = job.plan /\ job'.seen = job.seen
        /\ job'.i = job.i + 1 /\ job'.tally = job.tally \cup {"applied"}
    BY <1>1, <1>4, NextActionMoves, NextActionCounts
  <2>2. job.j = Len(TargetsOf[job.action])
    BY <1>1, <1>4, ListTypes
  <2>. QED
    BY <1>1, <1>4, <2>1, <2>2 DEF PassStep, Advances
<1>. QED
  BY <1>2, <1>3, <1>4 DEF Verify, NextTarget

\* What a step of a rollback is.
UndoStep ==
    /\ pc \in RollingBack /\ job'.plan = job.plan /\ job'.seen = job.seen
    /\ UNCHANGED <<spec, status, run, queued, mutation, edits>>
    /\ \/ pc' \in RollingBack
       \/ pc' = "status" /\ job'.phase = "RollbackFailed"
       \/ pc = "key" /\ job.keys = {} /\ pc' = "status" /\ job'.phase = "RolledBack"

LEMMA RollbackFails ==
  ASSUME TypeOK, pc \in RollingBack, UNCHANGED <<spec, status, run, queued, mutation, edits>>,
         Finish("RollbackFailed")
  PROVE  UndoStep
<1>1. "RollbackFailed" \in Phases
  BY DEF Phases
<1>. QED
  BY <1>1, FinishMoves DEF UndoStep

LEMMA NextItemUndoes ==
  ASSUME TypeOK, pc \in Restoring, UNCHANGED <<spec, status, run, queued, mutation, edits>>,
         NextItem
  PROVE  UndoStep
<1>1. pc \in RollingBack
  BY DEF RollingBack
<1>2. CASE pc' = "restore" /\ job' = [job EXCEPT !.j = @ + 1]
  <2>1. job'.plan = job.plan /\ job'.seen = job.seen
    BY <1>2, NextIndexMoves
  <2>. QED
    BY <1>1, <1>2, <2>1 DEF UndoStep, RollingBack, Restoring
<1>3. CASE pc' = "key" /\ job' = [job EXCEPT !.action = None, !.j = 0]
  <2>1. job'.plan = job.plan /\ job'.seen = job.seen
    BY <1>3 DEF TypeOK, Jobs
  <2>. QED
    BY <1>1, <1>3, <2>1 DEF UndoStep, RollingBack, Restoring
<1>. QED
  BY <1>2, <1>3 DEF NextItem

LEMMA RollbackUndoes ==
  ASSUME RemediationInv, LoadSnapshot \/ NextKey \/ Restore \/ Remove \/ Check
  PROVE  UndoStep
<1>1. /\ TypeOK /\ pc \in RollingBack /\ UNCHANGED <<spec, status, run, queued, mutation, edits>>
  BY DEF RemediationInv, LoadSnapshot, Loaded, NextKey, Restore, Remove, Check, api, reports, rest,
     RollingBack, Restoring
<1>2. CASE LoadSnapshot
  <2>. DEFINE keys == {a \in Actions : Saved(snapCache[job.plan], a)}
  <2>1. CASE pc' = "key" /\ job' = [job EXCEPT !.keys = keys]
    <3>1. keys \in SUBSET Actions
      OBVIOUS
    <3>. HIDE DEF keys
    <3>2. job'.plan = job.plan /\ job'.seen = job.seen
      BY <1>1, <2>1, <3>1 DEF Jobs, TypeOK
    <3>. QED
      BY <1>1, <2>1, <3>2 DEF UndoStep, RollingBack
  <2>. QED
    BY <1>1, <1>2, <2>1, RollbackFails DEF LoadSnapshot
<1>3. CASE NextKey
  <2>1. CASE job.keys = {} /\ Finish("RolledBack")
    <3>1. "RolledBack" \in Phases
      BY DEF Phases
    <3>. QED
      BY <1>1, <1>3, <2>1, <3>1, FinishMoves DEF UndoStep, NextKey
  <2>2. ASSUME NEW a \in job.keys, pc' = "restore",
               job' = [job EXCEPT !.keys = @ \ {a}, !.action = a, !.j = 1]
        PROVE  UndoStep
    <3>. PICK keys \in SUBSET Actions : keys = job.keys \ {a}
      BY <1>1, JobFields
    <3>1. job \in Jobs /\ job' = [job EXCEPT !.keys = keys, !.action = a, !.j = 1]
      BY <1>1, <2>2 DEF TypeOK
    <3>2. job'.plan = job.plan /\ job'.seen = job.seen
      BY <3>1 DEF Jobs
    <3>. QED
      BY <1>1, <2>2, <3>2 DEF UndoStep, RollingBack, Restoring
  <2>. QED
    BY <1>3, <2>1, <2>2 DEF NextKey
<1>4. CASE Restore
  <2>1. CASE NextItem
    BY <1>1, <1>4, <2>1, NextItemUndoes DEF Restore, Restoring
  <2>2. CASE Finish("RollbackFailed")
    BY <1>1, <2>2, RollbackFails
  <2>3. CASE Goto("remove") \/ Goto("check")
    BY <1>1, <2>3 DEF Goto, UndoStep, RollingBack, Restoring
  <2>. QED
    BY <1>4, <2>1, <2>2, <2>3 DEF Restore
<1>5. CASE Remove
  BY <1>1, <1>5 DEF Remove, Goto, UndoStep, RollingBack, Restoring
<1>6. CASE Check
  BY <1>1, <1>6, NextItemUndoes, RollbackFails DEF Check, Restoring
<1>. QED
  BY <1>2, <1>3, <1>4, <1>5, <1>6

\* What a step of the reports is.
ReportStep ==
    /\ job' = job /\ UNCHANGED <<spec, mutation, edits>> /\ job.plan \in Plans
    /\ \/ /\ pc = "status" /\ pc' = "run" /\ run' = run /\ queued \subseteq queued'
          /\ status'[job.plan].phase = job.phase
          /\ \A q \in Plans \ {job.plan} : status'[q] = status[q]
       \/ /\ pc = "run" /\ pc' = "finding" /\ UNCHANGED <<status, queued>>
          /\ run'[job.plan] = RunState(job.phase)
          /\ \A q \in Plans \ {job.plan} : run'[q] = run[q]

\* The worker gives a plan back, or is done with it.
YieldStep ==
    /\ pc' = "idle" /\ job' = NoJob /\ UNCHANGED <<spec, status, run, edits>>
    /\ mutation' = mutation \/ mutation' \in Modes
    /\ \A p \in Plans : p \in queued \/ (pc # "idle" /\ job.plan = p) =>
                            p \in queued' \/ (pc = "finding" /\ job.plan = p)

WaitStep ==
    /\ UNCHANGED <<pc, job, status, run, mutation>> /\ queued \subseteq queued'
    /\ \A p \in Plans : spec[p].rollback => spec'[p].rollback
    /\ edits' = edits \/ edits' = edits + 1

BeginStep(p) ==
    /\ pc = "idle" /\ UNCHANGED <<spec, status, run, mutation, edits>> /\ queued' = queued \ {p}
    /\ \/ spec[p].rollback /\ pc' = "idle" /\ job' = job
       \/ /\ job'.plan = p /\ job'.seen = spec[p]
          /\ \/ spec[p].rollback /\ pc' = "load"
             \/ /\ ~spec[p].rollback /\ (Blocked(p, spec[p]) \/ ~spec[p].execution)
                /\ pc' = "status"
                /\ job'.phase \in {"Rejected", "PendingApproval", "Approved", "Prepared"}
             \/ ~spec[p].rollback /\ pc' = "action" /\ job'.i = 1 /\ job'.tally = {}

LEMMA ReportsReport ==
  ASSUME RemediationInv, WritePlanStatus \/ UpsertRun
  PROVE  ReportStep \/ YieldStep
<1>1. TypeOK /\ job.plan \in Plans /\ UNCHANGED <<spec, mutation, edits>>
  BY DEF RemediationInv, TypeOK, WritePlanStatus, UpsertRun, api, rest
<1>2. CASE WritePlanStatus
  <2>. DEFINE new == [phase |-> job.phase, observed |-> job.seen.generation]
  <2>1. new \in [phase : Phases, observed : Nat] /\ new.phase = job.phase
    BY <1>1, JobFields DEF Specs
  <2>. HIDE DEF new
  <2>2. CASE /\ status' = [status EXCEPT ![job.plan] = new] /\ Goto("run")
             /\ queued' \in {queued \cup {job.plan}} \cup (IF new = status[job.plan] THEN {queued} ELSE {})
    <3>1. queued \subseteq queued' /\ pc = "status" /\ run' = run
      BY <1>2, <2>2 DEF WritePlanStatus
    <3>. QED
      BY <1>1, <2>1, <2>2, <3>1 DEF ReportStep, Goto, TypeOK
  <2>3. CASE Requeue /\ UNCHANGED status
    BY <1>1, <1>2, <2>3 DEF Requeue, YieldStep, WritePlanStatus
  <2>. QED
    BY <1>2, <2>2, <2>3 DEF WritePlanStatus, new
<1>3. CASE UpsertRun
  BY <1>1, <1>3 DEF UpsertRun, Goto, ReportStep, TypeOK, api, rest
<1>. QED
  BY <1>2, <1>3

LEMMA LastReportYields ==
  ASSUME RemediationInv, UpdateFindingStatus
  PROVE  YieldStep
<1>1. /\ pc = "finding" /\ pc' = "idle" /\ job' = NoJob
      /\ queued' = queued \/ queued' = queued \cup {job.plan}
      /\ UNCHANGED <<spec, status, run, mutation, edits>>
  BY DEF UpdateFindingStatus, Requeue, api, rest
<1>. QED
  BY <1>1 DEF YieldStep

LEMMA FailSteps ==
  ASSUME RemediationInv, Fail
  PROVE  PassStep \/ UndoStep \/ YieldStep
<1>1. TypeOK /\ UNCHANGED <<spec, status, run, mutation, edits>>
  BY DEF RemediationInv, Fail, api, reports, rest
<1>2. CASE pc \in DOMAIN FailurePhase /\ Finish(FailurePhase[pc]) /\ UNCHANGED queued
  <2>1. \/ /\ pc \in Passing
           /\ FailurePhase[pc] \in Failures
        \/ pc \in RollingBack /\ FailurePhase[pc] = "RollbackFailed"
    BY <1>2 DEF FailurePhase, Failures, Passing, Executing, RollingBack, Restoring
  <2>. QED
    BY <1>1, <1>2, <2>1, FinishConcludes, RollbackFails DEF Failures
<1>3. CASE pc \in {"status", "run", "finding"} /\ Requeue
  BY <1>1, <1>3 DEF Requeue, YieldStep
<1>. QED
  BY <1>2, <1>3 DEF Fail

LEMMA ReconcileBegins ==
  ASSUME RemediationInv, NEW p \in Plans, Reconcile(p)
  PROVE  BeginStep(p)
<1>. DEFINE s == spec[p]
            begun == [NoJob EXCEPT !.plan = p, !.seen = s]
            gate == Gate(p, s)
<1>1. /\ TypeOK /\ pc = "idle" /\ UNCHANGED <<spec, status, run, mutation, edits>>
      /\ queued' = queued \ {p}
  BY DEF RemediationInv, Reconcile, api, reports, rest
<1>2. CASE s.rollback /\ UNCHANGED worker
  BY <1>1, <1>2 DEF BeginStep, worker
<1>3. s \in Specs /\ gate \in {"Rejected", "PendingApproval", "Approved", "Prepared"}
  BY <1>1 DEF TypeOK, Gate
<1>. HIDE DEF s, gate
<1>4. begun \in Jobs /\ begun.plan = p /\ begun.seen = s /\ begun.tally = {}
  BY <1>3, NoJobType DEF Jobs, NoJob
<1>. HIDE DEF begun
<1>5. CASE s.rollback /\ pc' = "load" /\ job' = begun
  BY <1>1, <1>4, <1>5 DEF BeginStep, s
<1>6. CASE /\ ~s.rollback /\ (Blocked(p, s) \/ ~s.execution)
           /\ pc' = "status" /\ job' = [begun EXCEPT !.phase = gate]
  <2>1. job'.plan = p /\ job'.seen = s /\ job'.phase = gate
    BY <1>4, <1>6 DEF Jobs
  <2>. QED
    BY <1>1, <1>3, <1>6, <2>1 DEF BeginStep, s
<1>7. CASE ~s.rollback /\ pc' = "action" /\ job' = [begun EXCEPT !.i = 1]
  <2>1. job'.plan = p /\ job'.seen = s /\ job'.i = 1 /\ job'.tally = {}
    BY <1>4, <1>7 DEF Jobs
  <2>. QED
    BY <1>1, <1>7, <2>1 DEF BeginStep, s
<1>. QED
  BY <1>2, <1>5, <1>6, <1>7 DEF Reconcile, s, begun, gate

LEMMA RequestsWait ==
  ASSUME RemediationInv, Requests
  PROVE  WaitStep
<1>1. PICK p \in Plans : \/ \E d \in {"approved", "rejected"} : DecideApproval(p, d)
                         \/ RequestExecution(p) \/ CheckRollback(p) \/ RequestRollback(p)
  BY DEF Requests
<1>2. TypeOK /\ spec[p] \in Specs /\ spec[p].generation \in Nat
  BY DEF RemediationInv, TypeOK, Specs
<1>3. ASSUME NEW s \in Specs, spec[p].rollback => s.rollback, ChangeSpec(p, s)
      PROVE  WaitStep
  <2>. PICK n \in Nat : n = s.generation + 1
    BY DEF Specs
  <2>1. spec' = [spec EXCEPT ![p] = [s EXCEPT !.generation = n]]
        /\ UNCHANGED <<pc, job, status, run, mutation, edits>> /\ queued \subseteq queued'
    BY <1>3 DEF ChangeSpec, reports, worker, rest
  <2>2. [s EXCEPT !.generation = n].rollback = s.rollback
    BY DEF Specs
  <2>3. \A q \in Plans : spec[q].rollback => spec'[q].rollback
    BY <1>2, <1>3, <2>1, <2>2 DEF TypeOK
  <2>. QED
    BY <2>1, <2>3 DEF WaitStep
<1>4. ASSUME NEW d \in {"approved", "rejected"}, DecideApproval(p, d)
      PROVE  WaitStep
  <2>. DEFINE s == [spec[p] EXCEPT !.decision = d]
  <2>1. s \in Specs /\ s.rollback = spec[p].rollback
    BY <1>2 DEF Specs, Decisions
  <2>. QED
    BY <1>3, <1>4, <2>1 DEF DecideApproval
<1>5. CASE RequestExecution(p)
  <2>. DEFINE s == [spec[p] EXCEPT !.execution = TRUE]
  <2>1. s \in Specs /\ s.rollback = spec[p].rollback
    BY <1>2 DEF Specs
  <2>. QED
    BY <1>3, <1>5, <2>1 DEF RequestExecution
<1>6. CASE RequestRollback(p)
  <2>. DEFINE s == [spec[p] EXCEPT !.rollback = TRUE]
  <2>1. s \in Specs /\ s.rollback
    BY <1>2 DEF Specs
  <2>. QED
    BY <1>3, <1>6, <2>1 DEF RequestRollback
<1>7. CASE CheckRollback(p)
  BY <1>7 DEF CheckRollback, WaitStep, reports, worker, rest
<1>. QED
  BY <1>1, <1>4, <1>5, <1>6, <1>7

LEMMA OthersWait ==
  ASSUME RemediationInv,
         \/ \E p \in Plans : Resync(p)
         \/ \E f \in Findings : ObserveFinding(f)
         \/ \E o \in Objects : Edit(o)
         \/ Sync \/ UNCHANGED vars
  PROVE  WaitStep
<1>1. CASE (\E p \in Plans : Resync(p)) \/ \E f \in Findings : ObserveFinding(f)
  BY <1>1 DEF Resync, ObserveFinding, api, reports, worker, rest, WaitStep
<1>2. CASE \E o \in Objects : Edit(o)
  BY <1>2 DEF Edit, api, reports, worker, rest, WaitStep
<1>3. CASE Sync \/ UNCHANGED vars
  BY <1>3 DEF Sync, SyncObject, SyncSnapshot, vars, api, reports, worker, rest, WaitStep
<1>. QED
  BY <1>1, <1>2, <1>3

LEMMA RestartYields ==
  ASSUME RemediationInv, Restart
  PROVE  YieldStep
  BY DEF Restart, YieldStep, api, reports

\* Every step is one of these.
LEMMA StepKinds ==
  ASSUME RemediationInv, [Next]_vars
  PROVE  \/ PassStep \/ UndoStep \/ ReportStep \/ YieldStep \/ WaitStep
         \/ \E p \in Plans : BeginStep(p)
<1>1. CASE Proceed
  BY <1>1, ActionPasses, DryRunPasses, SnapshotPasses, WritePasses, VerifyPasses, RollbackUndoes,
     ReportsReport, LastReportYields DEF Proceed
<1>2. CASE \E p \in Plans : Reconcile(p)
  BY <1>2, ReconcileBegins
<1>3. CASE Fail \/ Requests \/ Restart
  BY <1>3, FailSteps, RequestsWait, RestartYields
<1>. QED
  BY <1>1, <1>2, <1>3, OthersWait DEF Next

LEMMA OutcomePhases ==
  ASSUME NEW tally
  PROVE  /\ Outcome(tally) # "RolledBack"
         /\ Outcome(tally) = "Applied" <=> "applied" \in tally
  BY DEF Outcome

LEMMA EligiblePhases == RunState("RolledBack") \notin Eligible
  BY DEF RunState, Eligible

LEMMA RollbackKeptStays ==
  ASSUME RemediationInv, RollbackKept, [Next]_vars
  PROVE  RollbackKept'
<1>1. TypeOK /\ (pc # "idle" => job.plan \in Plans)
  BY DEF RemediationInv, TypeOK
<1>2. CASE PassStep
  <2>1. job.plan \in Plans /\ pc # "idle" /\ ~job.seen.rollback
    BY <1>1, <1>2 DEF PassStep, Passing, Executing, RollbackKept
  <2>2. pc' \in Passing \cup {"status"} /\ (pc' = "status" => job'.phase # "RolledBack")
    BY <1>2, OutcomePhases, EligiblePhases
       DEF PassStep, StaysWith, Takes, Advances, Concludes, Passing, Executing
  <2>. QED
    BY <1>2, <2>1, <2>2 DEF PassStep, RollbackKept, Passing, Executing, RollingBack, Restoring, Reporting
<1>3. CASE UndoStep
  <2>1. job.plan \in Plans /\ pc # "idle" /\ job.seen.rollback
    BY <1>1, <1>3 DEF UndoStep, RollingBack, Restoring, RollbackKept
  <2>. QED
    BY <1>3, <2>1 DEF UndoStep, RollbackKept, Passing, Executing, RollingBack, Restoring, Reporting
<1>4. CASE ReportStep
  BY <1>1, <1>4 DEF ReportStep, RollbackKept, Passing, Executing, RollingBack, Restoring, Reporting
<1>5. CASE YieldStep
  BY <1>5 DEF YieldStep, RollbackKept, Passing, Executing, RollingBack, Restoring, Reporting
<1>6. CASE WaitStep
  BY <1>1, <1>6 DEF WaitStep, RollbackKept
<1>7. ASSUME NEW p \in Plans, BeginStep(p) PROVE RollbackKept'
  BY <1>7 DEF BeginStep, RollbackKept, Passing, Executing, RollingBack, Restoring, Reporting
<1>. QED
  BY <1>2, <1>3, <1>4, <1>5, <1>6, <1>7, StepKinds

-----------------------------------------------------------------------------
(* The steps that change objects and snapshots *)

LEMMA ObjectKinds ==
  ASSUME [Next]_vars
  PROVE  \/ UNCHANGED <<object, touched>>
         \/ Write \/ Restore \/ Remove
         \/ (\E o \in Objects : Edit(o))
<1>1. CASE Proceed
  BY <1>1 DEF Proceed, Action, DryRun, EnsureSnapshot, ReadItem, SaveSnapshot, Verify,
         LoadSnapshot, NextKey, Check, WritePlanStatus, UpsertRun, UpdateFindingStatus, objects
<1>2. CASE Requests \/ Sync \/ Restart \/ Fail
  BY <1>2 DEF Requests, DecideApproval, RequestExecution, CheckRollback, RequestRollback,
     ChangeSpec, Sync, SyncObject, SyncSnapshot, Restart, Fail, objects
<1>. QED
  BY <1>1, <1>2 DEF Next, Reconcile, Resync, ObserveFinding, objects, vars

LEMMA SnapshotKinds ==
  ASSUME [Next]_vars
  PROVE  UNCHANGED snapshot \/ SaveSnapshot
<1>1. CASE Proceed
  BY <1>1 DEF Proceed, Action, DryRun, EnsureSnapshot, ReadItem, Write, Verify,
         LoadSnapshot, NextKey, Restore, Remove, Check, WritePlanStatus, UpsertRun,
         UpdateFindingStatus, snapshots
<1>2. CASE Requests \/ Sync \/ Restart \/ Fail
  BY <1>2 DEF Requests, DecideApproval, RequestExecution, CheckRollback, RequestRollback,
     ChangeSpec, Sync, SyncObject, SyncSnapshot, Restart, Fail, snapshots
<1>. QED
  BY <1>1, <1>2 DEF Next, Reconcile, Resync, ObserveFinding, Edit, snapshots, vars

\* A write replaces what the API server holds by the effect on just that.
LEMMA WriteStores ==
  ASSUME RemediationInv, Write, object' # object \/ touched' # touched
  PROVE  /\ Target \in Objects /\ Target \in Targets(job.action) /\ job.plan \in Plans
         /\ job.action \in DirectActions(job.plan) /\ job.action \in Actions
         /\ CanWrite(job.action, object[Target]) /\ object[Target] \in Values
         /\ object' = [object EXCEPT ![Target] = Effect(job.action, object[Target])]
         /\ touched' = [touched EXCEPT ![job.plan] = @ \cup {Target}]
         /\ edits' = edits /\ cache' = IF Lag THEN cache ELSE object'
<1>1. TypeOK /\ JobPlaced /\ pc = "write" /\ pc \in Looping
  BY DEF RemediationInv, WorkerInv, Write, Looping
<1>2. Target \in Objects /\ Target \in Targets(job.action) /\ object[Target] \in Values
      /\ job.plan \in Plans /\ job.action \in Actions /\ job.action \in DirectActions(job.plan)
  BY <1>1, TargetType DEF JobPlaced, Executing
<1>3. /\ Accepted(job.action, Target) /\ Store(Target, Effect(job.action, cache[Target]))
      /\ touched' = [touched EXCEPT ![job.plan] = @ \cup {Target}]
      /\ edits' = edits
  BY DEF Write, objects, rest
<1>. QED
  BY <1>2, <1>3 DEF Accepted, Store

LEMMA EffectChanges ==
  ASSUME NEW a \in Actions, NEW v \in Values, CanWrite(a, v)
  PROVE  /\ Effect(a, v) \in Values /\ Effect(a, v).exists
         /\ Effect(a, v).changes \subseteq v.changes \cup {a} /\ a \in Effect(a, v).changes
         /\ a \notin Upserts => Effect(a, v).changes = v.changes \cup {a}
<1>1. CASE a \in Upserts
  <2>. DEFINE w == [exists |-> TRUE, managed |-> TRUE, changes |-> {a}, edited |-> FALSE]
  <2>1. Effect(a, v) = w
    BY <1>1 DEF Effect
  <2>2. w \in Values /\ w.changes = {a} /\ w.exists
    BY DEF Values
  <2>. QED
    BY <1>1, <2>1, <2>2
<1>2. CASE a \notin Upserts
  <2>. PICK c \in SUBSET Actions : c = v.changes \cup {a}
    BY DEF Values
  <2>1. Effect(a, v) = [v EXCEPT !.changes = c] /\ v.exists
    BY <1>2 DEF Effect, CanWrite
  <2>2. [v EXCEPT !.changes = c] \in Values /\ [v EXCEPT !.changes = c].changes = c
        /\ [v EXCEPT !.changes = c].exists = v.exists
    BY DEF Values
  <2>. QED
    BY <1>2, <2>1, <2>2
<1>. QED
  BY <1>1, <1>2

\* A rollback puts an item of the snapshot back, or nothing.
LEMMA RestoreStores ==
  ASSUME RemediationInv, Restore \/ Remove
  PROVE  /\ touched' = touched /\ edits' = edits /\ pc \in Restoring
         /\ Target \in Objects /\ Target \in Targets(job.action) /\ job.plan \in Plans
         /\ job.action \in DirectActions(job.plan) /\ job.action \in Actions
         /\ snapshot[job.plan][job.action][Target] # None
         /\ \/ UNCHANGED <<object, cache>>
            \/ /\ object' = [object EXCEPT ![Target] = Item]
               /\ cache' = IF Lag THEN cache ELSE object'
            \/ /\ object' = [object EXCEPT ![Target] = NoObject]
               /\ cache' = IF Lag THEN cache ELSE object'
<1>1. TypeOK /\ JobPlaced /\ pc \in Restoring /\ pc \in Looping
  BY DEF RemediationInv, WorkerInv, Restore, Remove, Looping, Restoring
<1>2. Target \in Objects /\ Target \in Targets(job.action)
      /\ job.plan \in Plans /\ job.action \in Actions
  BY <1>1, TargetType
<1>3. Saved(snapshot[job.plan], job.action)
  BY <1>1 DEF RemediationInv, WorkerInv, JobSnapshots
<1>4. job.action \in DirectActions(job.plan) /\ snapshot[job.plan][job.action][Target] # None
  BY <1>2, <1>3 DEF RemediationInv, DataInv, SnapshotsWhole
<1>. QED
  BY <1>1, <1>2, <1>4 DEF Restore, Remove, Store, objects, rest

LEMMA EditStores ==
  ASSUME RemediationInv, NEW o \in Objects, Edit(o)
  PROVE  /\ touched' = touched /\ edits' = edits + 1 /\ object[o] \in Values
         /\ \E v \in Values : /\ object' = [object EXCEPT ![o] = v]
                              /\ v.changes \subseteq object[o].changes
                              /\ v.changes = {} \/ v.exists = object[o].exists
<1>1. TypeOK /\ object[o] \in Values /\ edits' = edits + 1 /\ touched' = touched
  BY DEF RemediationInv, Edit, TypeOK
<1>2. CASE Store(o, [object[o] EXCEPT !.edited = TRUE])
  <2>. DEFINE v == [object[o] EXCEPT !.edited = TRUE]
  <2>1. v \in Values /\ v.changes = object[o].changes /\ v.exists = object[o].exists
    BY <1>1 DEF Values
  <2>2. object' = [object EXCEPT ![o] = v]
    BY <1>2 DEF Store
  <2>. QED
    BY <1>1, <2>1, <2>2
<1>3. CASE Store(o, NoObject)
  BY <1>1, <1>3, NoObjectType DEF Store
<1>4. CASE Store(o, [NoObject EXCEPT !.exists = TRUE, !.edited = TRUE])
  <2>. DEFINE v == [NoObject EXCEPT !.exists = TRUE, !.edited = TRUE]
  <2>1. v \in Values /\ v.changes = {}
    BY DEF NoObject, Values
  <2>2. object' = [object EXCEPT ![o] = v]
    BY <1>4 DEF Store
  <2>. QED
    BY <1>1, <2>1, <2>2
<1>. QED
  BY <1>2, <1>3, <1>4 DEF Edit

LEMMA SaneStays ==
  ASSUME NEW o \in Objects, NEW v, NEW t, NEW u, Sane(o, v, t), \A p \in Plans : t[p] # {} => u[p] # {}
  PROVE  Sane(o, v, u)
  BY DEF Sane

LEMMA TouchedGrows ==
  ASSUME RemediationInv, [Next]_vars
  PROVE  \A p \in Plans : touched[p] # {} => touched'[p] # {}
<1>1. CASE touched' = touched
  BY <1>1
<1>2. CASE touched' # touched
  <2>1. Write
    BY <1>2, ObjectKinds, RestoreStores, EditStores
  <2>. QED
    BY <1>2, <2>1, WriteStores DEF RemediationInv, TypeOK
<1>. QED
  BY <1>1, <1>2

LEMMA ObjectsStaySane ==
  ASSUME RemediationInv, ValuesSane, [Next]_vars
  PROVE  \A o \in Objects : Sane(o, object'[o], touched')
<1>1. /\ TypeOK /\ \A o \in Objects : Sane(o, object[o], touched)
      /\ object \in [Objects -> Values]
  BY DEF RemediationInv, TypeOK, ValuesSane
<1>2. \A o \in Objects : Sane(o, object[o], touched')
  BY <1>1, TouchedGrows, SaneStays
<1>3. CASE UNCHANGED object
  BY <1>2, <1>3
<1>4. CASE Write /\ object' # object
  <2>. DEFINE a == job.action
              w == Effect(a, object[Target])
  <2>1. /\ Target \in Objects /\ Target \in Targets(a) /\ job.plan \in Plans /\ a \in Actions
        /\ a \in DirectActions(job.plan) /\ CanWrite(a, object[Target]) /\ object[Target] \in Values
        /\ object' = [object EXCEPT ![Target] = w]
        /\ touched' = [touched EXCEPT ![job.plan] = @ \cup {Target}]
    BY <1>4, WriteStores
  <2>2. w.exists /\ w.changes \subseteq object[Target].changes \cup {a}
    BY <2>1, EffectChanges
  <2>. HIDE DEF w
  <2>3. Sane(Target, w, touched')
    <3>1. \A b \in w.changes : Target \in Targets(b) /\ b \in Direct
      BY <1>2, <2>1, <2>2 DEF Sane, DirectActions
    <3>2. ASSUME NEW p \in Plans, w.changes \cap DirectActions(p) # {}
          PROVE  touched'[p] # {}
      <4>1. CASE p = job.plan
        BY <1>1, <2>1, <4>1 DEF TypeOK
      <4>2. CASE p # job.plan
        <5>1. a \notin DirectActions(p)
          BY <2>1, <4>2, RemediationAssumption
        <5>2. object[Target].changes \cap DirectActions(p) # {}
          BY <2>2, <3>2, <5>1
        <5>. QED
          BY <1>2, <2>1, <5>2 DEF Sane
      <4>. QED
        BY <4>1, <4>2
    <3>. QED
      BY <2>2, <3>1, <3>2 DEF Sane
  <2>. QED
    BY <1>1, <1>2, <2>1, <2>3
<1>5. CASE Restore \/ Remove
  <2>1. /\ Target \in Objects /\ job.plan \in Plans /\ job.action \in Actions
        /\ snapshot[job.plan][job.action][Target] # None
        /\ \/ object' = object
           \/ object' = [object EXCEPT ![Target] = Item]
           \/ object' = [object EXCEPT ![Target] = NoObject]
    BY <1>5, RestoreStores
  <2>2. Sane(Target, Item, touched')
    BY <2>1, TouchedGrows, SaneStays DEF ValuesSane, Item
  <2>3. Sane(Target, NoObject, touched')
    BY NoObjectType DEF Sane
  <2>. QED
    BY <1>1, <1>2, <2>1, <2>2, <2>3
<1>6. ASSUME NEW e \in Objects, Edit(e)
      PROVE  \A o \in Objects : Sane(o, object'[o], touched')
  <2>1. PICK v \in Values : /\ object' = [object EXCEPT ![e] = v]
                            /\ v.changes \subseteq object[e].changes
                            /\ v.changes = {} \/ v.exists = object[e].exists
    BY <1>6, EditStores
  <2>2. Sane(e, v, touched')
    BY <1>2, <2>1 DEF Sane
  <2>. QED
    BY <1>1, <1>2, <2>1, <2>2
<1>. QED
  BY <1>3, <1>4, <1>5, <1>6, ObjectKinds

\* Only EnsureSnapshot comes to "read", and only ReadItem to "save".
LEMMA ReadingKinds ==
  ASSUME RemediationInv, [Next]_vars, pc' \in {"read", "save"}
  PROVE  UNCHANGED <<pc, job>> \/ EnsureSnapshot \/ ReadItem
<1>1. CASE PassStep
  <2>1. StaysWith /\ pc \in Executing
    BY <1>1 DEF PassStep, StaysWith, Takes, Advances, Concludes
  <2>2. CASE Proceed
    BY <2>1, <2>2 DEF Proceed, Action, DryRun, SaveSnapshot, Write, Verify,
         LoadSnapshot, NextKey, Restore, Remove, Check, WritePlanStatus, UpsertRun, UpdateFindingStatus,
         NextTarget, NextAction, Finish, StartTargets, Executing
  <2>3. CASE Fail \/ Restart
    BY <2>3 DEF Fail, Restart, Finish, Requeue
  <2>4. CASE Requests \/ Sync
    BY <2>4 DEF Requests, DecideApproval, RequestExecution, CheckRollback, RequestRollback,
     ChangeSpec, Sync, SyncObject, SyncSnapshot, worker
  <2>. QED
    BY <2>1, <2>2, <2>3, <2>4
       DEF Next, Reconcile, Resync, ObserveFinding, Edit, worker, vars, Executing
<1>2. CASE WaitStep
  BY <1>2 DEF WaitStep
<1>. QED
  BY <1>1, <1>2, StepKinds DEF UndoStep, ReportStep, YieldStep, BeginStep, RollingBack, Restoring

LEMMA ItemsStaySane ==
  ASSUME RemediationInv, ValuesSane, [Next]_vars, pc' \in {"read", "save"}, NEW o \in Objects,
         job'.items[o] # None
  PROVE  Sane(o, job'.items[o], touched') /\ o \in Targets(job'.action)
<1>1. TypeOK
  BY DEF RemediationInv
<1>2. CASE UNCHANGED <<pc, job>>
  BY <1>2, TouchedGrows, SaneStays DEF ValuesSane
<1>3. CASE EnsureSnapshot
  <2>1. job.items = NoItems /\ job.plan \in Plans /\ pc = "snapshot"
    BY <1>3 DEF EnsureSnapshot, RemediationInv, WorkerInv, JobSnapshots, TypeOK
  <2>2. snapCache[job.plan] \in Snapshots
    BY <1>1, <2>1 DEF TypeOK
  <2>3. pc' = "read" => job' = [job EXCEPT !.base = snapCache[job.plan], !.j = 1]
    BY <1>3 DEF EnsureSnapshot, StartTargets
  <2>4. pc' = "read"
    BY <1>3 DEF EnsureSnapshot, StartTargets
  <2>5. job'.items = job.items
    BY <1>1, <2>2, <2>3, <2>4 DEF TypeOK, Jobs
  <2>. QED
    BY <2>1, <2>5 DEF NoItems
<1>4. CASE ReadItem
  <2>. DEFINE items == [job.items EXCEPT ![Target] = object[Target]]
  <2>1. /\ Target \in Objects /\ object[Target] \in Values /\ Target \in Targets(job.action)
        /\ pc = "read" /\ touched' = touched
    BY <1>1, <1>4, TargetType DEF RemediationInv, WorkerInv, ReadItem, Looping, objects
  <2>2. items \in Items
    BY <1>1, <2>1, JobFields DEF Items
  <2>3. items[o] = IF o = Target THEN object[Target] ELSE job.items[o]
    BY <1>1, <2>1, JobFields DEF Items
  <2>4. \/ job' = [job EXCEPT !.items = items, !.j = @ + 1]
        \/ job' = [job EXCEPT !.items = items]
    BY <1>4 DEF ReadItem
  <2>. HIDE DEF items
  <2>. PICK n \in Nat : n = job.j + 1
    BY <1>1, JobCounts
  <2>5. job'.items = items /\ job'.action = job.action
    BY <1>1, <2>2, <2>4 DEF TypeOK, Jobs
  <2>6. CASE o = Target
    BY <2>1, <2>3, <2>5, <2>6 DEF ValuesSane
  <2>7. CASE o # Target
    BY <2>1, <2>3, <2>5, <2>7 DEF ValuesSane
  <2>. QED
    BY <2>6, <2>7
<1>. QED
  BY <1>2, <1>3, <1>4, ReadingKinds

LEMMA SnapshotsStaySane ==
  ASSUME RemediationInv, ValuesSane, [Next]_vars, NEW p \in Plans, NEW a \in Actions,
         NEW o \in Objects, snapshot'[p][a][o] # None
  PROVE  Sane(o, snapshot'[p][a][o], touched') /\ o \in Targets(a)
<1>1. TypeOK
  BY DEF RemediationInv
<1>2. CASE snapshot'[p][a] = snapshot[p][a]
  BY <1>2, TouchedGrows, SaneStays DEF ValuesSane
<1>3. CASE snapshot'[p][a] # snapshot[p][a]
  <2>1. SaveSnapshot
    BY <1>3, SnapshotKinds
  <2>2. pc = "save" /\ job.plan \in Plans /\ job.action \in Actions /\ job.items \in Items
    BY <1>1, <2>1, JobFields, ListTypes
       DEF SaveSnapshot, RemediationInv, TypeOK, WorkerInv, JobPlaced, Executing
  <2>3. /\ FreshSnapshot
        /\ snapshot' = [snapshot EXCEPT ![job.plan] = [job.base EXCEPT ![job.action] = job.items]]
    BY <1>3, <2>1 DEF SaveSnapshot, snapshots
  <2>4. snapshot[job.plan] \in Snapshots /\ job.base = snapshot[job.plan]
    BY <1>1, <2>2, <2>3 DEF TypeOK, FreshSnapshot
  <2>5. p = job.plan /\ a = job.action /\ snapshot'[p][a] = job.items
    BY <1>1, <1>3, <2>2, <2>3, <2>4 DEF TypeOK, Snapshots
  <2>6. Sane(o, job.items[o], touched) /\ o \in Targets(job.action)
    BY <2>2, <2>5 DEF ValuesSane
  <2>. QED
    BY <2>5, <2>6, TouchedGrows, SaneStays
<1>. QED
  BY <1>2, <1>3

LEMMA PassPlacedStays ==
  ASSUME RemediationInv, PassPlaced, [Next]_vars
  PROVE  PassPlaced'
<1>1. TypeOK
  BY DEF RemediationInv
<1>2. ASSUME NEW p \in Plans, touched'[p] # {} PROVE DirectActions(p) # {}
  <2>1. CASE touched' = touched
    BY <1>2, <2>1 DEF PassPlaced
  <2>2. CASE touched' # touched
    <3>1. Write
      BY <2>2, ObjectKinds, RestoreStores, EditStores
    <3>. QED
      BY <1>1, <1>2, <2>2, <3>1, WriteStores DEF TypeOK, PassPlaced
  <2>. QED
    BY <2>1, <2>2
<1>3. mutation' \in Modes
  BY StepKinds DEF PassPlaced, PassStep, UndoStep, ReportStep, YieldStep, WaitStep, BeginStep
<1>. DEFINE Placed == /\ pc \in Executing => /\ job.i \in 1 .. Len(ActionsOf[job.plan])
                                             /\ job.action = ActionsOf[job.plan][job.i]
                      /\ pc \in Passing /\ "applied" \in job.tally => mutation
<1>4. Placed'
  <2>1. Placed
    BY DEF PassPlaced
  <2>2. CASE PassStep
    <3>1. CASE StaysWith \/ Takes
      BY <2>1, <2>2, <3>1 DEF PassStep, StaysWith, Takes, Passing
    <3>2. CASE Advances
      BY <2>1, <2>2, <3>2 DEF PassStep, Advances, Passing, Executing
    <3>3. CASE Concludes
      BY <3>3 DEF Concludes, Passing, Executing
    <3>. QED
      BY <2>2, <3>1, <3>2, <3>3 DEF PassStep
  <2>3. CASE pc' \notin Passing
    BY <2>3 DEF Passing
  <2>4. CASE WaitStep
    BY <2>1, <2>4 DEF WaitStep
  <2>5. ASSUME NEW p \in Plans, BeginStep(p) PROVE Placed'
    BY <2>5 DEF BeginStep, Passing, Executing
  <2>. QED
    BY <2>2, <2>3, <2>4, <2>5, StepKinds
       DEF UndoStep, ReportStep, YieldStep, RollingBack, Restoring, Passing, Executing
<1>. QED
  BY <1>2, <1>3, <1>4 DEF PassPlaced

LEMMA HistoryInductive ==
  ASSUME RemediationInv, HistoryInv, [Next]_vars
  PROVE  HistoryInv'
<1>1. ValuesSane'
  BY ObjectsStaySane, ItemsStaySane, SnapshotsStaySane DEF HistoryInv, ValuesSane
<1>. QED
  BY <1>1, RollbackKeptStays, PassPlacedStays DEF HistoryInv

LEMMA HistoryInitial ==
  ASSUME Init
  PROVE  HistoryInv
<1>1. /\ pc = "idle" /\ object = Initial /\ mutation \in Modes
      /\ \A p \in Plans : touched[p] = {} /\ status[p].phase = "none"
      /\ \A p \in Plans, a \in Actions : snapshot[p][a] = NoItems
  BY DEF Init, NoSnapshot
<1>2. \A p \in Plans, a \in Actions, o \in Objects : snapshot[p][a][o] = None
  BY <1>1 DEF NoItems
<1>3. \A o \in Objects : object[o].changes = {}
  BY <1>1, RemediationAssumption
<1>. QED
  BY <1>1, <1>2, <1>3 DEF HistoryInv, ValuesSane, Sane, RollbackKept, PassPlaced, Passing,
     Executing, RollingBack, Restoring, Reporting

LEMMA HistoryInvariant == Spec => [](RemediationInv /\ HistoryInv)
<1>1. Spec => []RemediationInv
  BY RemediationInvariant
<1>2. Init => HistoryInv
  BY HistoryInitial
<1>3. RemediationInv /\ HistoryInv /\ [Next]_vars => HistoryInv'
  BY HistoryInductive
<1>. QED
  BY <1>1, <1>2, <1>3, PTL DEF Spec

-----------------------------------------------------------------------------
(* A plan that changed something can be rolled back *)

LEMMA TouchedInPass ==
  ASSUME RemediationInv, [Next]_vars, NEW p \in Plans, touched'[p] # touched[p]
  PROVE  Write /\ p = job.plan
<1>1. Write
  BY ObjectKinds, RestoreStores, EditStores
<1>. QED
  BY <1>1, WriteStores DEF RemediationInv, TypeOK

\* A write is followed by another step of the execution, or by a failure.
LEMMA WriteGoesOn ==
  ASSUME RemediationInv, Write
  PROVE  pc' \in Executing \/ (pc' = "status" /\ RunState(job'.phase) \in Eligible)
<1>1. PassStep /\ pc = "write"
  BY WritePasses DEF Write
<1>. QED
  BY <1>1 DEF PassStep, StaysWith, Takes, Advances, Concludes

LEMMA EligibleInductive ==
  ASSUME RemediationInv, HistoryInv, MutationStaysOn, EligiblePending, [Next]_vars
  PROVE  EligiblePending'
<1>1. TypeOK /\ mutation /\ (pc # "idle" => job.plan \in Plans)
  BY DEF RemediationInv, TypeOK, HistoryInv, PassPlaced, MutationStaysOn
<1>2. CASE PassStep
  <2>1. job.plan \in Plans /\ pc # "idle" /\ job.i \in Nat /\ Len(ActionsOf[job.plan]) \in Nat
    BY <1>1, <1>2, JobFields, ListTypes DEF PassStep, Passing, Executing
  <2>2. pc' \in Passing => (DoneDirect(job.i)' => "applied" \in job'.tally)
    <3>1. DoneDirect(job.i) => "applied" \in job.tally
      BY <1>2 DEF EligiblePending, PassStep
    <3>2. CASE StaysWith \/ Takes
      BY <1>2, <3>1, <3>2 DEF PassStep, StaysWith, Takes, DoneDirect
    <3>3. CASE Advances /\ pc = "verify"
      BY <3>3 DEF Advances
    <3>4. CASE Advances /\ pc = "action"
      <4>1. /\ job'.i = job.i + 1 /\ ActionsOf[job.plan][job.i] \notin Direct
            /\ job'.tally = job.tally \cup {"proposal"} /\ job'.plan = job.plan
        BY <1>2, <3>4 DEF Advances, PassStep
      <4>2. DoneDirect(job.i)' => DoneDirect(job.i)
        <5>. SUFFICES ASSUME NEW k \in 1 .. Len(ActionsOf[job.plan]), k < job.i + 1,
                             ActionsOf[job.plan][k] \in Direct
                      PROVE  k < job.i
          BY <4>1 DEF DoneDirect
        <5>1. k # job.i
          BY <4>1
        <5>. QED
          BY <2>1, <5>1
      <4>. QED
        BY <3>1, <4>1, <4>2
    <3>5. CASE Concludes
      BY <3>5 DEF Concludes, Passing, Executing
    <3>. QED
      BY <1>1, <1>2, <3>2, <3>3, <3>4, <3>5 DEF PassStep, Advances
  <2>3. ASSUME pc' \in Reporting, touched'[job.plan] # {}
        PROVE  RunState(job'.phase) \in Eligible
    <3>1. Concludes /\ pc' = "status"
      BY <1>2, <2>3 DEF PassStep, StaysWith, Takes, Advances, Concludes, Reporting, Passing, Executing
    <3>2. CASE pc = "action" /\ job.i > Len(ActionsOf[job.plan]) /\ job'.phase = Outcome(job.tally)
      <4>1. ~Write
        BY <3>2 DEF Write
      <4>2. touched[job.plan] # {}
        BY <2>1, <2>3, <4>1, TouchedInPass
      <4>3. DirectActions(job.plan) # {}
        BY <2>1, <4>2 DEF HistoryInv, PassPlaced
      <4>4. PICK k \in 1 .. Len(ActionsOf[job.plan]) : ActionsOf[job.plan][k] \in Direct
        <5>1. DOMAIN ActionsOf[job.plan] = 1 .. Len(ActionsOf[job.plan])
          BY <2>1, ListTypes
        <5>. QED
          BY <4>3, <5>1 DEF DirectActions
      <4>5. k < job.i
        BY <2>1, <3>2, <4>4
      <4>6. "applied" \in job.tally
        BY <3>2, <4>4, <4>5 DEF EligiblePending, DoneDirect, Passing
      <4>7. job'.phase = "Applied"
        BY <3>2, <4>6, OutcomePhases
      <4>. QED
        BY <4>7 DEF RunState, Eligible
    <3>. QED
      BY <3>1, <3>2 DEF Concludes
  <2>4. ASSUME NEW p \in Plans, touched'[p] # {}, ~spec'[p].rollback
        PROVE  \/ p \in queued' \/ (pc' # "idle" /\ job'.plan = p) \/ run'[p] \in Eligible
    <3>1. pc' # "idle"
      BY <1>2 DEF PassStep, StaysWith, Takes, Advances, Concludes, Executing
    <3>2. CASE p = job.plan
      BY <1>2, <3>1, <3>2 DEF PassStep
    <3>3. CASE p # job.plan
      <4>1. touched[p] # {}
        BY <2>4, <3>3, TouchedInPass
      <4>. QED
        BY <1>2, <2>4, <3>3, <4>1 DEF PassStep, EligiblePending
    <3>. QED
      BY <3>2, <3>3
  <2>5. job'.plan = job.plan
    BY <1>2 DEF PassStep
  <2>. QED
    BY <2>2, <2>3, <2>4, <2>5 DEF EligiblePending
<1>3. CASE ~PassStep
  <2>1. \A p \in Plans : touched'[p] = touched[p]
    BY <1>3, TouchedInPass, WritePasses
  <2>2. CASE UndoStep
    <3>1. job.plan \in Plans /\ spec[job.plan].rollback /\ pc # "idle"
      BY <1>1, <2>2 DEF HistoryInv, RollbackKept, UndoStep, RollingBack, Restoring
    <3>2. pc' \notin Passing /\ pc' # "idle"
      BY <2>2 DEF UndoStep, RollingBack, Restoring, Passing, Executing
    <3>. QED
      BY <2>1, <2>2, <3>1, <3>2 DEF UndoStep, EligiblePending
  <2>3. CASE ReportStep
    <3>1. pc' \notin Passing /\ pc' # "idle" /\ pc \in Reporting /\ pc # "idle"
      BY <2>3 DEF ReportStep, Passing, Executing, Reporting
    <3>. QED
      BY <2>1, <2>3, <3>1 DEF ReportStep, EligiblePending
  <2>4. CASE YieldStep
    <3>1. pc' \notin Passing /\ pc' \notin Reporting
      BY <2>4 DEF YieldStep, Passing, Executing, Reporting
    <3>2. ASSUME NEW p \in Plans, touched[p] # {}, ~spec[p].rollback
          PROVE  p \in queued' \/ run[p] \in Eligible
      <4>1. CASE pc = "finding" /\ job.plan = p
        <5>1. RunState(job.phase) \in Eligible
          BY <3>2, <4>1 DEF EligiblePending, Reporting
        <5>2. run[p] = RunState(job.phase)
          BY <4>1 DEF RemediationInv, ReportsPending
        <5>. QED
          BY <5>1, <5>2
      <4>2. CASE ~(pc = "finding" /\ job.plan = p)
        BY <2>4, <3>2, <4>2 DEF YieldStep, EligiblePending
      <4>. QED
        BY <4>1, <4>2
    <3>. QED
      BY <2>1, <2>4, <3>1, <3>2 DEF YieldStep, EligiblePending
  <2>5. CASE WaitStep
    <3>1. job' = job /\ pc' = pc /\ run' = run /\ queued \subseteq queued'
          /\ \A p \in Plans : spec[p].rollback => spec'[p].rollback
      BY <2>5 DEF WaitStep
    <3>2. DoneDirect(job.i)' = DoneDirect(job.i)
      BY <3>1 DEF DoneDirect
    <3>3. pc \in Reporting => job.plan \in Plans
      BY <1>1 DEF Reporting
    <3>. QED
      BY <2>1, <3>1, <3>2, <3>3 DEF EligiblePending
  <2>6. ASSUME NEW p \in Plans, BeginStep(p) PROVE EligiblePending'
    <3>1. /\ pc = "idle" /\ run' = run /\ spec' = spec /\ queued' = queued \ {p}
      BY <2>6 DEF BeginStep
    <3>2. \A q \in Plans : touched'[q] # {} /\ ~spec'[q].rollback /\ q # p =>
             q \in queued' \/ run'[q] \in Eligible
      BY <2>1, <3>1 DEF EligiblePending
    <3>3. CASE spec[p].rollback /\ pc' = "idle"
      BY <3>1, <3>2, <3>3 DEF EligiblePending, Passing, Executing, Reporting
    <3>4. CASE spec[p].rollback /\ pc' = "load" /\ job'.plan = p
      BY <3>1, <3>2, <3>4 DEF EligiblePending, Passing, Executing, Reporting
    <3>5. CASE (Blocked(p, spec[p]) \/ ~spec[p].execution) /\ pc' = "status" /\ job'.plan = p
      <4>1. touched[p] = {}
        BY <3>5 DEF RemediationInv, DataInv, TouchedAllowed, Blocked
      <4>. QED
        BY <2>1, <3>2, <3>5, <4>1 DEF EligiblePending, Passing, Executing
    <3>6. CASE pc' = "action" /\ job'.plan = p /\ job'.i = 1
      <4>1. ~DoneDirect(job.i)'
        BY <3>6 DEF DoneDirect
      <4>. QED
        BY <3>2, <3>6, <4>1 DEF EligiblePending, Reporting
    <3>. QED
      BY <2>6, <3>3, <3>4, <3>5, <3>6 DEF BeginStep
  <2>. QED
    BY <1>3, <2>2, <2>3, <2>4, <2>5, <2>6, StepKinds
<1>. QED
  BY <1>2, <1>3

\* As long as the operator is started with mutation enabled, a plan whose changes
\* are in the cluster has a run that RequestRollback accepts, whatever lags, fails
\* or is changed by others, once the worker is done with it (workflow.go, the check
\* of the run's state).
THEOREM ChangesCanBeRolledBack ==
  ASSUME MutationStaysOn
  PROVE  Spec => []ChangedIsEligible
<1>1. Init => EligiblePending
  BY DEF Init, EligiblePending, Passing, Executing, Reporting
<1>2. RemediationInv /\ HistoryInv /\ EligiblePending /\ [Next]_vars => EligiblePending'
  BY EligibleInductive
<1>3. RemediationInv /\ HistoryInv /\ EligiblePending => ChangedIsEligible
  <2>. SUFFICES ASSUME RemediationInv, HistoryInv, EligiblePending, NEW p \in Plans, pc = "idle",
                       p \notin queued, ~spec[p].rollback,
                       NEW a \in DirectActions(p), NEW o \in Objects, a \in object[o].changes
                PROVE  run[p] \in Eligible
    BY DEF ChangedIsEligible
  <2>1. touched[p] # {}
    BY DEF HistoryInv, ValuesSane, Sane
  <2>. QED
    BY <2>1 DEF EligiblePending
<1>. QED
  BY <1>1, <1>2, <1>3, HistoryInvariant, PTL DEF Spec

-----------------------------------------------------------------------------
(* Applied means applied *)

LEMMA RollbackGrows ==
  ASSUME RemediationInv, [Next]_vars, NEW p \in Plans, spec[p].rollback
  PROVE  spec'[p].rollback
  BY StepKinds DEF PassStep, UndoStep, ReportStep, YieldStep, WaitStep, BeginStep

LEMMA EditsGrow ==
  ASSUME RemediationInv, [Next]_vars
  PROVE  edits' = edits \/ edits' = edits + 1
  BY StepKinds DEF PassStep, UndoStep, ReportStep, YieldStep, WaitStep, BeginStep

LEMMA UndisturbedBefore ==
  ASSUME RemediationInv, [Next]_vars, NEW p \in Plans, Undisturbed(p)'
  PROVE  Undisturbed(p)
<1>1. edits \in Nat /\ edits' = 0
  BY DEF RemediationInv, TypeOK, Undisturbed
<1>. QED
  BY <1>1, RollbackGrows, EditsGrow DEF Undisturbed

\* Nothing else that the operator does removes a change of an action that shares
\* no object with others.
LEMMA ChangeStays ==
  ASSUME RemediationInv, HistoryInv, OwnTargets, [Next]_vars, NEW p \in Plans,
         NEW a \in DirectActions(p), NEW o \in Objects, a \in object[o].changes, Undisturbed(p)'
  PROVE  a \in object'[o].changes
<1>1. /\ TypeOK /\ object \in [Objects -> Values] /\ edits \in Nat
      /\ edits' = 0 /\ ~spec[p].rollback
  BY UndisturbedBefore DEF RemediationInv, TypeOK, Undisturbed
<1>2. o \in Targets(a)
  BY DEF HistoryInv, ValuesSane, Sane
<1>3. CASE object' = object
  BY <1>3
<1>4. CASE Write /\ object' # object
  <2>. DEFINE b == job.action
              w == Effect(b, object[Target])
  <2>1. /\ Target \in Objects /\ Target \in Targets(b) /\ job.plan \in Plans /\ b \in Actions
        /\ b \in DirectActions(job.plan) /\ CanWrite(b, object[Target]) /\ object[Target] \in Values
        /\ object' = [object EXCEPT ![Target] = w]
    BY <1>4, WriteStores
  <2>2. b \in w.changes /\ (b \notin Upserts => w.changes = object[Target].changes \cup {b})
    BY <2>1, EffectChanges
  <2>. HIDE DEF w
  <2>3. o = Target /\ a # b => b \notin Upserts
    BY <1>2, <2>1 DEF OwnTargets
  <2>. QED
    BY <1>1, <2>1, <2>2, <2>3
<1>5. CASE Restore \/ Remove
  <2>. DEFINE b == job.action
  <2>1. /\ Target \in Objects /\ Target \in Targets(b) /\ job.plan \in Plans
        /\ b \in DirectActions(job.plan) /\ pc \in Restoring
        /\ \A e \in Objects : e # Target => object'[e] = object[e]
    BY <1>1, <1>5, RestoreStores
  <2>2. spec[job.plan].rollback
    BY <2>1 DEF HistoryInv, RollbackKept, RollingBack, Restoring
  <2>3. a # b
    <3>1. job.plan # p
      BY <1>1, <2>2
    <3>. QED
      BY <2>1, <3>1, RemediationAssumption
  <2>4. o # Target
    BY <1>1, <1>2, <2>1, <2>2, <2>3 DEF OwnTargets
  <2>. QED
    BY <2>1, <2>4
<1>6. ASSUME NEW e \in Objects, Edit(e) PROVE FALSE
  BY <1>1, <1>6, EditStores
<1>. QED
  BY <1>3, <1>4, <1>5, <1>6, ObjectKinds

LEMMA InClusterStays ==
  ASSUME RemediationInv, HistoryInv, OwnTargets, [Next]_vars, NEW p \in Plans,
         NEW a \in DirectActions(p), InCluster(a), Undisturbed(p)'
  PROVE  InCluster(a)'
<1>1. \A o \in Targets(a) : o \in Objects
  BY ListTypes DEF Targets
<1>. QED
  BY <1>1, ChangeStays DEF InCluster

\* An entry of the cache is the old entry, or what the API server holds.
LEMMA CacheKinds ==
  ASSUME RemediationInv, [Next]_vars, NEW o \in Objects
  PROVE  cache'[o] = cache[o] \/ cache'[o] = object'[o]
<1>1. cache \in [Objects -> Values]
  BY DEF RemediationInv, TypeOK
<1>2. CASE Proceed
  BY <1>2 DEF Proceed, Action, DryRun, EnsureSnapshot, ReadItem, SaveSnapshot, Write, Verify,
         LoadSnapshot, NextKey, Restore, Remove, Check, WritePlanStatus, UpsertRun,
         UpdateFindingStatus, objects, Store
<1>3. CASE Sync
  BY <1>1, <1>3 DEF Sync, SyncObject, SyncSnapshot, objects
<1>4. CASE Requests \/ Restart \/ Fail
  BY <1>4 DEF Requests, DecideApproval, RequestExecution, CheckRollback, RequestRollback,
     ChangeSpec, Restart, Fail, objects
<1>. QED
  BY <1>2, <1>3, <1>4 DEF Next, Reconcile, Resync, ObserveFinding, Edit, Store, objects, vars

\* Only a last write and a read back come to "verify".
LEMMA VerifyingKinds ==
  ASSUME RemediationInv, [Next]_vars, pc' = "verify"
  PROVE  \/ UNCHANGED <<pc, job>>
         \/ job'.j = 1
         \/ /\ pc = "verify" /\ job'.j = job.j + 1 /\ job'.action = job.action
            /\ job'.plan = job.plan /\ Verified(job.action, Target)
<1>1. TypeOK
  BY DEF RemediationInv
<1>2. CASE Write
  <2>1. StartTargets("verify")
    BY <1>2 DEF Write, NextTarget, Finish
  <2>. QED
    BY <1>1, <2>1, StartTargetsMoves
<1>3. CASE Verify
  <2>1. pc = "verify" /\ Verified(job.action, Target) /\ job' = [job EXCEPT !.j = @ + 1]
    BY <1>3 DEF Verify, NextTarget, NextAction, Finish
  <2>. QED
    BY <1>1, <2>1, NextIndexMoves
<1>4. CASE Proceed /\ ~Write /\ ~Verify
  BY <1>4 DEF Proceed, Action, DryRun, EnsureSnapshot, ReadItem, SaveSnapshot,
         LoadSnapshot, NextKey, Restore, Remove, Check, WritePlanStatus, UpsertRun, UpdateFindingStatus,
         NextTarget, NextAction, Finish, StartTargets, NextItem, Goto, Requeue
<1>5. CASE Fail \/ Restart
  BY <1>5 DEF Fail, Restart, Finish, Requeue
<1>6. CASE Requests \/ Sync
  BY <1>6 DEF Requests, DecideApproval, RequestExecution, CheckRollback, RequestRollback,
     ChangeSpec, Sync, SyncObject, SyncSnapshot, worker
<1>. QED
  BY <1>2, <1>3, <1>4, <1>5, <1>6
     DEF Next, Reconcile, Resync, ObserveFinding, Edit, worker, vars

LEMMA CacheStaysBehind ==
  ASSUME RemediationInv, HistoryInv, OwnTargets, AppliedSoFar, [Next]_vars, NEW p \in Plans,
         Undisturbed(p)', NEW a \in DirectActions(p), NEW o \in Objects, a \in cache'[o].changes
  PROVE  a \in object'[o].changes
<1>1. CASE cache'[o] = object'[o]
  BY <1>1
<1>2. CASE cache'[o] = cache[o]
  <2>1. a \in object[o].changes
    BY <1>2, UndisturbedBefore DEF AppliedSoFar
  <2>. QED
    BY <2>1, ChangeStays
<1>. QED
  BY <1>1, <1>2, CacheKinds

LEMMA VerifiedStays ==
  ASSUME RemediationInv, HistoryInv, OwnTargets, AppliedSoFar, [Next]_vars, pc' = "verify",
         NEW p \in Plans, NEW a \in DirectActions(p), p = job'.plan, a = job'.action,
         Undisturbed(p)', NEW k \in 1 .. Len(TargetsOf[a]), k < job'.j
  PROVE  a \in object'[TargetsOf[a][k]].changes
<1>1. TypeOK
  BY DEF RemediationInv
<1>2. a \in Actions
  BY ListTypes
<1>3. Undisturbed(p)
  BY UndisturbedBefore
<1>4. TargetsOf[a][k] \in Objects
  BY <1>2, ListTypes
<1>5. a \in object[TargetsOf[a][k]].changes
  <2>1. CASE UNCHANGED <<pc, job>>
    BY <1>2, <1>3, <2>1 DEF AppliedSoFar
  <2>2. CASE job'.j = 1
    BY <2>2
  <2>3. CASE /\ pc = "verify" /\ job'.j = job.j + 1 /\ job'.action = job.action
             /\ job'.plan = job.plan /\ Verified(job.action, Target)
    <3>1. job.j \in Nat
      BY <1>1, JobFields
    <3>2. CASE k < job.j
      BY <1>2, <1>3, <2>3, <3>2 DEF AppliedSoFar
    <3>3. CASE k = job.j
      <4>1. a \in cache[TargetsOf[a][k]].changes
        BY <1>2, <2>3, <3>3 DEF Verified, Target
      <4>. QED
        BY <1>3, <1>4, <4>1 DEF AppliedSoFar
    <3>. QED
      BY <2>3, <3>1, <3>2, <3>3
  <2>. QED
    BY <2>1, <2>2, <2>3, VerifyingKinds
<1>. QED
  BY <1>2, <1>3, <1>4, <1>5, ChangeStays

LEMMA DirectEntry ==
  ASSUME NEW p \in Plans, NEW k \in 1 .. Len(ActionsOf[p]), ActionsOf[p][k] \in Direct
  PROVE  ActionsOf[p][k] \in DirectActions(p)
<1>1. DOMAIN ActionsOf[p] = 1 .. Len(ActionsOf[p])
  BY ListTypes
<1>. QED
  BY <1>1 DEF DirectActions

LEMMA GoneThroughStays ==
  ASSUME RemediationInv, HistoryInv, OwnTargets, [Next]_vars, NEW p \in Plans, NEW n \in Nat,
         GoneThrough(p, n), Undisturbed(p)'
  PROVE  GoneThrough(p, n)'
<1>. SUFFICES ASSUME NEW k \in 1 .. Len(ActionsOf[p]), k < n, ActionsOf[p][k] \in Direct
              PROVE  InCluster(ActionsOf[p][k])'
  BY DEF GoneThrough
<1>1. InCluster(ActionsOf[p][k]) /\ ActionsOf[p][k] \in DirectActions(p)
  BY DirectEntry DEF GoneThrough
<1>. QED
  BY <1>1, InClusterStays

LEMMA PassGoesThrough ==
  ASSUME RemediationInv, HistoryInv, OwnTargets, AppliedSoFar, [Next]_vars, PassStep,
         mutation, NEW p \in Plans, p = job.plan, Undisturbed(p)'
  PROVE  /\ pc' \in Passing => \E n \in Nat : n = job'.i /\ GoneThrough(p, n)'
         /\ pc' = "status" /\ job'.phase = "Applied" =>
               \A a \in DirectActions(p) : InCluster(a)'
<1>1. /\ TypeOK /\ job.i \in Nat /\ pc \in Passing /\ Len(ActionsOf[p]) \in Nat
      /\ Undisturbed(p)
  BY UndisturbedBefore, JobFields, ListTypes DEF RemediationInv, PassStep
<1>2. PICK i \in Nat : i = job.i
  BY <1>1
<1>3. GoneThrough(p, i) /\ GoneThrough(p, i)'
  <2>1. GoneThrough(p, i)
    BY <1>1, <1>2 DEF AppliedSoFar
  <2>. QED
    BY <2>1, GoneThroughStays
<1>4. CASE StaysWith \/ Takes
  <2>1. job'.i = i /\ pc' # "status"
    BY <1>2, <1>4 DEF StaysWith, Takes, Executing
  <2>. QED
    BY <1>3, <2>1
<1>5. CASE Advances
  <2>1. job'.i = i + 1 /\ pc' # "status" /\ i + 1 \in Nat
    BY <1>2, <1>5 DEF Advances
  <2>2. ASSUME NEW k \in 1 .. Len(ActionsOf[p]), k < i + 1, ActionsOf[p][k] \in Direct
        PROVE  InCluster(ActionsOf[p][k])'
    <3>1. CASE k < i
      BY <1>3, <2>2, <3>1 DEF GoneThrough
    <3>2. CASE k = i
      <4>. DEFINE a == ActionsOf[p][k]
      <4>1. /\ pc = "verify" /\ job.j = Len(TargetsOf[job.action])
            /\ Verified(job.action, Target)
        BY <1>2, <1>5, <2>2, <3>2 DEF Advances
      <4>2. a = job.action /\ a \in DirectActions(p) /\ a \in Actions
        BY <1>2, <2>2, <3>2, <4>1, DirectEntry, ListTypes DEF HistoryInv, PassPlaced, Executing
      <4>. HIDE DEF a
      <4>3. ASSUME NEW m \in 1 .. Len(TargetsOf[a]) PROVE a \in object[TargetsOf[a][m]].changes
        <5>1. Len(TargetsOf[a]) \in Nat /\ TargetsOf[a][m] \in Objects
          BY <4>2, ListTypes
        <5>2. CASE m < job.j
          BY <1>1, <4>1, <4>2, <5>2 DEF AppliedSoFar
        <5>3. CASE m = job.j
          <6>1. a \in cache[TargetsOf[a][m]].changes
            BY <4>1, <4>2, <5>3 DEF Verified, Target
          <6>. QED
            BY <1>1, <4>2, <5>1, <6>1 DEF AppliedSoFar
        <5>. QED
          BY <4>1, <4>2, <5>1, <5>2, <5>3
      <4>4. InCluster(a)
        BY <4>2, <4>3, ListTypes DEF InCluster, Targets
      <4>5. InCluster(a)'
        BY <4>2, <4>4, InClusterStays
      <4>. QED
        BY <4>5 DEF a
    <3>. QED
      BY <2>2, <3>1, <3>2
  <2>3. GoneThrough(p, i + 1)'
    BY <2>2 DEF GoneThrough
  <2>. QED
    BY <2>1, <2>3
<1>6. CASE Concludes /\ job'.phase = "Applied"
  <2>1. pc = "action" /\ i > Len(ActionsOf[p])
    <3>1. RunState(job'.phase) \in Eligible /\ job'.phase # "Applied" => FALSE
      BY <1>6
    <3>. QED
      BY <1>2, <1>6, <3>1 DEF Concludes
  <2>2. ASSUME NEW a \in DirectActions(p) PROVE InCluster(a)'
    <3>1. PICK k \in 1 .. Len(ActionsOf[p]) : a = ActionsOf[p][k] /\ a \in Direct
      <4>1. DOMAIN ActionsOf[p] = 1 .. Len(ActionsOf[p])
        BY ListTypes
      <4>. QED
        BY <4>1 DEF DirectActions
    <3>2. k < i
      BY <1>1, <2>1
    <3>3. InCluster(ActionsOf[p][k])'
      BY <1>3, <3>1, <3>2 DEF GoneThrough
    <3>. QED
      BY <3>1, <3>3
  <2>3. pc' \notin Passing
    BY <1>6 DEF Concludes, Passing, Executing
  <2>. QED
    BY <2>2, <2>3
<1>7. CASE Concludes /\ job'.phase # "Applied"
  BY <1>7 DEF Concludes, Passing, Executing
<1>. QED
  BY <1>4, <1>5, <1>6, <1>7 DEF PassStep

LEMMA AppliedInductive ==
  ASSUME RemediationInv, RemediationInv', HistoryInv, OwnTargets, AppliedSoFar, [Next]_vars
  PROVE  AppliedSoFar'
<1>1. TypeOK /\ TypeOK' /\ JobPlaced'
  BY DEF RemediationInv, WorkerInv
<1>2. \A p \in Plans : Undisturbed(p)' => \A a \in DirectActions(p), o \in Objects :
          a \in cache'[o].changes => a \in object'[o].changes
  BY CacheStaysBehind
<1>3. ASSUME pc' = "verify", Undisturbed(job.plan)',
             NEW k \in 1 .. Len(TargetsOf[job'.action]), k < job'.j
      PROVE  job'.action \in object'[TargetsOf[job'.action][k]].changes
  <2>1. PICK p \in Plans, a \in Actions : p = job'.plan /\ a = job'.action /\ a \in DirectActions(p)
    BY <1>1, <1>3, ListTypes DEF TypeOK, JobPlaced, Executing
  <2>2. Undisturbed(p)'
    BY <1>3, <2>1 DEF Undisturbed
  <2>. QED
    BY <1>3, <2>1, <2>2, VerifiedStays
<1>4. ASSUME pc' \in Passing, mutation', Undisturbed(job.plan)'
      PROVE  GoneThrough(job.plan, job.i)'
  <2>1. PICK p \in Plans, n \in Nat : p = job'.plan /\ n = job'.i
    BY <1>1, <1>4 DEF TypeOK, Jobs, Passing, Executing
  <2>2. Undisturbed(p)' /\ Undisturbed(p)
    BY <1>4, <2>1, UndisturbedBefore DEF Undisturbed
  <2>3. CASE PassStep
    <3>1. p = job.plan /\ mutation
      BY <1>4, <2>1, <2>3 DEF PassStep
    <3>2. GoneThrough(p, n)'
      BY <1>4, <2>1, <2>2, <2>3, <3>1, PassGoesThrough
    <3>. QED
      BY <2>1, <3>2 DEF GoneThrough
  <2>4. CASE WaitStep
    <3>1. GoneThrough(p, n)
      BY <1>4, <2>1, <2>2, <2>4 DEF WaitStep, AppliedSoFar
    <3>2. GoneThrough(p, n)'
      BY <2>2, <3>1, GoneThroughStays
    <3>. QED
      BY <2>1, <3>2 DEF GoneThrough
  <2>5. ASSUME NEW q \in Plans, BeginStep(q) PROVE GoneThrough(job.plan, job.i)'
    <3>1. job'.i = 1
      BY <1>4, <2>5 DEF BeginStep, Passing, Executing
    <3>. QED
      BY <3>1 DEF GoneThrough
  <2>. QED
    BY <1>4, <2>3, <2>4, <2>5, StepKinds
       DEF UndoStep, ReportStep, YieldStep, RollingBack, Restoring, Passing, Executing
<1>5. ASSUME pc' \in Reporting, job'.phase = "Applied", Undisturbed(job.plan)'
      PROVE  \A a \in DirectActions(job'.plan) : InCluster(a)'
  <2>1. PICK p \in Plans : p = job'.plan
    BY <1>1, <1>5 DEF TypeOK, Reporting
  <2>2. Undisturbed(p)' /\ Undisturbed(p)
    BY <1>5, <2>1, UndisturbedBefore DEF Undisturbed
  <2>3. CASE PassStep
    <3>1. Concludes /\ p = job.plan
      BY <1>5, <2>1, <2>3 DEF PassStep, StaysWith, Takes, Advances, Reporting, Executing
    <3>2. pc = "action" /\ job'.phase = Outcome(job.tally)
      BY <1>5, <3>1 DEF Concludes
    <3>3. mutation /\ pc' = "status"
      BY <1>5, <3>1, <3>2, OutcomePhases DEF HistoryInv, PassPlaced, Passing, Concludes
    <3>4. \A a \in DirectActions(p) : InCluster(a)'
      BY <1>5, <2>2, <2>3, <3>1, <3>3, PassGoesThrough
    <3>. QED
      BY <2>1, <3>4
  <2>4. CASE WaitStep \/ ReportStep
    <3>1. \A a \in DirectActions(p) : InCluster(a)
      BY <1>5, <2>1, <2>2, <2>4 DEF WaitStep, ReportStep, AppliedSoFar, Reporting
    <3>2. \A a \in DirectActions(p) : InCluster(a)'
      BY <2>2, <3>1, InClusterStays
    <3>. QED
      BY <2>1, <3>2
  <2>. QED
    BY <1>5, <2>3, <2>4, StepKinds
       DEF UndoStep, YieldStep, BeginStep, RollingBack, Restoring, Reporting
<1>6. ASSUME NEW p \in Plans, status'[p].phase = "Applied", Undisturbed(p)',
             NEW a \in DirectActions(p)
      PROVE  InCluster(a)'
  <2>1. Undisturbed(p)
    BY <1>6, UndisturbedBefore
  <2>2. status[p].phase = "Applied" \/ (pc \in Reporting /\ job.plan = p /\ job.phase = "Applied")
    BY <1>6, StepKinds DEF PassStep, UndoStep, ReportStep, YieldStep, WaitStep, BeginStep, Reporting
  <2>3. InCluster(a)
    BY <2>1, <2>2 DEF AppliedSoFar
  <2>. QED
    BY <1>6, <2>3, InClusterStays
<1>. QED
  BY <1>2, <1>3, <1>4, <1>5, <1>6 DEF AppliedSoFar

\* Applied means applied: unless a rollback is asked for or others interfere, every
\* direct action of a plan that reports Applied is in the cluster, on every object it
\* writes, although the read back is made from a cache that may lag
\* (reconcilePlanActions).  Assumed is that actions which share an object only
\* patch it and belong to one plan.
THEOREM AppliedIsTrue ==
  ASSUME OwnTargets
  PROVE  Spec => []AppliedIsInCluster
<1>1. Init => AppliedSoFar
  <2>1. Init => /\ pc = "idle" /\ cache = object
                /\ \A p \in Plans : status[p].phase = "none"
    BY DEF Init
  <2>. QED
    BY <2>1 DEF AppliedSoFar, Passing, Executing, Reporting
<1>2. RemediationInv /\ RemediationInv' /\ HistoryInv /\ AppliedSoFar /\ [Next]_vars
        => AppliedSoFar'
  BY AppliedInductive
<1>3. AppliedSoFar => AppliedIsInCluster
  BY DEF AppliedSoFar, AppliedIsInCluster, Undisturbed, InCluster
<1>. QED
  BY <1>1, <1>2, <1>3, HistoryInvariant, PTL DEF Spec

-----------------------------------------------------------------------------
(* Rolled back means rolled back *)

\* Snapshots stay as they are, and so does what the history recorded.
LEMMA HeldStays ==
  ASSUME RemediationInv, [Next]_vars, NEW a, NEW o \in Objects, Held(a, o)
  PROVE  Held(a, o)'
<1>1. PICK q \in Plans, b \in Actions :
          snapshot[q][b][o] # None /\ a \in snapshot[q][b][o].changes
  BY DEF Held
<1>2. snapshot'[q][b] = snapshot[q][b]
  <2>1. CASE UNCHANGED snapshot
    BY <2>1
  <2>2. CASE SaveSnapshot /\ snapshot' # snapshot
    <3>1. /\ snapshot' = [snapshot EXCEPT ![job.plan] = [job.base EXCEPT ![job.action] = job.items]]
          /\ job.base = snapshot[job.plan] /\ pc = "save"
      BY <2>2 DEF SaveSnapshot, FreshSnapshot, snapshots
    <3>2. ~Saved(job.base, job.action) /\ job.plan \in Plans /\ TypeOK
      BY <3>1 DEF RemediationInv, WorkerInv, JobSnapshots, TypeOK
    <3>3. Saved(snapshot[q], b)
      BY <1>1 DEF Saved, NoItems
    <3>4. q # job.plan \/ b # job.action
      BY <3>1, <3>2, <3>3
    <3>. QED
      BY <3>1, <3>2, <3>4 DEF TypeOK, Snapshots
  <2>. QED
    BY <2>1, <2>2, SnapshotKinds
<1>. QED
  BY <1>1, <1>2 DEF Held

LEMMA MissedGrows ==
  ASSUME [Next]_vars
  PROVE  missed \subseteq missed'
<1>1. CASE Proceed
  BY <1>1 DEF Proceed, Action, DryRun, EnsureSnapshot, ReadItem, SaveSnapshot, Write, Verify,
         LoadSnapshot, Loaded, NextKey, Restore, Remove, Check, WritePlanStatus, UpsertRun,
         UpdateFindingStatus, rest
<1>2. CASE Requests \/ Sync \/ Restart \/ Fail
  BY <1>2 DEF Requests, DecideApproval, RequestExecution, CheckRollback, RequestRollback,
     ChangeSpec, Sync, SyncObject, SyncSnapshot, Restart, Fail, rest
<1>. QED
  BY <1>1, <1>2 DEF Next, Reconcile, Resync, ObserveFinding, Edit, rest, vars

\* Without a write, a change in the cluster was there before, or came back from a
\* snapshot.
LEMMA ChangesShrink ==
  ASSUME RemediationInv, HistoryInv, [Next]_vars, ~Write, NEW o \in Objects,
         NEW a \in object'[o].changes
  PROVE  a \in object[o].changes \/ Held(a, o)
<1>1. object \in [Objects -> Values]
  BY DEF RemediationInv, TypeOK
<1>2. CASE Restore \/ Remove
  <2>1. /\ Target \in Objects /\ job.plan \in Plans /\ job.action \in Actions
        /\ snapshot[job.plan][job.action][Target] # None
        /\ \/ object' = object
           \/ object' = [object EXCEPT ![Target] = Item]
           \/ object' = [object EXCEPT ![Target] = NoObject]
    BY <1>2, RestoreStores
  <2>2. a \in Item.changes /\ o = Target => Held(a, o)
    BY <2>1 DEF Held, Item
  <2>. QED
    BY <1>1, <2>1, <2>2, NoObjectType
<1>3. ASSUME NEW e \in Objects, Edit(e) PROVE a \in object[o].changes
  BY <1>1, <1>3, EditStores
<1>. QED
  BY <1>2, <1>3, ObjectKinds

LEMMA CleanStays ==
  ASSUME RemediationInv, HistoryInv, [Next]_vars, NEW p \in Plans, Clean(p),
         ~(Write /\ job.plan = p)
  PROVE  Clean(p)'
<1>. SUFFICES ASSUME NEW a \in DirectActions(p), NEW o \in Objects, a \in object'[o].changes
              PROVE  Held(a, o)'
  BY DEF Clean
<1>1. object \in [Objects -> Values] /\ (a \in object[o].changes => Held(a, o))
  BY DEF Clean, RemediationInv, TypeOK
<1>2. CASE ~Write \/ object' = object
  BY <1>1, <1>2, ChangesShrink, HeldStays
<1>3. CASE Write /\ object' # object
  <2>. DEFINE w == Effect(job.action, object[Target])
  <2>1. /\ Target \in Objects /\ job.plan \in Plans /\ job.action \in Actions
        /\ job.action \in DirectActions(job.plan) /\ object[Target] \in Values
        /\ CanWrite(job.action, object[Target]) /\ object' = [object EXCEPT ![Target] = w]
    BY <1>3, WriteStores
  <2>2. w.changes \subseteq object[Target].changes \cup {job.action}
    BY <2>1, EffectChanges
  <2>. HIDE DEF w
  <2>3. a # job.action
    BY <1>3, <2>1, RemediationAssumption
  <2>4. a \in object[o].changes
    BY <1>1, <2>1, <2>2, <2>3
  <2>. QED
    BY <1>1, <2>4, HeldStays
<1>. QED
  BY <1>2, <1>3

LEMMA RestoringKinds ==
  ASSUME RemediationInv, [Next]_vars, pc' \in {"key"} \cup Restoring
  PROVE  UNCHANGED <<pc, job>> \/ LoadSnapshot \/ NextKey \/ Restore \/ Remove \/ Check
<1>1. CASE PassStep
  BY <1>1 DEF PassStep, StaysWith, Takes, Advances, Concludes, Executing, Restoring
<1>2. CASE UndoStep /\ Next
  <2>1. pc \in RollingBack /\ pc' # "idle" /\ pc' # "status"
    BY <1>2 DEF UndoStep, Restoring
  <2>2. CASE Proceed
    BY <2>1, <2>2 DEF Proceed, Action, DryRun, EnsureSnapshot, ReadItem, SaveSnapshot, Write, Verify,
         WritePlanStatus, UpsertRun, UpdateFindingStatus, RollingBack, Restoring
  <2>3. CASE Fail \/ Restart
    BY <2>1, <2>3 DEF Fail, Restart, Finish, Requeue
  <2>4. CASE Requests \/ Sync
    BY <2>4 DEF Requests, DecideApproval, RequestExecution, CheckRollback, RequestRollback,
     ChangeSpec, Sync, SyncObject, SyncSnapshot, worker
  <2>. QED
    BY <1>2, <2>1, <2>2, <2>3, <2>4
       DEF Next, Reconcile, Resync, ObserveFinding, Edit, worker, RollingBack, Restoring
<1>3. CASE UNCHANGED vars
  BY <1>3 DEF vars, worker
<1>. QED
  BY <1>1, <1>2, <1>3, StepKinds
     DEF ReportStep, YieldStep, WaitStep, BeginStep, Restoring

LEMMA NextItemMovesOn ==
  ASSUME RemediationInv, pc \in Restoring, NextItem
  PROVE  job' # job /\ job'.plan = job.plan
<1>1. TypeOK /\ job.action \in Actions /\ job.j \in Nat
  BY JobFields DEF RemediationInv, WorkerInv, JobPlaced, Looping
<1>2. CASE job' = [job EXCEPT !.j = @ + 1]
  <2>1. job'.j = job.j + 1 /\ job'.plan = job.plan
    BY <1>1, <1>2, NextIndexMoves
  <2>. QED
    BY <1>1, <2>1
<1>3. CASE job' = [job EXCEPT !.action = None, !.j = 0]
  <2>1. job'.action = None /\ job'.plan = job.plan
    BY <1>1, <1>3 DEF TypeOK, Jobs
  <2>. QED
    BY <1>1, <2>1, RemediationAssumption
<1>. QED
  BY <1>2, <1>3 DEF NextItem

\* Once a target is clean, the rollback need not come back to it.
LEMMA DueMovesOn ==
  ASSUME RemediationInv, pc \in Restoring, NextItem, NEW a, NEW o, Due(a, o), o # Target
  PROVE  Due(a, o)'
<1>1. TypeOK /\ job.action \in Actions /\ job.j \in 1 .. Len(TargetsOf[job.action])
  BY DEF RemediationInv, WorkerInv, JobPlaced, Looping
<1>2. CASE /\ job.j < Len(TargetsOf[job.action]) /\ pc' = "restore"
           /\ job' = [job EXCEPT !.j = @ + 1]
  <2>1. job'.keys = job.keys /\ job'.action = job.action /\ job'.j = job.j + 1
    BY <1>1, <1>2, NextIndexMoves
  <2>2. CASE a \in job.keys
    BY <2>1, <2>2 DEF Due
  <2>3. CASE a \notin job.keys
    <3>1. PICK k \in 1 .. Len(TargetsOf[a]) : job.j <= k /\ TargetsOf[a][k] = o /\ a = job.action
      BY <2>3 DEF Due
    <3>2. k # job.j
      BY <3>1 DEF Target
    <3>3. job.j + 1 <= k
      BY <1>1, <3>1, <3>2
    <3>. QED
      BY <1>2, <2>1, <3>1, <3>3 DEF Due, Restoring
  <2>. QED
    BY <2>2, <2>3
<1>3. CASE /\ ~(job.j < Len(TargetsOf[job.action])) /\ pc' = "key"
           /\ job' = [job EXCEPT !.action = None, !.j = 0]
  <2>1. job'.keys = job.keys
    BY <1>1, <1>3 DEF TypeOK, Jobs
  <2>2. a \in job.keys
    <3>. SUFFICES ASSUME NEW k \in 1 .. Len(TargetsOf[a]), job.j <= k, TargetsOf[a][k] = o,
                         a = job.action
                  PROVE  FALSE
      BY DEF Due
    <3>1. k = job.j
      BY <1>1, <1>3, ListTypes
    <3>. QED
      BY <3>1 DEF Target
  <2>. QED
    BY <2>1, <2>2 DEF Due
<1>. QED
  BY <1>2, <1>3 DEF NextItem

LEMMA DueStays ==
  ASSUME RemediationInv, HistoryInv, Cleaning, [Next]_vars, pc' \in {"key"} \cup Restoring,
         NEW p \in Plans, p = job'.plan, p \notin missed', NEW a \in DirectActions(p),
         NEW o \in Objects, a \in object'[o].changes, ~Held(a, o)
  PROVE  Due(a, o)'
<1>. p \notin missed
  BY MissedGrows
<1>1. TypeOK /\ a \in Actions /\ a \in Direct /\ ~Write
  <2>1. ~Write
    <3>1. Write => pc' \in Executing \cup {"status"}
      BY WriteGoesOn
    <3>. QED
      BY <3>1 DEF Executing, Restoring
  <2>. QED
    BY <2>1, ListTypes DEF RemediationInv, DirectActions
<1>2. a \in object[o].changes
  BY <1>1, ChangesShrink
<1>3. o \in Targets(a) /\ Sane(o, object[o], touched)
  BY <1>2 DEF HistoryInv, ValuesSane, Sane
<1>4. CASE UNCHANGED <<pc, job>>
  <2>1. Due(a, o)
    BY <1>2, <1>4 DEF Cleaning
  <2>. QED
    BY <1>4, <2>1 DEF Due
<1>5. CASE LoadSnapshot
  <2>. DEFINE keys == {b \in Actions : Saved(snapCache[job.plan], b)}
  <2>1. keys # {} /\ pc' = "key" /\ job' = [job EXCEPT !.keys = keys]
    BY <1>5 DEF LoadSnapshot, Finish, Restoring
  <2>2. job'.keys = keys /\ job'.plan = job.plan
    <3>1. keys \in SUBSET Actions
      OBVIOUS
    <3>. HIDE DEF keys
    <3>. QED
      BY <1>1, <2>1, <3>1 DEF TypeOK, Jobs
  <2>3. Saved(snapshot[p], a)
    <3>1. PICK q \in Plans : Saved(snapshot[q], a)
      BY <1>2 DEF RemediationInv, DataInv, ChangesKnown, Known
    <3>2. a \in DirectActions(q)
      BY <1>1, <3>1 DEF RemediationInv, DataInv, SnapshotsWhole
    <3>. QED
      BY <3>1, <3>2, RemediationAssumption
  <2>4. a \in keys
    <3>1. snapCache[p] = snapshot[p]
      BY <1>5, <2>2 DEF LoadSnapshot, Loaded
    <3>. QED
      BY <1>1, <2>2, <2>3, <3>1
  <2>. QED
    BY <2>2, <2>4 DEF Due
<1>6. CASE NextKey
  <2>1. PICK b \in job.keys : /\ pc' = "restore"
                              /\ job' = [job EXCEPT !.keys = @ \ {b}, !.action = b, !.j = 1]
    BY <1>6 DEF NextKey, Finish, Restoring
  <2>. PICK keys \in SUBSET Actions : keys = job.keys \ {b}
    BY <1>1, JobFields
  <2>2. job \in Jobs /\ job' = [job EXCEPT !.keys = keys, !.action = b, !.j = 1]
    BY <1>1, <2>1 DEF TypeOK
  <2>3. job'.keys = keys /\ job'.action = b /\ job'.j = 1 /\ job'.plan = job.plan
    BY <2>2 DEF Jobs
  <2>4. a \in job.keys
    BY <1>2, <1>6, <2>3 DEF Cleaning, Due, NextKey, Restoring
  <2>5. CASE a = b
    <3>1. PICK k \in 1 .. Len(TargetsOf[a]) : TargetsOf[a][k] = o
      BY <1>1, <1>3, ListTypes DEF Targets
    <3>2. 1 <= k
      BY <1>1, ListTypes
    <3>. QED
      BY <2>1, <2>3, <2>5, <3>1, <3>2 DEF Due, Restoring
  <2>6. CASE a # b
    BY <2>3, <2>4, <2>6 DEF Due
  <2>. QED
    BY <2>5, <2>6
<1>7. CASE (Restore \/ Remove) /\ (Goto("remove") \/ Goto("check"))
  <2>1. pc' \in Restoring /\ pc \in Restoring /\ job' = job
    BY <1>7 DEF Restore, Remove, Goto, Restoring
  <2>2. Due(a, o)
    BY <1>2, <2>1 DEF Cleaning
  <2>. QED
    BY <2>1, <2>2 DEF Due
<1>8. CASE NextItem /\ ((Restore /\ Kept) \/ Check)
  <2>1. pc \in Restoring
    BY <1>8 DEF Restore, Check, Restoring
  <2>2. job' # job /\ job'.plan = job.plan
    BY <1>8, <2>1, NextItemMovesOn
  <2>3. /\ Target \in Objects /\ job.plan \in Plans /\ job.action \in Actions
        /\ snapshot[job.plan][job.action][Target] # None
    <3>1. TypeOK /\ JobPlaced /\ pc \in Looping
      BY <2>1 DEF RemediationInv, WorkerInv, Looping
    <3>2. Target \in Objects /\ Target \in Targets(job.action) /\ job.plan \in Plans
          /\ job.action \in Actions
      BY <3>1, TargetType
    <3>3. Saved(snapshot[job.plan], job.action)
      BY <2>1 DEF RemediationInv, WorkerInv, JobSnapshots
    <3>. QED
      BY <3>2, <3>3 DEF RemediationInv, DataInv, SnapshotsWhole
  <2>4. o # Target
    <3>1. CASE Kept
      <4>1. ~object[Target].exists
        BY <3>1 DEF Kept
      <4>. QED
        BY <1>2, <2>3, <4>1 DEF HistoryInv, ValuesSane, Sane
    <3>2. CASE Check
      <4>1. object[Target].changes = Item.changes
        BY <1>8, <3>2 DEF Check, Alike, Finish, NextItem
      <4>2. o = Target => Held(a, o)
        BY <1>2, <2>3, <4>1 DEF Held, Item
      <4>. QED
        BY <4>2
    <3>. QED
      BY <1>8, <3>1, <3>2
  <2>5. Due(a, o) /\ o # Target
    BY <1>2, <2>1, <2>2, <2>4 DEF Cleaning
  <2>. QED
    BY <1>8, <2>1, <2>5, DueMovesOn
<1>. QED
  BY <1>4, <1>5, <1>6, <1>7, <1>8, RestoringKinds DEF Restore, Remove, Check, Finish, Restoring

LEMMA NotRolledBack ==
  ASSUME RemediationInv, HistoryInv, Cleaning, [Next]_vars, pc' \in Passing
  PROVE  status'[job'.plan].phase # "RolledBack"
<1>1. CASE PassStep
  BY <1>1 DEF PassStep, Cleaning
<1>2. CASE WaitStep
  BY <1>2 DEF WaitStep, Cleaning
<1>3. ASSUME NEW p \in Plans, BeginStep(p)
      PROVE  status'[job'.plan].phase # "RolledBack"
  <2>1. job'.plan = p /\ status' = status /\ ~spec[p].rollback
    BY <1>3 DEF BeginStep, Passing, Executing
  <2>. QED
    BY <2>1 DEF HistoryInv, RollbackKept
<1>. QED
  BY <1>1, <1>2, <1>3, StepKinds
     DEF UndoStep, ReportStep, YieldStep, RollingBack, Restoring, Passing, Executing

LEMMA CleaningInductive ==
  ASSUME RemediationInv, RemediationInv', HistoryInv, Cleaning, [Next]_vars
  PROVE  Cleaning'
<1>1. TypeOK /\ TypeOK'
  BY DEF RemediationInv
<1>2. missed \subseteq missed'
  BY MissedGrows
<1>3. ASSUME pc' \in {"key"} \cup Restoring, job'.plan \notin missed',
             NEW a \in DirectActions(job'.plan), NEW o \in Objects, a \in object'[o].changes
      PROVE  Due(a, o)' \/ Held(a, o)'
  <2>1. PICK p \in Plans : p = job'.plan
    BY <1>1, <1>3 DEF TypeOK, Restoring
  <2>. QED
    BY <1>3, <2>1, DueStays, HeldStays
<1>4. ASSUME pc' \in Reporting, job'.phase = "RolledBack", job'.plan \notin missed'
      PROVE  Clean(job.plan)'
  <2>1. PICK p \in Plans : p = job'.plan
    BY <1>1, <1>4 DEF TypeOK, Reporting
  <2>2. ~PassStep
    BY <1>4, OutcomePhases, EligiblePhases
       DEF PassStep, StaysWith, Takes, Advances, Concludes, Reporting, Passing, Executing
  <2>3. job.plan = p /\ Clean(p)
    <3>1. CASE UndoStep
      <4>1. pc = "key" /\ job.keys = {} /\ job'.plan = job.plan
        BY <1>4, <3>1 DEF UndoStep, RollingBack, Restoring, Reporting
      <4>. QED
        BY <1>2, <1>4, <2>1, <4>1 DEF Cleaning, Due, Clean, Restoring
    <3>2. CASE ReportStep \/ WaitStep
      BY <1>2, <1>4, <2>1, <3>2 DEF ReportStep, WaitStep, Cleaning, Reporting
    <3>. QED
      BY <1>4, <2>2, <3>1, <3>2, StepKinds DEF YieldStep, BeginStep, Reporting
  <2>4. Clean(p)'
    BY <2>2, <2>3, CleanStays, WritePasses
  <2>. QED
    BY <2>1, <2>4 DEF Clean
<1>5. ASSUME NEW p \in Plans, status'[p].phase = "RolledBack", p \notin missed'
      PROVE  Clean(p)'
  <2>1. \/ status[p].phase = "RolledBack"
        \/ pc \in Reporting /\ job.plan = p /\ job.phase = "RolledBack"
    BY <1>5, StepKinds DEF PassStep, UndoStep, ReportStep, YieldStep, WaitStep, BeginStep, Reporting
  <2>2. Clean(p)
    BY <1>2, <1>5, <2>1 DEF Cleaning
  <2>3. ~(Write /\ job.plan = p)
    <3>. SUFFICES ASSUME Write, job.plan = p PROVE FALSE
      OBVIOUS
    <3>1. pc = "write" /\ PassStep
      BY WritePasses DEF Write
    <3>2. status[p].phase = "RolledBack"
      BY <2>1, <3>1 DEF Reporting
    <3>. QED
      BY <3>1, <3>2 DEF Cleaning, Passing, Executing
  <2>. QED
    BY <2>2, <2>3, CleanStays
<1>6. pc' \in Passing => status'[job'.plan].phase # "RolledBack"
  BY NotRolledBack
<1>. QED
  BY <1>3, <1>4, <1>5, <1>6 DEF Cleaning

\* A plan that reports RolledBack has left no change behind, and adds none later,
\* whatever fails, is repeated or is changed by others meanwhile, and however many
\* direct actions it has (reconcileRollback, restoreSnapshotItem).  The exceptions
\* are in the property: a rollback that read the ConfigMap while the cache was
\* behind, and a change that is in the snapshot of another action.
THEOREM RolledBackIsTrue == Spec => []RollbackRemovesChanges
<1>1. Init => Cleaning
  <2>1. Init => /\ pc = "idle"
                /\ \A p \in Plans : status[p].phase = "none"
    BY DEF Init
  <2>. QED
    BY <2>1 DEF Cleaning, Passing, Executing, Reporting, Restoring
<1>2. RemediationInv /\ RemediationInv' /\ HistoryInv /\ Cleaning /\ [Next]_vars => Cleaning'
  BY CleaningInductive
<1>3. Cleaning => RollbackRemovesChanges
  BY DEF Cleaning, Clean, RollbackRemovesChanges
<1>. QED
  BY <1>1, <1>2, <1>3, HistoryInvariant, PTL DEF Spec

=============================================================================
