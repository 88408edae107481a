------------------------- MODULE ChaosManagerProofs -------------------------
(***************************************************************************)
(* Proofs about ChaosManager for every set of runs, workers and principals *)
(* and every value of the windows: type correctness, the refinement of     *)
(* ChaosLifecycle, and the approval of every object that is created.       *)
(***************************************************************************)
EXTENDS ChaosManager, TLAPS

-----------------------------------------------------------------------------
(* Type correctness.                                                       *)

\* The part of TypeOK about the workers.
WorkerTypes ==
    /\ pc \in [Workers -> Labels]
    /\ job \in [Workers -> Jobs]
    /\ copy \in [Workers -> RunRecords]
    /\ \A w \in Workers : pc[w] # "idle" => job[w].run \in Runs

\* The part of TypeOK about the table, the cluster and the histories.
SharedTypes ==
    /\ store \in [Runs -> RunRecords]
    /\ resource \in [Names -> Objects \cup {NoResource}]
    /\ clock \in Nat \ {0}
    /\ enabled \in BOOLEAN
    /\ settled \in BOOLEAN
    /\ injected \subseteq Runs

LEMMA TypeParts == TypeOK <=> WorkerTypes /\ SharedTypes
  BY DEF TypeOK, WorkerTypes, SharedTypes

\* The rows a handler starts from, and the jobs of idle workers, are well typed.
LEMMA BlankTypes == NoRun \in RunRecords /\ NoJob \in Jobs
  BY DEF NoRun, RunRecords, Statuses, Unset, NoJob, Jobs, Operations

LEMMA QuitTypes ==
  ASSUME WorkerTypes, NEW w \in Workers, Quit(w)
  PROVE  WorkerTypes'
  BY BlankTypes DEF WorkerTypes, Quit, Labels

LEMMA GotoTypes ==
  ASSUME WorkerTypes, NEW w \in Workers, pc[w] # "idle",
         NEW label \in Labels, Goto(w, label)
  PROVE  WorkerTypes'
  BY DEF WorkerTypes, Goto

LEMMA ReturnTypes ==
  ASSUME WorkerTypes, NEW w \in Workers, pc[w] # "idle", Return(w)
  PROVE  WorkerTypes'
<1>1. CASE job[w].op = "reconcile"
  BY <1>1, QuitTypes DEF Return
<1>2. CASE job[w].op # "reconcile"
  <2>1. [NoJob EXCEPT !.run = job[w].run, !.op = job[w].op] \in Jobs
    BY BlankTypes DEF WorkerTypes, Jobs
  <2>2. job[w].run \in Runs
    BY DEF WorkerTypes
  <2>3. /\ pc' = [pc EXCEPT ![w] = "act"]
        /\ job' = [job EXCEPT ![w] = [NoJob EXCEPT !.run = job[w].run, !.op = job[w].op]]
        /\ copy' = [copy EXCEPT ![w] = NoRun]
    BY <1>2 DEF Return
  <2>4. [NoJob EXCEPT !.run = job[w].run, !.op = job[w].op].run = job[w].run
    BY DEF NoJob
  <2>. QED
    BY <2>1, <2>2, <2>3, <2>4, BlankTypes DEF WorkerTypes, Labels
<1>. QED
  BY <1>1, <1>2

LEMMA UpdateTypes ==
  ASSUME WorkerTypes, NEW w \in Workers, pc[w] # "idle",
         NEW run \in RunRecords, NEW then \in {"return", "answer", "reconcile", "delete"},
         Update(w, run, then)
  PROVE  WorkerTypes'
  BY DEF WorkerTypes, Update, Labels, Jobs


\* What a worker that has begun holds.
LEMMA BusyTypes ==
  ASSUME TypeOK, NEW w \in Workers, pc[w] # "idle"
  PROVE  /\ job[w].run \in Runs /\ job[w].now \in Nat
         /\ job[w].op \in Operations
         /\ job[w].then \in {"return", "answer", "reconcile", "delete"}
         /\ copy[w] \in RunRecords
         /\ store[job[w].run] \in RunRecords
         /\ ResourceOf[job[w].run] \in Names
         /\ clock \in Nat
  BY ChaosAssumption DEF TypeOK, Jobs

\* The deadlines a handler computes are times.
LEMMA DeadlineTypes ==
  ASSUME NEW now \in Nat
  PROVE  /\ now + ApprovalTTL \in Nat
         /\ now + InjectionWindow \in Nat
         /\ now + CleanupGrace \in Nat
         /\ now + RecoveryWindow \in Nat
         /\ now + CleanupGrace + RecoveryWindow \in Nat
         /\ now + Duration + CleanupGrace \in Nat
         /\ now + Duration + CleanupGrace + RecoveryWindow \in Nat
  BY ChaosAssumption

-----------------------------------------------------------------------------
(* The steps of workers that leave the table and the cluster alone.        *)

LEMMA ExpireTypes ==
  ASSUME TypeOK, NEW w \in Workers, pc[w] # "idle", NEW run \in RunRecords,
         NEW then \in {"return", "answer"}, expire(w, run, then)
  PROVE  WorkerTypes'
<1>1. [run EXCEPT !.status = "expired"] \in RunRecords
  BY Zenon DEF RunRecords, Statuses
<1>. QED
  BY <1>1, UpdateTypes, TypeParts DEF expire

LEMMA LoadTypes ==
  ASSUME TypeOK, NEW w \in Workers, NEW r \in Runs, NEW op \in Operations,
         Load(w, r, op)
  PROVE  WorkerTypes'
<1>1. [NoJob EXCEPT !.run = r, !.op = op] \in Jobs
  BY BlankTypes, Zenon DEF Jobs
<1>2. [NoJob EXCEPT !.run = r, !.op = op].run = r
  BY DEF NoJob
<1>3. PICK label \in Labels, c \in RunRecords :
         /\ pc' = [pc EXCEPT ![w] = label]
         /\ copy' = [copy EXCEPT ![w] = c]
  BY BlankTypes DEF Load, TypeOK, Labels
<1>4. job' = [job EXCEPT ![w] = [NoJob EXCEPT !.run = r, !.op = op]]
  BY DEF Load
<1>. QED
  BY <1>1, <1>2, <1>3, <1>4 DEF TypeOK, WorkerTypes

LEMMA DecideTypes ==
  ASSUME TypeOK, NEW w \in Workers, NEW p \in Principals, Decide(w, p)
  PROVE  WorkerTypes'
<1>. DEFINE run == store[job[w].run]
            st == IF job[w].op = "approve" THEN "approved" ELSE "rejected"
<1>1. pc[w] # "idle" /\ run \in RunRecords
  BY BusyTypes DEF Decide
<1>2. [run EXCEPT !.approvedBy = p, !.status = st] \in RunRecords
  <2>1. st \in Statuses
    BY DEF Statuses
  <2>. QED
    BY <1>1, <2>1, Zenon DEF RunRecords
<1>3. \/ Quit(w)
      \/ expire(w, run, "answer")
      \/ Update(w, [run EXCEPT !.approvedBy = p, !.status = st], "answer")
  BY DEF Decide
<1>. QED
  BY <1>1, <1>2, <1>3, QuitTypes, ExpireTypes, UpdateTypes, TypeParts

LEMMA ExecuteTypes ==
  ASSUME TypeOK, NEW w \in Workers, Execute(w)
  PROVE  WorkerTypes'
<1>. DEFINE run == store[job[w].run]
<1>1. pc[w] # "idle" /\ run \in RunRecords
  BY BusyTypes DEF Execute
<1>2. [run EXCEPT !.status = "execution_requested"] \in RunRecords
  BY <1>1, Zenon DEF RunRecords, Statuses
<1>3. \/ Quit(w)
      \/ expire(w, run, "answer")
      \/ Update(w, [run EXCEPT !.status = "execution_requested"], "reconcile")
  BY DEF Execute
<1>. QED
  BY <1>1, <1>2, <1>3, QuitTypes, ExpireTypes, UpdateTypes, TypeParts

LEMMA AbortTypes ==
  ASSUME TypeOK, NEW w \in Workers, Abort(w)
  PROVE  WorkerTypes'
<1>. DEFINE run == store[job[w].run]
            limit == clock + CleanupGrace + RecoveryWindow
<1>1. pc[w] # "idle" /\ run \in RunRecords /\ limit \in Nat
  BY BusyTypes, DeadlineTypes DEF Abort
<1>2. [run EXCEPT !.status = "aborted"] \in RunRecords
  BY <1>1, Zenon DEF RunRecords, Statuses
<1>3. [run EXCEPT !.status = "abort_requested", !.recoveryDeadline = limit]
         \in RunRecords
  BY <1>1, Zenon DEF RunRecords, Statuses
<1>4. \/ Quit(w)
      \/ Update(w, [run EXCEPT !.status = "aborted"], "answer")
      \/ Update(w, [run EXCEPT !.status = "abort_requested",
                               !.recoveryDeadline = limit], "reconcile")
  BY DEF Abort
<1>. QED
  BY <1>1, <1>2, <1>3, <1>4, QuitTypes, UpdateTypes, TypeParts

LEMMA ReconcileTypes ==
  ASSUME TypeOK, NEW w \in Workers, Reconcile(w)
  PROVE  WorkerTypes'
<1>1. pc[w] # "idle" /\ copy[w] \in RunRecords /\ clock \in Nat
  BY BusyTypes DEF Reconcile
<1>2. CASE copy[w].status = "pending_approval"
  <2>1. expire(w, copy[w], "return") \/ Return(w)
    BY <1>2 DEF Reconcile, chaosActive
  <2>. QED
    BY <1>1, <2>1, ExpireTypes, ReturnTypes, TypeParts
<1>3. CASE copy[w].status # "pending_approval"
  <2>1. PICK label \in {"delete", "exists"} :
           /\ pc' = [pc EXCEPT ![w] = label]
           /\ job' = [job EXCEPT ![w].now = clock]
           /\ UNCHANGED copy
    BY <1>3 DEF Reconcile
  <2>2. [job[w] EXCEPT !.now = clock] \in Jobs
    BY <1>1, Zenon DEF TypeOK, Jobs
  <2>3. [job[w] EXCEPT !.now = clock].run \in Runs
    BY <1>1, BusyTypes, Zenon DEF TypeOK, Jobs
  <2>4. job' = [job EXCEPT ![w] = [job[w] EXCEPT !.now = clock]]
    BY <2>1 DEF TypeOK
  <2>. QED
    BY <2>1, <2>2, <2>3, <2>4 DEF TypeOK, WorkerTypes, Labels
<1>. QED
  BY <1>2, <1>3

LEMMA DisappearedTypes ==
  ASSUME TypeOK, NEW w \in Workers, pc[w] # "idle", Disappeared(w)
  PROVE  WorkerTypes'
<1>. DEFINE limit == job[w].now + RecoveryWindow
            row == [copy[w] EXCEPT !.status = "verifying_recovery", !.failure = TRUE,
                                   !.recoveryDeadline = limit]
<1>1. copy[w] \in RunRecords /\ limit \in Nat
  BY BusyTypes, DeadlineTypes
<1>2. row \in RunRecords
  BY <1>1, Zenon DEF RunRecords, Statuses
<1>3. Update(w, row, "return")
  BY DEF Disappeared
<1>. QED
  BY <1>2, <1>3, UpdateTypes, TypeParts

LEMMA AcknowledgeTypes ==
  ASSUME TypeOK, NEW w \in Workers, pc[w] # "idle", Acknowledge(w)
  PROVE  WorkerTypes'
<1>. DEFINE limit == job[w].now + InjectionWindow
            row == [copy[w] EXCEPT !.injectionDeadline = limit]
<1>1. copy[w] \in RunRecords /\ limit \in Nat
  BY BusyTypes, DeadlineTypes
<1>2. row \in RunRecords
  BY <1>1, Zenon DEF RunRecords
<1>3. Update(w, row, "return")
  BY DEF Acknowledge
<1>. QED
  BY <1>2, <1>3, UpdateTypes, TypeParts

LEMMA StartFailedTypes ==
  ASSUME TypeOK, NEW w \in Workers, pc[w] # "idle", StartFailed(w)
  PROVE  WorkerTypes'
<1>. DEFINE n == copy[w].attempts + 1
            st == IF n >= MaxAttempts THEN "failed" ELSE copy[w].status
            row == [copy[w] EXCEPT !.attempts = n, !.status = st]
<1>1. copy[w] \in RunRecords
  BY BusyTypes
<1>2. n \in Nat /\ st \in Statuses
  <2>1. copy[w].attempts \in Nat /\ copy[w].status \in Statuses
    BY <1>1, Zenon DEF RunRecords
  <2>2. "failed" \in Statuses
    BY DEF Statuses
  <2>. QED
    BY <2>1, <2>2
<1>3. row \in RunRecords
  BY <1>1, <1>2, Zenon DEF RunRecords
<1>4. Update(w, row, "return")
  BY DEF StartFailed
<1>. QED
  BY <1>3, <1>4, UpdateTypes, TypeParts

LEMMA ExistsTypes ==
  ASSUME TypeOK, NEW w \in Workers,
         \/ ExistsExecutionRequested(w) \/ ExistsRunning(w)
         \/ ExistsDeleted(w) \/ ExistsVerifying(w)
  PROVE  WorkerTypes'
<1>. DEFINE cleanup == [copy[w] EXCEPT !.status = "cleanup_requested"]
            verifying == [copy[w] EXCEPT !.status = "verifying_recovery"]
<1>1. pc[w] # "idle" /\ copy[w] \in RunRecords
  BY BusyTypes DEF ExistsExecutionRequested, ExistsRunning, ExistsDeleted, ExistsVerifying
<1>2. cleanup \in RunRecords /\ verifying \in RunRecords
  BY <1>1, Zenon DEF RunRecords, Statuses
<1>3. \/ Quit(w) \/ Return(w) \/ Disappeared(w) \/ Acknowledge(w)
      \/ Goto(w, "dryRun") \/ Goto(w, "observe") \/ Goto(w, "recovery")
      \/ Goto(w, "delete")
      \/ Update(w, cleanup, "delete") \/ Update(w, verifying, "return")
  BY DEF ExistsExecutionRequested, ExistsRunning, ExistsDeleted, ExistsVerifying
<1>4. {"dryRun", "observe", "recovery", "delete"} \subseteq Labels
  BY DEF Labels
<1>. QED
  BY <1>1, <1>2, <1>3, <1>4, TypeParts, QuitTypes, ReturnTypes, DisappearedTypes,
     AcknowledgeTypes, GotoTypes, UpdateTypes

LEMMA StartTypes ==
  ASSUME TypeOK, NEW w \in Workers, DryRun(w) \/ Create(w)
  PROVE  WorkerTypes'
<1>1. pc[w] # "idle" /\ "create" \in Labels
  BY DEF DryRun, Create, Labels
<1>2. Goto(w, "create") \/ StartFailed(w) \/ Acknowledge(w)
  BY DEF DryRun, Create
<1>. QED
  BY <1>1, <1>2, TypeParts, GotoTypes, StartFailedTypes, AcknowledgeTypes

LEMMA ObserveTypes ==
  ASSUME TypeOK, NEW w \in Workers, Observe(w)
  PROVE  WorkerTypes'
<1>. DEFINE now == job[w].now
            run == copy[w]
            end == now + Duration + CleanupGrace
            started == [run EXCEPT !.status = "running", !.startedAt = now,
                            !.cleanupDeadline = end,
                            !.recoveryDeadline = end + RecoveryWindow]
            late == [run EXCEPT !.status = "cleanup_requested", !.failure = TRUE,
                            !.cleanupDeadline = now + CleanupGrace,
                            !.recoveryDeadline = now + CleanupGrace + RecoveryWindow]
<1>1. pc[w] # "idle" /\ run \in RunRecords /\ now \in Nat
  BY BusyTypes DEF Observe
<1>2. /\ end \in Nat /\ end + RecoveryWindow \in Nat
      /\ now + CleanupGrace \in Nat /\ now + CleanupGrace + RecoveryWindow \in Nat
  BY <1>1, DeadlineTypes
<1>3. started \in RunRecords
  BY <1>1, <1>2, Zenon DEF RunRecords, Statuses
<1>4. late \in RunRecords
  BY <1>1, <1>2, Zenon DEF RunRecords, Statuses
<1>5. \/ Quit(w) \/ Return(w) \/ Update(w, run, "return")
      \/ Update(w, started, "return") \/ Update(w, late, "return")
  BY DEF Observe
<1>. QED
  BY <1>1, <1>3, <1>4, <1>5, TypeParts, QuitTypes, ReturnTypes, UpdateTypes

LEMMA DeleteTypes ==
  ASSUME TypeOK, NEW w \in Workers, Delete(w)
  PROVE  WorkerTypes'
<1>1. pc[w] # "idle" /\ "deleted" \in Labels
  BY DEF Delete, Labels
<1>2. Return(w) \/ Goto(w, "deleted")
  BY DEF Delete
<1>. QED
  BY <1>1, <1>2, TypeParts, ReturnTypes, GotoTypes

LEMMA VerifyRecoveryTypes ==
  ASSUME TypeOK, NEW w \in Workers, VerifyRecovery(w)
  PROVE  WorkerTypes'
<1>. DEFINE run == copy[w]
            Healthy(st) == [run EXCEPT !.recovery = "healthy", !.status = st]
            unhealthy == [run EXCEPT !.recovery = "unhealthy", !.status = "failed"]
<1>1. pc[w] # "idle" /\ run \in RunRecords
  BY BusyTypes DEF VerifyRecovery
<1>2. unhealthy \in RunRecords
  BY <1>1, Zenon DEF RunRecords, Statuses
<1>3. \A st \in Statuses : Healthy(st) \in RunRecords
  BY <1>1, Zenon DEF RunRecords
<1>4. \/ Return(w) \/ Update(w, unhealthy, "return")
      \/ \E st \in {"aborted", "failed", "succeeded"} : Update(w, Healthy(st), "return")
  BY DEF VerifyRecovery
<1>5. {"aborted", "failed", "succeeded"} \subseteq Statuses
  BY DEF Statuses
<1>. QED
  BY <1>1, <1>2, <1>3, <1>4, <1>5, TypeParts, ReturnTypes, UpdateTypes

-----------------------------------------------------------------------------
(* The steps that write the table or the cluster.                          *)

LEMMA CommitTypes ==
  ASSUME TypeOK, NEW w \in Workers, Commit(w)
  PROVE  TypeOK'
<1>. DEFINE r == job[w].run
            run == [copy[w] EXCEPT !.version = copy[w].version + 1]
<1>1. pc[w] # "idle" /\ r \in Runs /\ copy[w] \in RunRecords
  BY BusyTypes DEF Commit
<1>2. run \in RunRecords
  <2>1. copy[w].version \in Nat
    BY <1>1, Zenon DEF RunRecords
  <2>2. copy[w].version + 1 \in Nat
    BY <2>1
  <2>. QED
    BY <1>1, <2>2, Zenon DEF RunRecords
<1>3. SharedTypes'
  <2>1. store' = [store EXCEPT ![r] = run] \/ UNCHANGED store
    BY DEF Commit
  <2>. QED
    BY <1>1, <1>2, <2>1 DEF TypeOK, SharedTypes, Commit
<1>4. WorkerTypes'
  <2>1. CASE Quit(w) \/ Return(w)
    BY <1>1, <2>1, QuitTypes, ReturnTypes, TypeParts
  <2>2. CASE /\ pc' = [pc EXCEPT ![w] = job[w].then]
             /\ job' = [job EXCEPT ![w].op = "reconcile"]
             /\ copy' = [copy EXCEPT ![w] = run]
             /\ job[w].then \in {"reconcile", "delete"}
    <3>1. [job[w] EXCEPT !.op = "reconcile"] \in Jobs
      BY Zenon DEF TypeOK, Jobs, Operations
    <3>2. [job[w] EXCEPT !.op = "reconcile"].run \in Runs
      BY <1>1, Zenon DEF TypeOK, Jobs
    <3>3. job' = [job EXCEPT ![w] = [job[w] EXCEPT !.op = "reconcile"]]
      BY <2>2 DEF TypeOK
    <3>4. job[w].then \in Labels
      BY <2>2 DEF Labels
    <3>. QED
      BY <1>1, <1>2, <2>2, <3>1, <3>2, <3>3, <3>4 DEF TypeOK, WorkerTypes
  <2>. QED
    BY <2>1, <2>2 DEF Commit
<1>. QED
  BY <1>3, <1>4, TypeParts DEF TypeOK, WorkerTypes, SharedTypes

LEMMA RequestTypes ==
  ASSUME TypeOK, NEW r \in Runs, NEW p \in Principals, Request(r, p)
  PROVE  TypeOK'
<1>. DEFINE Row(st, t) == [NoRun EXCEPT !.status = st, !.version = 1,
                                        !.requestedBy = p, !.approvalExpiresAt = t]
            report == [NoRun EXCEPT !.status = "preflight_validated", !.version = 1,
                                    !.requestedBy = p]
            limit == clock + ApprovalTTL
<1>1. limit \in Nat /\ 1 \in Nat
  BY DeadlineTypes DEF TypeOK
<1>2. Row("pending_approval", limit) \in RunRecords
  BY <1>1, BlankTypes, Zenon DEF RunRecords, Statuses
<1>3. report \in RunRecords
  BY <1>1, BlankTypes, Zenon DEF RunRecords, Statuses
<1>4. PICK row \in RunRecords : store' = [store EXCEPT ![r] = row]
  BY <1>2, <1>3 DEF Request
<1>. QED
  BY <1>4 DEF TypeOK, Request

\* Objects that Kubernetes and Chaos Mesh change stay objects.
LEMMA ObjectTypes ==
  ASSUME NEW o \in Objects \cup {NoResource}
  PROVE  /\ [o EXCEPT !.injected = TRUE] \in Objects \cup {NoResource} \/ o = NoResource
         /\ [o EXCEPT !.deleting = TRUE] \in Objects \cup {NoResource} \/ o = NoResource
<1>1. CASE o \in Objects
  BY <1>1, Zenon DEF Objects
<1>2. CASE o = NoResource
  BY <1>2
<1>. QED
  BY <1>1, <1>2

\* What the create call makes: an object of the worker's run, which is late
\* unless the worker's copy is still the row.
LEMMA CreatedObject ==
  ASSUME NEW w \in Workers, job[w].run \in Runs
  PROVE  /\ Created(w) \in Objects /\ Created(w).owner = job[w].run
         /\ Created(w).injected = FALSE
         /\ Created(w).late = FALSE => Current(w)
<1>1. (~Current(w)) \in BOOLEAN
  OBVIOUS
<1>. DEFINE stale == ~Current(w)
<1>2. Created(w) = [NoResource EXCEPT !.owner = job[w].run, !.late = stale]
  BY DEF Created
<1>3. stale = FALSE => Current(w)
  OBVIOUS
<1>4. stale \in BOOLEAN
  BY <1>1
<1>. HIDE DEF stale
<1>. QED
  BY <1>2, <1>3, <1>4 DEF NoResource, Objects

LEMMA CreateTypes ==
  ASSUME TypeOK, NEW w \in Workers, Create(w)
  PROVE  TypeOK'
<1>1. pc[w] # "idle" /\ job[w].run \in Runs /\ ResourceOf[job[w].run] \in Names
  BY BusyTypes DEF Create
<1>2. Created(w) \in Objects
  BY <1>1, CreatedObject
<1>3. SharedTypes'
  BY <1>1, <1>2 DEF Create, TypeOK, SharedTypes
<1>4. WorkerTypes'
  BY StartTypes
<1>. QED
  BY <1>3, <1>4 DEF TypeOK, WorkerTypes, SharedTypes

LEMMA DeleteSharedTypes ==
  ASSUME TypeOK, NEW w \in Workers, Delete(w)
  PROVE  TypeOK'
<1>. DEFINE n == ResourceOf[job[w].run]
<1>1. n \in Names /\ resource[n] \in Objects \cup {NoResource}
  BY BusyTypes DEF Delete, TypeOK
<1>2. PICK o \in Objects \cup {NoResource} :
         resource' = [resource EXCEPT ![n] = o] \/ resource' = resource
  <2>1. CASE Absent(w) /\ UNCHANGED resource
    BY <1>1, <2>1
  <2>2. CASE resource' = [resource EXCEPT ![n] = NoResource]
    BY <2>2
  <2>3. CASE ~Absent(w) /\ resource' = [resource EXCEPT ![n].deleting = TRUE]
    <3>1. [resource[n] EXCEPT !.deleting = TRUE] \in Objects \cup {NoResource}
      BY <1>1, <2>3, ObjectTypes DEF Absent, Object
    <3>2. resource' = [resource EXCEPT ![n] = [resource[n] EXCEPT !.deleting = TRUE]]
      BY <2>3
    <3>. QED
      BY <3>1, <3>2
  <2>. QED
    BY <2>1, <2>2, <2>3 DEF Delete
<1>3. SharedTypes'
  BY <1>1, <1>2 DEF Delete, TypeOK, SharedTypes
<1>4. WorkerTypes'
  BY DeleteTypes
<1>. QED
  BY <1>3, <1>4 DEF TypeOK, WorkerTypes, SharedTypes

LEMMA EnvironmentTypes ==
  ASSUME TypeOK, Environment
  PROVE  TypeOK'
<1>1. ASSUME NEW n \in Names, Inject(n)
      PROVE  TypeOK'
  <2>1. resource[n] \in Objects /\ resource[n].owner \in Runs
    BY <1>1 DEF Inject, TypeOK, Objects
  <2>2. [resource[n] EXCEPT !.injected = TRUE] \in Objects \cup {NoResource}
    BY <1>1, <2>1, ObjectTypes DEF Inject
  <2>3. resource' = [resource EXCEPT ![n] = [resource[n] EXCEPT !.injected = TRUE]]
    BY <1>1 DEF Inject
  <2>4. resource' \in [Names -> Objects \cup {NoResource}] /\ injected' \subseteq Runs
    BY <1>1, <2>1, <2>2, <2>3 DEF Inject, TypeOK
  <2>. QED
    BY <1>1, <2>4 DEF Inject, TypeOK
<1>2. ASSUME NEW n \in Names, FinishDelete(n)
      PROVE  TypeOK'
  BY <1>2 DEF FinishDelete, TypeOK
<1>3. ASSUME NEW n \in Names, ExternalDelete(n)
      PROVE  TypeOK'
  BY <1>3 DEF ExternalDelete, TypeOK
<1>4. CASE Tick
  BY <1>4 DEF Tick, TypeOK
<1>5. CASE Restart
  BY <1>5, BlankTypes, ChaosAssumption DEF Restart, TypeOK, Labels
<1>. QED
  BY <1>1, <1>2, <1>3, <1>4, <1>5 DEF Environment

-----------------------------------------------------------------------------

LEMMA TypeInit == Init => TypeOK
<1>. SUFFICES ASSUME Init PROVE TypeOK
  OBVIOUS
<1>1. WorkerTypes
  BY BlankTypes DEF Init, WorkerTypes, Labels
<1>2. enabled \in BOOLEAN /\ settled \in BOOLEAN
  BY ChaosAssumption DEF Init
<1>3. SharedTypes
  BY <1>2, BlankTypes DEF Init, SharedTypes
<1>. QED
  BY <1>1, <1>3, TypeParts

LEMMA TypeStep == TypeOK /\ [Next]_vars => TypeOK'
<1>. SUFFICES ASSUME TypeOK, [Next]_vars PROVE TypeOK'
  OBVIOUS
<1>1. CASE UNCHANGED vars
  BY <1>1 DEF vars, TypeOK
<1>2. ASSUME NEW r \in Runs, NEW p \in Principals, Request(r, p)
      PROVE  TypeOK'
  BY <1>2, RequestTypes
<1>3. CASE Environment
  BY <1>3, EnvironmentTypes
<1>4. ASSUME NEW w \in Workers, UNCHANGED cluster, WorkerTypes'
      PROVE  TypeOK'
  BY <1>4 DEF cluster, TypeOK, WorkerTypes
<1>5. ASSUME NEW w \in Workers, NEW r \in Runs, NEW op \in Operations, Load(w, r, op)
      PROVE  TypeOK'
  BY <1>5, <1>4, LoadTypes DEF Load
<1>6. ASSUME NEW w \in Workers, Fail(w)
      PROVE  TypeOK'
  BY <1>6, <1>4, QuitTypes, TypeParts DEF Fail
<1>7. ASSUME NEW w \in Workers, Proceed(w)
      PROVE  TypeOK'
  <2>1. ASSUME NEW p \in Principals, Decide(w, p) PROVE TypeOK'
    BY <2>1, <1>4, DecideTypes DEF Decide
  <2>2. CASE Execute(w)
    BY <2>2, <1>4, ExecuteTypes DEF Execute
  <2>3. CASE Abort(w)
    BY <2>3, <1>4, AbortTypes DEF Abort
  <2>4. CASE Reconcile(w)
    BY <2>4, <1>4, ReconcileTypes DEF Reconcile
  <2>5. CASE \/ ExistsExecutionRequested(w) \/ ExistsRunning(w)
             \/ ExistsDeleted(w) \/ ExistsVerifying(w)
    <3>1. UNCHANGED cluster
      BY <2>5 DEF ExistsExecutionRequested, ExistsRunning, ExistsDeleted, ExistsVerifying
    <3>. QED
      BY <2>5, <3>1, <1>4, ExistsTypes
  <2>6. CASE DryRun(w)
    BY <2>6, <1>4, StartTypes DEF DryRun
  <2>7. CASE Observe(w)
    BY <2>7, <1>4, ObserveTypes DEF Observe
  <2>8. CASE VerifyRecovery(w)
    BY <2>8, <1>4, VerifyRecoveryTypes DEF VerifyRecovery
  <2>. QED
    BY <1>7, <2>1, <2>2, <2>3, <2>4, <2>5, <2>6, <2>7, <2>8,
       CommitTypes, CreateTypes, DeleteSharedTypes DEF Proceed
<1>. QED
  BY <1>1, <1>2, <1>3, <1>5, <1>6, <1>7 DEF Next

\* Every row, job, object and clock reading keeps its shape in every behaviour
\* of the manager: no step of a handler or of reconcileOne writes a status or a
\* deadline outside its type, whatever copy it started from.
THEOREM TypeCorrect == Spec => []TypeOK
  BY TypeInit, TypeStep, PTL DEF Spec

-----------------------------------------------------------------------------
=============================================================================
