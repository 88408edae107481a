------------------------ MODULE ChaosApprovalProofs ------------------------
(***************************************************************************)
(* What exists in the cluster and what the table says of it.               *)
(*                                                                         *)
(* No object is created for a run that a second principal did not approve. *)
(* ApprovedBeforeCreated is about the cluster, which the version check of  *)
(* the table does not protect: a worker may create the object from a stale *)
(* copy.  It holds because approval is never withdrawn: a copy that was    *)
(* ever active was read from a row that was approved, and every edge keeps *)
(* a run approved.                                                         *)
(*                                                                         *)
(* An object survives the end of its run only if it was created from a     *)
(* copy that was no longer the row, or if the run was given up as not      *)
(* started (last part).  Here the version check is what the argument rests *)
(* on: a worker that ends a run from the row as it stands looked for the   *)
(* object after the last create that was not late.                         *)
(***************************************************************************)
EXTENDS ChaosRefinementProofs

Approved(r) ==
    /\ store[r].approvedBy # None
    /\ store[r].approvedBy # store[r].requestedBy

RowsApproved ==
    \A r \in Runs : store[r].status \in {"approved"} \cup chaosActive => Approved(r)

CopyApproved(w) ==
    pc[w] \in InFlight /\ copy[w].status \in chaosActive => Approved(job[w].run)

AbsentUnapproved == \A r \in Runs : store[r].status = "absent" => store[r].approvedBy = None

ApprovalInv ==
    /\ AbsentUnapproved /\ RowsApproved
    /\ \A w \in Workers : CopyApproved(w)
    /\ ApprovedBeforeCreated

\* Outside Load and Commit a worker in flight still has the copy it had.
SameCopy(w) ==
    pc'[w] \in InFlight =>
        pc[w] \in InFlight /\ copy'[w] = copy[w] /\ job'[w].run = job[w].run

LEMMA ControlKeepsCopy ==
  ASSUME TypeOK, NEW w \in Workers,
         \/ Quit(w) \/ Return(w)
         \/ \E run, then : Update(w, run, then)
         \/ pc[w] \in InFlight /\ \E label \in InFlight : Goto(w, label)
  PROVE  SameCopy(w)
<1>1. CASE Quit(w)
  BY <1>1 DEF Quit, TypeOK, SameCopy, InFlight
<1>2. CASE Return(w)
  BY <1>2 DEF Return, Quit, TypeOK, SameCopy, InFlight
<1>3. CASE \E run, then : Update(w, run, then)
  BY <1>3 DEF Update, TypeOK, SameCopy, InFlight
<1>4. CASE pc[w] \in InFlight /\ \E label \in InFlight : Goto(w, label)
  BY <1>4 DEF Goto, TypeOK, SameCopy
<1>. QED
  BY <1>1, <1>2, <1>3, <1>4

LEMMA ProceedKeepsCopy ==
  ASSUME TypeOK, NEW w \in Workers, Proceed(w), ~Commit(w)
  PROVE  SameCopy(w)
<1>1. CASE \E p \in Principals : Decide(w, p)
  BY <1>1, ControlKeepsCopy DEF Decide, expire
<1>2. CASE Execute(w)
  BY <1>2, ControlKeepsCopy DEF Execute, expire
<1>3. CASE Abort(w)
  BY <1>3, ControlKeepsCopy DEF Abort
<1>4. CASE Reconcile(w)
  <2>1. CASE copy[w].status = "pending_approval"
    BY <1>4, <2>1, ControlKeepsCopy DEF Reconcile, expire, chaosActive
  <2>2. CASE copy[w].status # "pending_approval"
    <3>1. job' = [job EXCEPT ![w].now = clock] /\ UNCHANGED copy /\ pc[w] = "reconcile"
      BY <1>4, <2>2 DEF Reconcile
    <3>2. job'[w] = [job[w] EXCEPT !.now = clock] /\ job[w] \in Jobs
      BY <3>1 DEF TypeOK
    <3>3. job'[w].run = job[w].run
      BY <3>2, Zenon DEF Jobs
    <3>. QED
      BY <3>1, <3>3 DEF SameCopy, InFlight
  <2>. QED
    BY <2>1, <2>2
<1>5. CASE ExistsExecutionRequested(w)
  BY <1>5, ControlKeepsCopy
     DEF ExistsExecutionRequested, InFlight, Disappeared, Acknowledge
<1>6. CASE DryRun(w) \/ Create(w)
  BY <1>6, ControlKeepsCopy DEF DryRun, Create, InFlight, StartFailed, Acknowledge
<1>7. CASE Observe(w)
  BY <1>7, ControlKeepsCopy DEF Observe
<1>8. CASE ExistsRunning(w)
  BY <1>8, ControlKeepsCopy DEF ExistsRunning, Disappeared
<1>9. CASE Delete(w)
  BY <1>9, ControlKeepsCopy DEF Delete, InFlight
<1>10. CASE ExistsDeleted(w) \/ ExistsVerifying(w)
  BY <1>10, ControlKeepsCopy DEF ExistsDeleted, ExistsVerifying, InFlight
<1>11. CASE VerifyRecovery(w)
  BY <1>11, ControlKeepsCopy DEF VerifyRecovery
<1>. QED
  BY <1>1, <1>2, <1>3, <1>4, <1>5, <1>6, <1>7, <1>8, <1>9, <1>10, <1>11 DEF Proceed

\* A step of the others leaves a worker's copy and what it knows alone.
LEMMA OthersKeepApproved ==
  ASSUME NEW w \in Workers, Frame(w), UNCHANGED store, SameCopy(w),
         \A v \in Workers : CopyApproved(v)
  PROVE  \A v \in Workers : CopyApproved(v)'
<1>1. CopyApproved(w)'
  BY DEF SameCopy, CopyApproved, Approved
<1>2. \A v \in Workers \ {w} : CopyApproved(v)'
  BY DEF Frame, CopyApproved, Approved
<1>. QED
  BY <1>1, <1>2

\* No lifecycle edge withdraws an approval, and only Decide leads out of
\* pending_approval towards an object.
LEMMA EdgeApproved ==
  ASSUME NEW old, NEW new, Edge(old, new)
  PROVE  /\ old.approvedBy # None /\ old.approvedBy # old.requestedBy
               => new.approvedBy # None /\ new.approvedBy # new.requestedBy
         /\ new.status \in {"approved"} \cup chaosActive
               => \/ old.status \in {"approved"} \cup chaosActive
                  \/ new.approvedBy # None /\ new.approvedBy # new.requestedBy
  BY ChaosAssumption DEF Edge, Quiet, chaosActive

\* The rows after a step: an edge from the row before, or a row just requested.
LEMMA CommitApproved ==
  ASSUME TypeOK, CopiesGuarded, ApprovalInv, NEW w \in Workers, Commit(w)
  PROVE  ApprovalInv'
<1>0. pc[w] = "commit" /\ job[w].run \in Runs /\ copy[w] \in RunRecords
  BY BusyTypes DEF Commit
<1>. PICK r \in Runs : r = job[w].run
  BY <1>0
<1>. DEFINE row == [copy[w] EXCEPT !.version = copy[w].version + 1]
<1>1. /\ pc[w] = "commit" /\ r \in Runs /\ copy[w] \in RunRecords
      /\ UNCHANGED resource /\ Guarded(w)
  BY <1>0 DEF Commit, CopiesGuarded
<1>2. CASE ~Current(w)
  <2>1. Quit(w) /\ UNCHANGED store
    BY <1>2 DEF Commit
  <2>2. Frame(w) /\ SameCopy(w)
    BY <2>1, QuitKept, ControlKeepsCopy
  <2>3. \A v \in Workers : CopyApproved(v)'
    BY <2>1, <2>2, OthersKeepApproved DEF ApprovalInv
  <2>. QED
    BY <1>1, <2>1, <2>3 DEF ApprovalInv, AbsentUnapproved, RowsApproved, Approved,
       ApprovedBeforeCreated, OwnedBy
<1>3. CASE Current(w)
  <2>1. store' = [store EXCEPT ![r] = row] /\ Edge(store[r], copy[w])
    BY <1>1, <1>3 DEF Commit, Guarded
  <2>2. /\ row.status = copy[w].status /\ row.requestedBy = copy[w].requestedBy
        /\ row.approvedBy = copy[w].approvedBy
    BY <1>1, Zenon DEF RunRecords
  <2>3. store'[r] = row /\ \A q \in Runs \ {r} : store'[q] = store[q]
    BY <1>1, <2>1 DEF TypeOK
  <2>4. /\ store'[r].status = copy[w].status
        /\ store'[r].requestedBy = copy[w].requestedBy
        /\ store'[r].approvedBy = copy[w].approvedBy
    BY <2>2, <2>3
  <2>5. \A q \in Runs : Approved(q) => Approved(q)'
    BY <2>1, <2>3, <2>4, EdgeApproved DEF Approved
  <2>6. RowsApproved'
    <3>1. Approved(r) \/ store[r].status \notin {"approved"} \cup chaosActive
      BY <1>1 DEF ApprovalInv, RowsApproved
    <3>0. copy[w].status \in {"approved"} \cup chaosActive
             => \/ store[r].status \in {"approved"} \cup chaosActive
                \/ /\ copy[w].approvedBy # None
                   /\ copy[w].approvedBy # copy[w].requestedBy
      BY <2>1, EdgeApproved
    <3>2. store'[r].status \in {"approved"} \cup chaosActive => Approved(r)'
      BY <2>4, <2>5, <3>0, <3>1 DEF Approved
    <3>3. \A q \in Runs \ {r} :
             store'[q].status \in {"approved"} \cup chaosActive => Approved(q)'
      BY <2>3, <2>5 DEF ApprovalInv, RowsApproved
    <3>. QED
      BY <3>2, <3>3 DEF RowsApproved
  <2>7. ApprovedBeforeCreated'
    BY <1>1, <2>5 DEF ApprovalInv, ApprovedBeforeCreated, OwnedBy, Approved
  <2>8. CopyApproved(w)'
    <3>1. CASE Quit(w) \/ Return(w)
      <4>1. SameCopy(w)
        BY <3>1, ControlKeepsCopy
      <4>. QED
        BY <1>1, <4>1 DEF SameCopy, CopyApproved, InFlight
    <3>2. CASE /\ pc' = [pc EXCEPT ![w] = job[w].then]
               /\ job' = [job EXCEPT ![w].op = "reconcile"]
               /\ copy' = [copy EXCEPT ![w] = row]
      <4>1. copy'[w] = store'[r] /\ job'[w] = [job[w] EXCEPT !.op = "reconcile"]
            /\ job[w] \in Jobs
        BY <2>3, <3>2 DEF TypeOK
      <4>2. job'[w].run = r
        BY <4>1, Zenon DEF Jobs
      <4>. QED
        BY <1>1, <2>6, <4>1, <4>2 DEF RowsApproved, CopyApproved
    <3>. QED
      BY <1>3, <3>1, <3>2 DEF Commit
  <2>9. ASSUME NEW v \in Workers, v # w
        PROVE  CopyApproved(v)'
    <3>1. pc'[v] = pc[v] /\ job'[v] = job[v] /\ copy'[v] = copy[v]
      BY <1>3, <2>9 DEF Commit, Quit, Return, TypeOK
    <3>2. pc[v] \in InFlight => job[v].run \in Runs
      BY DEF TypeOK, InFlight
    <3>. QED
      BY <2>5, <3>1, <3>2 DEF ApprovalInv, CopyApproved
  <2>10. AbsentUnapproved'
    BY <2>1, <2>3, <2>4 DEF ApprovalInv, AbsentUnapproved, Edge
  <2>. QED
    BY <2>6, <2>7, <2>8, <2>9, <2>10 DEF ApprovalInv
<1>. QED
  BY <1>2, <1>3

LEMMA RequestApproved ==
  ASSUME TypeOK, CopiesGuarded, ApprovalInv, NEW r \in Runs, NEW p \in Principals,
         Request(r, p)
  PROVE  ApprovalInv'
<1>1. store'[r].status \in {"pending_approval", "preflight_validated"}
  <2>. DEFINE pending == [NoRun EXCEPT !.status = "pending_approval", !.version = 1,
                                       !.requestedBy = p,
                                       !.approvalExpiresAt = clock + ApprovalTTL]
              report == [NoRun EXCEPT !.status = "preflight_validated", !.version = 1,
                                      !.requestedBy = p]
  <2>1. pending.status = "pending_approval" /\ report.status = "preflight_validated"
    BY DEF NoRun
  <2>2. store'[r] = pending \/ store'[r] = report
    BY DEF Request, TypeOK
  <2>. QED
    BY <2>1, <2>2
<1>2. \A q \in Runs \ {r} : store'[q] = store[q]
  BY DEF Request, TypeOK
<1>3. store[r].status = "absent" /\ UNCHANGED <<resource, pc, job, copy>>
  BY DEF Request
<1>4. RowsApproved' /\ AbsentUnapproved'
  BY <1>1, <1>2 DEF ApprovalInv, AbsentUnapproved, RowsApproved, Approved, chaosActive
<1>5. \A v \in Workers : CopyApproved(v)'
  <2>1. \A v \in Workers : pc[v] \in InFlight => job[v].run \in Runs \ {r}
    BY <1>3 DEF TypeOK, CopiesGuarded, Guarded, InFlight
  <2>. QED
    BY <1>2, <1>3, <2>1 DEF ApprovalInv, CopyApproved, Approved
<1>6. ApprovedBeforeCreated'
  <2>1. ~OwnedBy(r)
    BY <1>3 DEF ApprovalInv, AbsentUnapproved, ApprovedBeforeCreated
  <2>2. \A q \in Runs : OwnedBy(q)' <=> OwnedBy(q)
    BY <1>3 DEF OwnedBy
  <2>. QED
    BY <1>2, <2>1, <2>2 DEF ApprovalInv, ApprovedBeforeCreated
<1>. QED
  BY <1>4, <1>5, <1>6 DEF ApprovalInv

\* A step that leaves the table alone and creates no object keeps objects
\* approved.
LEMMA NoNewOwner ==
  ASSUME ApprovedBeforeCreated, UNCHANGED store, \A r \in Runs : OwnedBy(r)' => OwnedBy(r)
  PROVE  ApprovedBeforeCreated'
  BY DEF ApprovedBeforeCreated

LEMMA RemovalOwners ==
  ASSUME TypeOK, NEW n \in Names, resource' = [resource EXCEPT ![n] = NoResource]
  PROVE  \A r \in Runs : OwnedBy(r)' => OwnedBy(r)
<1>1. NoResource.owner = None
  BY DEF NoResource
<1>. QED
  BY <1>1, ChaosAssumption DEF TypeOK, OwnedBy

LEMMA MarkOwners ==
  ASSUME TypeOK, NEW n \in Names,
         \/ resource' = [resource EXCEPT ![n].injected = TRUE]
         \/ resource' = [resource EXCEPT ![n].deleting = TRUE]
  PROVE  \A r \in Runs : OwnedBy(r)' => OwnedBy(r)
<1>. DEFINE seen == [resource[n] EXCEPT !.injected = TRUE]
            going == [resource[n] EXCEPT !.deleting = TRUE]
<1>1. resource[n] \in Objects \cup {NoResource}
  BY DEF TypeOK
<1>2. seen.owner = resource[n].owner /\ going.owner = resource[n].owner
  BY <1>1 DEF Objects, NoResource
<1>3. resource'[n].owner = resource[n].owner
  <2>1. resource'[n] = seen \/ resource'[n] = going
    BY DEF TypeOK
  <2>. QED
    BY <1>2, <2>1
<1>4. \A m \in Names \ {n} : resource'[m] = resource[m]
  BY DEF TypeOK
<1>. QED
  BY <1>3, <1>4, ChaosAssumption DEF OwnedBy

\* The create call runs on a copy that was active when it was read.
LEMMA CreateApproved ==
  ASSUME TypeOK, CopiesGuarded, ApprovalInv, NEW w \in Workers, Create(w)
  PROVE  ApprovedBeforeCreated'
<1>1. job[w].run \in Runs /\ UNCHANGED store /\ pc[w] = "create"
  BY BusyTypes DEF Create
<1>. PICK r \in Runs : r = job[w].run
  BY <1>1
<1>2. Approved(r)
  BY <1>1 DEF ApprovalInv, CopyApproved, CopiesGuarded, Placed, InFlight, chaosActive
<1>3. CASE UNCHANGED resource
  BY <1>1, <1>3, NoNewOwner DEF ApprovalInv, OwnedBy
<1>4. CASE resource' = [resource EXCEPT ![ResourceOf[r]] = Created(w)]
  <2>1. Created(w).owner = r
    BY <1>1, CreatedObject
  <2>2. \A q \in Runs : OwnedBy(q)' => q = r \/ OwnedBy(q)
    BY <1>4, <2>1, ChaosAssumption DEF OwnedBy, TypeOK
  <2>. QED
    BY <1>1, <1>2, <2>2 DEF ApprovalInv, ApprovedBeforeCreated, Approved
<1>. QED
  BY <1>3, <1>4 DEF Create

LEMMA DeleteApproved ==
  ASSUME TypeOK, ApprovalInv, NEW w \in Workers, Delete(w)
  PROVE  ApprovedBeforeCreated'
<1>1. job[w].run \in Runs /\ UNCHANGED store
  BY BusyTypes DEF Delete
<1>2. PICK n \in Names : n = ResourceOf[job[w].run]
  BY <1>1, ChaosAssumption
<1>3. CASE UNCHANGED resource
  BY <1>1, <1>3, NoNewOwner DEF ApprovalInv, OwnedBy
<1>4. CASE resource' = [resource EXCEPT ![n] = NoResource]
  BY <1>1, <1>4, NoNewOwner, RemovalOwners DEF ApprovalInv
<1>5. CASE resource' = [resource EXCEPT ![n].deleting = TRUE]
  BY <1>1, <1>5, NoNewOwner, MarkOwners DEF ApprovalInv
<1>. QED
  BY <1>2, <1>3, <1>4, <1>5 DEF Delete

LEMMA EnvironmentApproved ==
  ASSUME TypeOK, ApprovalInv, Environment
  PROVE  ApprovalInv'
<1>1. UNCHANGED store
  BY DEF Environment, Inject, FinishDelete, ExternalDelete, Tick, Restart
<1>2. RowsApproved' /\ AbsentUnapproved'
  BY <1>1 DEF ApprovalInv, RowsApproved, AbsentUnapproved, Approved
<1>3. \A v \in Workers : CopyApproved(v)'
  <2>1. CASE UNCHANGED <<pc, job, copy>>
    BY <1>1, <2>1 DEF ApprovalInv, CopyApproved, Approved
  <2>2. CASE Restart
    BY <2>2 DEF Restart, CopyApproved, InFlight
  <2>. QED
    BY <2>1, <2>2 DEF Environment, Inject, FinishDelete, ExternalDelete, Tick
<1>4. ApprovedBeforeCreated'
  <2>1. CASE UNCHANGED resource
    BY <1>1, <2>1, NoNewOwner DEF ApprovalInv, OwnedBy
  <2>2. ASSUME NEW n \in Names, resource' = [resource EXCEPT ![n] = NoResource]
        PROVE  ApprovedBeforeCreated'
    BY <1>1, <2>2, NoNewOwner, RemovalOwners DEF ApprovalInv
  <2>3. ASSUME NEW n \in Names, resource' = [resource EXCEPT ![n].injected = TRUE]
        PROVE  ApprovedBeforeCreated'
    BY <1>1, <2>3, NoNewOwner, MarkOwners DEF ApprovalInv
  <2>. QED
    BY <2>1, <2>2, <2>3
       DEF Environment, Inject, FinishDelete, ExternalDelete, Tick, Restart
<1>. QED
  BY <1>2, <1>3, <1>4 DEF ApprovalInv

-----------------------------------------------------------------------------

LEMMA ApprovalInit == Init => ApprovalInv
<1>. SUFFICES ASSUME Init PROVE ApprovalInv
  OBVIOUS
<1>1. NoRun.status = "absent" /\ NoRun.approvedBy = None /\ NoResource.owner = None
  BY DEF NoRun, NoResource
<1>2. AbsentUnapproved /\ RowsApproved
  BY <1>1 DEF Init, AbsentUnapproved, RowsApproved, chaosActive
<1>3. \A w \in Workers : CopyApproved(w)
  BY DEF Init, CopyApproved, InFlight
<1>4. ApprovedBeforeCreated
  BY <1>1, ChaosAssumption DEF Init, ApprovedBeforeCreated, OwnedBy
<1>. QED
  BY <1>2, <1>3, <1>4 DEF ApprovalInv

LEMMA ApprovalStep ==
  TypeOK /\ CopiesGuarded /\ ApprovalInv /\ [Next]_vars => ApprovalInv'
<1>. SUFFICES ASSUME TypeOK, CopiesGuarded, ApprovalInv, [Next]_vars PROVE ApprovalInv'
  OBVIOUS
<1>1. CASE UNCHANGED vars
  BY <1>1 DEF vars, ApprovalInv, AbsentUnapproved, RowsApproved, CopyApproved, Approved,
     ApprovedBeforeCreated, OwnedBy
<1>2. ASSUME UNCHANGED store PROVE RowsApproved' /\ AbsentUnapproved'
  BY <1>2 DEF ApprovalInv, RowsApproved, AbsentUnapproved, Approved
<1>3. ASSUME UNCHANGED <<store, resource>> PROVE ApprovedBeforeCreated'
  BY <1>3 DEF ApprovalInv, ApprovedBeforeCreated, OwnedBy
<1>4. ASSUME NEW w \in Workers, NEW r \in Runs, NEW op \in Operations, Load(w, r, op)
      PROVE  ApprovalInv'
  <2>1. UNCHANGED <<store, resource>>
    BY <1>4 DEF Load, cluster
  <2>2. Frame(w)
    BY <1>4 DEF Load, TypeOK, Frame
  <2>3. pc'[w] \in InFlight => copy'[w] = store[r]
    BY <1>4 DEF Load, TypeOK, InFlight
  <2>4. job'[w].run = r
    BY <1>4 DEF Load, TypeOK, NoJob
  <2>5. CopyApproved(w)'
    BY <2>1, <2>3, <2>4 DEF ApprovalInv, RowsApproved, CopyApproved, Approved
  <2>6. \A v \in Workers \ {w} : CopyApproved(v)'
    BY <2>1, <2>2 DEF ApprovalInv, Frame, CopyApproved, Approved
  <2>. QED
    BY <1>2, <1>3, <2>1, <2>5, <2>6 DEF ApprovalInv
<1>5. ASSUME NEW w \in Workers, Fail(w)
      PROVE  ApprovalInv'
  <2>1. Frame(w) /\ SameCopy(w) /\ UNCHANGED <<store, resource>>
    BY <1>5, QuitKept, ControlKeepsCopy DEF Fail, cluster
  <2>. QED
    BY <1>2, <1>3, <2>1, OthersKeepApproved DEF ApprovalInv
<1>6. ASSUME NEW w \in Workers, Proceed(w), ~Commit(w)
      PROVE  ApprovalInv'
  <2>1. UNCHANGED store
    BY <1>6 DEF Proceed, Decide, Execute, Abort, Reconcile, DryRun, Create,
          Observe, ExistsExecutionRequested, ExistsRunning, ExistsDeleted,
          ExistsVerifying, Delete, VerifyRecovery, cluster
  <2>2. Frame(w)
    <3>1. Kept(w)
      BY DEF CopiesGuarded, Kept
    <3>. QED
      BY <1>6, <3>1, DecideKept, ExecuteKept, AbortKept, ReconcileKept, StartKept,
         ObserveKept, ExistsKept, DeleteKept, VerifyRecoveryKept DEF Proceed
  <2>3. \A v \in Workers : CopyApproved(v)'
    BY <1>6, <2>1, <2>2, ProceedKeepsCopy, OthersKeepApproved DEF ApprovalInv
  <2>4. ApprovedBeforeCreated'
    <3>1. CASE Create(w)
      BY <3>1, CreateApproved
    <3>2. CASE Delete(w)
      BY <3>2, DeleteApproved
    <3>3. CASE ~Create(w) /\ ~Delete(w)
      <4>1. UNCHANGED resource
        BY <1>6, <3>3 DEF Proceed, Decide, Execute, Abort, Reconcile, DryRun, Observe,
           ExistsExecutionRequested, ExistsRunning, ExistsDeleted, ExistsVerifying,
           VerifyRecovery, cluster
      <4>. QED
        BY <1>3, <2>1, <4>1
    <3>. QED
      BY <3>1, <3>2, <3>3
  <2>. QED
    BY <1>2, <2>1, <2>3, <2>4 DEF ApprovalInv
<1>. QED
  BY <1>1, <1>4, <1>5, <1>6, CommitApproved, RequestApproved, EnvironmentApproved DEF Next

\* Separation of duties reaches the cluster: whatever the workers, crashes and
\* delays, no object exists for a run that nobody but its requester approved.
THEOREM ApprovedBeforeCreatedAlways == Spec => []ApprovedBeforeCreated
<1>1. Init => TypeOK /\ CopiesGuarded /\ ApprovalInv
  BY TypeInit, GuardedInit, ApprovalInit
<1>2. TypeOK /\ CopiesGuarded /\ ApprovalInv /\ [Next]_vars
         => TypeOK' /\ CopiesGuarded' /\ ApprovalInv'
  BY TypeStep, GuardedStep, ApprovalStep
<1>3. ApprovalInv => ApprovedBeforeCreated
  BY DEF ApprovalInv
<1>. QED
  BY <1>1, <1>2, <1>3, PTL DEF Spec

-----------------------------------------------------------------------------
(* What a finished run leaves behind.  That it is always nothing is false: *)
(* ChaosLateCreate and ChaosLostAck are counterexamples.  What they show is *)
(* all there is: OrphansExplained.                                          *)

Ended == {"succeeded", "failed", "aborted"}

\* An object of the run exists and was created from the row as it stood.
Timely(r) == OwnedBy(r) /\ resource[ResourceOf[r]].late = FALSE

\* Only an active run, or one given up as not started, has a timely object, and
\* only a run that ended says anything about the recovery of its targets.
RowsClean ==
    \A r \in Runs :
        /\ Timely(r) => store[r].status \in chaosActive \/ StartGivenUp(store[r])
        /\ store[r].recovery # "" => store[r].status \in Ended

\* Between reading a run and writing it.
Holding == InFlight \cup {"commit"}

\* The worker is about to end the run, other than by giving up its start.
Leaving(w) ==
    \/ pc[w] = "recovery"
    \/ pc[w] = "commit" /\ copy[w].status \notin chaosActive /\ ~StartGivenUp(copy[w])

\* A worker that ends the run from the row as it stands knows that there is no
\* timely object, and that no start from that row can still make one.
CleanWorker(w) ==
    /\ pc[w] \in Holding /\ copy[w].recovery # "" => copy[w].status \in Ended
    /\ pc[w] \in {"dryRun", "create"} => copy[w].injectionDeadline = Unset
    /\ Leaving(w) /\ Current(w) =>
          /\ ~Timely(job[w].run)
          /\ store[job[w].run].status # "execution_requested"

CleanInv == RowsClean /\ \A w \in Workers : CleanWorker(w)

\* What the proofs below start from.
Tidy == TypeOK /\ CopiesGuarded /\ CleanInv

\* After the step a timely object of the run r exists; it appears if there was none.
TimelyAfter(r) ==
    resource'[ResourceOf[r]].owner = r /\ resource'[ResourceOf[r]].late = FALSE

Appears(r) == TimelyAfter(r) /\ ~Timely(r)

LEMMA BlankRecovery == NoRun.recovery = ""
  BY Zenon DEF NoRun

\* What a worker in reconcileOne holds.
LEMMA HoldsTheRow ==
  ASSUME Tidy, NEW w \in Workers, pc[w] \in InFlight
  PROVE  /\ TypeOK /\ Placed(w) /\ job[w].run \in Runs /\ copy[w] \in RunRecords
         /\ Current(w) => copy[w] = store[job[w].run]
         /\ copy[w].status \in chaosActive \cup {"pending_approval"}
         /\ copy[w].recovery = ""
         /\ Current(w) /\ Timely(job[w].run) => copy[w].status \in chaosActive
<1>1. TypeOK /\ Placed(w) /\ Guarded(w) /\ CleanWorker(w) /\ pc[w] # "idle"
  BY DEF Tidy, CopiesGuarded, CleanInv, InFlight
<1>2. job[w].run \in Runs /\ copy[w] \in RunRecords
  BY <1>1 DEF TypeOK
<1>3. Current(w) => copy[w] = store[job[w].run]
  BY <1>1 DEF Guarded
<1>4. copy[w].status \in chaosActive \cup {"pending_approval"}
  BY <1>1 DEF Placed, InFlight, chaosActive
<1>5. copy[w].recovery = ""
  BY <1>1, <1>4 DEF CleanWorker, Holding, Ended, chaosActive
<1>6. Current(w) /\ Timely(job[w].run) => copy[w].status \in chaosActive
  BY <1>2, <1>3, <1>4 DEF Tidy, CleanInv, RowsClean, StartGivenUp, chaosActive
<1>. QED
  BY <1>1, <1>2, <1>3, <1>4, <1>5, <1>6

LEMMA QuitClean ==
  ASSUME TypeOK, NEW w \in Workers, Quit(w) \/ Return(w)
  PROVE  CleanWorker(w)'
<1>1. pc'[w] \in {"idle", "act"}
  BY DEF Quit, Return, TypeOK
<1>. QED
  BY <1>1 DEF CleanWorker, Leaving, Holding, InFlight

LEMMA GotoClean ==
  ASSUME Tidy, NEW w \in Workers, NEW label \in InFlight, pc[w] \in InFlight, Goto(w, label),
         UNCHANGED store,
         label \in {"dryRun", "create"} => copy[w].injectionDeadline = Unset,
         label = "recovery" => /\ ~TimelyAfter(job[w].run)
                               /\ copy[w].status # "execution_requested"
  PROVE  CleanWorker(w)'
<1>1. pc'[w] = label /\ job'[w] = job[w] /\ copy'[w] = copy[w]
  BY DEF Goto, Tidy, TypeOK
<1>2. copy[w].recovery = "" /\ (Current(w) => copy[w] = store[job[w].run])
  BY HoldsTheRow
<1>3. Leaving(w)' => label = "recovery"
  BY <1>1 DEF Leaving, InFlight
<1>4. Current(w)' => Current(w)
  BY <1>1 DEF Current
<1>5. Leaving(w)' /\ Current(w)' =>
         ~TimelyAfter(job[w].run) /\ store[job[w].run].status # "execution_requested"
  BY <1>2, <1>3, <1>4
<1>. QED
  BY <1>1, <1>2, <1>5 DEF CleanWorker, Timely, OwnedBy, TimelyAfter

LEMMA UpdateClean ==
  ASSUME TypeOK, NEW w \in Workers, NEW run, NEW then, Update(w, run, then), UNCHANGED store,
         run.recovery # "" => run.status \in Ended,
         /\ run.status \notin chaosActive /\ ~StartGivenUp(run)
         /\ run.version = store[job[w].run].version
         => /\ ~TimelyAfter(job[w].run)
            /\ store[job[w].run].status # "execution_requested"
  PROVE  CleanWorker(w)'
<1>1. pc'[w] = "commit" /\ copy'[w] = run /\ job'[w].run = job[w].run
  BY UpdateEffect
<1>2. Leaving(w)' => run.status \notin chaosActive /\ ~StartGivenUp(run)
  BY <1>1 DEF Leaving
<1>3. Current(w)' => run.version = store[job[w].run].version
  BY <1>1 DEF Current
<1>4. Leaving(w)' /\ Current(w)' =>
         ~TimelyAfter(job[w].run) /\ store[job[w].run].status # "execution_requested"
  BY <1>2, <1>3
<1>. QED
  BY <1>1, <1>4 DEF CleanWorker, Timely, OwnedBy, TimelyAfter

LEMMA HandlersClean ==
  ASSUME Tidy, NEW w \in Workers, UNCHANGED <<store, resource>>,
         \/ \E p \in Principals : Decide(w, p)
         \/ Execute(w) \/ Abort(w)
  PROVE  CleanWorker(w)'
<1>1. TypeOK /\ job[w].run \in Runs /\ store[job[w].run] \in RunRecords
  <2>1. pc[w] # "idle" /\ TypeOK
    BY DEF Decide, Execute, Abort, Tidy
  <2>. QED
    BY <2>1, BusyTypes
<1>. DEFINE run == store[job[w].run]
            limit == clock + CleanupGrace + RecoveryWindow
            decided(p, st) == [run EXCEPT !.approvedBy = p, !.status = st]
            moved(st) == [run EXCEPT !.status = st]
            aborting == [run EXCEPT !.status = "abort_requested", !.recoveryDeadline = limit]
            acted == {"pending_approval", "approved"} \cup chaosActive
<1>2. /\ run.status \in acted => run.recovery = ""
      /\ run.status \in {"pending_approval", "approved"} =>
            ~TimelyAfter(job[w].run) /\ run.status # "execution_requested"
  BY <1>1 DEF Tidy, CleanInv, RowsClean, Timely, OwnedBy, TimelyAfter, StartGivenUp,
              chaosActive, Ended
<1>3. ASSUME NEW p, NEW st
      PROVE  /\ decided(p, st).status = st /\ decided(p, st).recovery = run.recovery
             /\ moved(st).status = st /\ moved(st).recovery = run.recovery
  BY <1>1, Zenon DEF RunRecords
<1>4. aborting.status = "abort_requested" /\ aborting.recovery = run.recovery
  BY <1>1, Zenon DEF RunRecords
<1>5. ASSUME NEW p \in Principals, Decide(w, p) PROVE CleanWorker(w)'
  <2>1. PICK st : st = IF job[w].op = "approve" THEN "approved" ELSE "rejected"
    OBVIOUS
  <2>2. \/ Quit(w)
        \/ /\ run.status = "pending_approval"
           /\ Update(w, moved("expired"), "answer") \/ Update(w, decided(p, st), "answer")
    BY <1>5, <2>1 DEF Decide, expire
  <2>3. CASE Quit(w)
    BY <1>1, <2>3, QuitClean
  <2>4. CASE run.status = "pending_approval"
    <3>1. run.recovery = "" /\ ~TimelyAfter(job[w].run) /\ run.status # "execution_requested"
      BY <1>2, <2>4
    <3>. HIDE DEF decided, moved, run
    <3>2. moved("expired").recovery = "" /\ decided(p, st).recovery = ""
      BY <1>3, <3>1, Zenon
    <3>3. CASE Update(w, moved("expired"), "answer")
      BY <1>1, <3>1, <3>2, <3>3, UpdateClean DEF run
    <3>4. CASE Update(w, decided(p, st), "answer")
      BY <1>1, <3>1, <3>2, <3>4, UpdateClean DEF run
    <3>. QED
      BY <1>1, <2>2, <3>3, <3>4, QuitClean
  <2>. QED
    BY <2>2, <2>3, <2>4
<1>6. CASE Execute(w)
  <2>1. \/ Quit(w)
        \/ /\ run.status = "approved"
           /\ \/ Update(w, moved("expired"), "answer")
              \/ Update(w, moved("execution_requested"), "reconcile")
    BY <1>6 DEF Execute, expire
  <2>. HIDE DEF moved, run
  <2>. QED
    BY <1>1, <1>2, <1>3, <2>1, QuitClean, UpdateClean DEF run
<1>7. CASE Abort(w)
  <2>1. \/ Quit(w)
        \/ /\ run.status \in {"pending_approval", "approved"}
           /\ Update(w, moved("aborted"), "answer")
        \/ run.status \in acted /\ Update(w, aborting, "reconcile")
    BY <1>7 DEF Abort
  <2>2. "abort_requested" \in chaosActive
    BY DEF chaosActive
  <2>. HIDE DEF moved, aborting, run
  <2>. QED
    BY <1>1, <1>2, <1>3, <1>4, <2>1, <2>2, QuitClean, UpdateClean DEF run
<1>. QED
  BY <1>5, <1>6, <1>7

LEMMA ReconcileClean ==
  ASSUME Tidy, NEW w \in Workers, Reconcile(w)
  PROVE  CleanWorker(w)'
<1>. DEFINE expired == [copy[w] EXCEPT !.status = "expired"]
<1>0. pc[w] \in InFlight /\ pc[w] = "reconcile" /\ UNCHANGED <<store, resource>>
  BY DEF Reconcile, InFlight, cluster
<1>1. /\ expired.status = "expired" /\ expired.version = copy[w].version
      /\ expired.recovery = copy[w].recovery
  BY <1>0, HoldsTheRow, Zenon DEF RunRecords
<1>2. CASE copy[w].status = "pending_approval"
  <2>1. Update(w, expired, "return") \/ Return(w)
    BY <1>2 DEF Reconcile, expire, chaosActive
  <2>2. Current(w) => /\ ~TimelyAfter(job[w].run)
                      /\ store[job[w].run].status # "execution_requested"
    <3>1. Current(w) => ~Timely(job[w].run) /\ store[job[w].run] = copy[w]
      BY <1>0, <1>2, HoldsTheRow DEF chaosActive
    <3>. QED
      BY <1>0, <1>2, <3>1 DEF Timely, OwnedBy, TimelyAfter
  <2>. HIDE DEF expired
  <2>. QED
    BY <1>0, <1>1, <2>1, <2>2, HoldsTheRow, QuitClean, UpdateClean DEF Current
<1>3. CASE copy[w].status # "pending_approval"
  <2>1. /\ job' = [job EXCEPT ![w].now = clock] /\ UNCHANGED copy
        /\ pc'[w] \in {"delete", "exists"}
    BY <1>3, <1>0, HoldsTheRow DEF Reconcile, TypeOK
  <2>. QED
    BY <1>0, <2>1, HoldsTheRow DEF CleanWorker, Leaving
<1>. QED
  BY <1>2, <1>3

\* The updates of reconcileOne that leave the run active.
LEMMA ActiveUpdateClean ==
  ASSUME Tidy, NEW w \in Workers, pc[w] \in InFlight, NEW run, NEW then, Update(w, run, then),
         UNCHANGED store, run.recovery = copy[w].recovery, run.status \in chaosActive
  PROVE  CleanWorker(w)'
  BY HoldsTheRow, UpdateClean

LEMMA DisappearedClean ==
  ASSUME Tidy, NEW w \in Workers, pc[w] \in InFlight, Disappeared(w), UNCHANGED store
  PROVE  CleanWorker(w)'
<1>. DEFINE limit == job[w].now + RecoveryWindow
            row == [copy[w] EXCEPT !.status = "verifying_recovery", !.failure = TRUE,
                                   !.recoveryDeadline = limit]
<1>1. row.status = "verifying_recovery" /\ row.recovery = copy[w].recovery
  BY HoldsTheRow, Zenon DEF RunRecords
<1>2. Update(w, row, "return")
  BY DEF Disappeared
<1>. HIDE DEF row
<1>. QED
  BY <1>1, <1>2, ActiveUpdateClean DEF chaosActive

LEMMA AcknowledgeClean ==
  ASSUME Tidy, NEW w \in Workers, pc[w] \in InFlight, copy[w].status = "execution_requested",
         Acknowledge(w), UNCHANGED store
  PROVE  CleanWorker(w)'
<1>. DEFINE limit == job[w].now + InjectionWindow
            row == [copy[w] EXCEPT !.injectionDeadline = limit]
<1>1. row.status = copy[w].status /\ row.recovery = copy[w].recovery
  BY HoldsTheRow, Zenon DEF RunRecords
<1>2. Update(w, row, "return")
  BY DEF Acknowledge
<1>. HIDE DEF row
<1>. QED
  BY <1>1, <1>2, ActiveUpdateClean DEF chaosActive

\* A failed start leaves the run active or gives it up.
LEMMA StartFailedClean ==
  ASSUME Tidy, NEW w \in Workers, pc[w] \in {"dryRun", "create"}, StartFailed(w),
         UNCHANGED store
  PROVE  CleanWorker(w)'
<1>. DEFINE n == copy[w].attempts + 1
            st == IF n >= MaxAttempts THEN "failed" ELSE copy[w].status
            row == [copy[w] EXCEPT !.attempts = n, !.status = st]
<1>0. pc[w] \in InFlight
  BY DEF InFlight
<1>1. /\ row.recovery = copy[w].recovery /\ row.attempts = n /\ row.status = st
      /\ row.injectionDeadline = copy[w].injectionDeadline
  BY <1>0, HoldsTheRow, Zenon DEF RunRecords
<1>2. copy[w].injectionDeadline = Unset /\ copy[w].recovery = ""
      /\ copy[w].status = "execution_requested"
  BY <1>0, HoldsTheRow DEF Tidy, CleanInv, CleanWorker, Placed
<1>3. Update(w, row, "return")
  BY DEF StartFailed
<1>4. st \in chaosActive \/ (st = "failed" /\ n >= MaxAttempts)
  BY <1>2 DEF chaosActive
<1>. HIDE DEF row, st, n
<1>5. row.status \in chaosActive \/ StartGivenUp(row)
  BY <1>1, <1>2, <1>4 DEF StartGivenUp
<1>. QED
  BY <1>0, <1>1, <1>2, <1>3, <1>5, HoldsTheRow, UpdateClean

\* An object that is absent is nobody's.
LEMMA AbsentUnowned ==
  ASSUME NEW w \in Workers, Absent(w), job[w].run \in Runs
  PROVE  ~OwnedBy(job[w].run)
<1>1. NoResource.owner = None
  BY DEF NoResource
<1>. QED
  BY <1>1, ChaosAssumption DEF Absent, Object, OwnedBy

LEMMA ObserveClean ==
  ASSUME Tidy, NEW w \in Workers, Observe(w)
  PROVE  CleanWorker(w)'
<1>. DEFINE now == job[w].now
            run == copy[w]
            end == now + Duration + CleanupGrace
            started == [run EXCEPT !.status = "running", !.startedAt = now,
                            !.cleanupDeadline = end,
                            !.recoveryDeadline = end + RecoveryWindow]
            late == [run EXCEPT !.status = "cleanup_requested", !.failure = TRUE,
                            !.cleanupDeadline = now + CleanupGrace,
                            !.recoveryDeadline = now + CleanupGrace + RecoveryWindow]
<1>1. pc[w] \in InFlight /\ pc[w] = "observe" /\ UNCHANGED store
  BY DEF Observe, InFlight, cluster
<1>2. /\ started.status = "running" /\ started.recovery = run.recovery
      /\ late.status = "cleanup_requested" /\ late.recovery = run.recovery
  BY <1>1, HoldsTheRow, Zenon DEF RunRecords
<1>3. \/ Quit(w) \/ Return(w) \/ Update(w, run, "return")
      \/ Update(w, started, "return") \/ Update(w, late, "return")
  BY DEF Observe
<1>4. run.status \in chaosActive
  BY <1>1, HoldsTheRow DEF Placed, chaosActive
<1>. HIDE DEF started, late
<1>. QED
  BY <1>1, <1>2, <1>3, <1>4, HoldsTheRow, QuitClean, ActiveUpdateClean DEF chaosActive

LEMMA ExistsClean ==
  ASSUME Tidy, NEW w \in Workers,
         \/ ExistsExecutionRequested(w) \/ ExistsRunning(w)
         \/ ExistsDeleted(w) \/ ExistsVerifying(w)
  PROVE  CleanWorker(w)'
<1>. DEFINE cleanup == [copy[w] EXCEPT !.status = "cleanup_requested"]
            verifying == [copy[w] EXCEPT !.status = "verifying_recovery"]
<1>1. pc[w] \in InFlight /\ UNCHANGED <<store, resource>>
  BY DEF ExistsExecutionRequested, ExistsRunning, ExistsDeleted, ExistsVerifying, InFlight,
         cluster
<1>2. /\ cleanup.status = "cleanup_requested" /\ cleanup.recovery = copy[w].recovery
      /\ verifying.status = "verifying_recovery" /\ verifying.recovery = copy[w].recovery
  BY <1>1, HoldsTheRow, Zenon DEF RunRecords
<1>3. Absent(w) => ~TimelyAfter(job[w].run)
  <2>1. Absent(w) => ~OwnedBy(job[w].run)
    BY <1>1, HoldsTheRow, AbsentUnowned
  <2>. QED
    BY <1>1, <2>1 DEF OwnedBy, TimelyAfter
<1>4. \/ Quit(w) \/ Return(w) \/ Disappeared(w)
      \/ copy[w].status = "execution_requested" /\ Acknowledge(w)
      \/ copy[w].injectionDeadline = Unset /\ Goto(w, "dryRun")
      \/ /\ Absent(w) /\ copy[w].status # "execution_requested"
         /\ Goto(w, "recovery")
      \/ Goto(w, "observe") \/ Goto(w, "delete")
      \/ Update(w, cleanup, "delete") \/ Update(w, verifying, "return")
  BY DEF ExistsExecutionRequested, ExistsRunning, ExistsDeleted, ExistsVerifying
<1>5. /\ {"dryRun", "recovery", "observe", "delete"} \subseteq InFlight
      /\ {"cleanup_requested", "verifying_recovery"} \subseteq chaosActive
  BY DEF InFlight, chaosActive
<1>. HIDE DEF cleanup, verifying
<1>6. CASE Quit(w) \/ Return(w)
  BY <1>1, <1>6, HoldsTheRow, QuitClean
<1>7. CASE Disappeared(w) \/ (copy[w].status = "execution_requested" /\ Acknowledge(w))
  BY <1>1, <1>7, DisappearedClean, AcknowledgeClean
<1>8. CASE \/ copy[w].injectionDeadline = Unset /\ Goto(w, "dryRun")
           \/ /\ Absent(w) /\ copy[w].status # "execution_requested"
              /\ Goto(w, "recovery")
  BY <1>1, <1>3, <1>5, <1>8, GotoClean
<1>9. CASE Goto(w, "observe") \/ Goto(w, "delete")
  BY <1>1, <1>5, <1>9, GotoClean
<1>10. CASE Update(w, cleanup, "delete") \/ Update(w, verifying, "return")
  BY <1>1, <1>2, <1>5, <1>10, ActiveUpdateClean
<1>. QED
  BY <1>4, <1>6, <1>7, <1>8, <1>9, <1>10

LEMMA VerifyRecoveryClean ==
  ASSUME Tidy, NEW w \in Workers, VerifyRecovery(w)
  PROVE  CleanWorker(w)'
<1>. DEFINE run == copy[w]
            aborting == run.status = "abort_requested"
            st == CASE aborting -> "aborted" [] ~aborting /\ run.failure -> "failed"
                    [] OTHER -> "succeeded"
            healthy == [run EXCEPT !.recovery = "healthy", !.status = st]
            unhealthy == [run EXCEPT !.recovery = "unhealthy", !.status = "failed"]
<1>1. pc[w] \in InFlight /\ UNCHANGED <<store, resource>> /\ pc[w] = "recovery"
  BY DEF VerifyRecovery, InFlight, cluster
<1>2. /\ healthy.status = st /\ healthy.version = run.version
      /\ unhealthy.status = "failed" /\ unhealthy.version = run.version
  BY <1>1, HoldsTheRow, Zenon DEF RunRecords
<1>3. Update(w, healthy, "return") \/ Update(w, unhealthy, "return") \/ Return(w)
  BY DEF VerifyRecovery
<1>4. st \in Ended /\ "failed" \in Ended
  <2>1. run.failure \in BOOLEAN
    BY <1>1, HoldsTheRow, Zenon DEF RunRecords
  <2>. QED
    BY <2>1 DEF Ended
<1>5. Current(w) => /\ ~TimelyAfter(job[w].run)
                    /\ store[job[w].run].status # "execution_requested"
  <2>1. Current(w) => /\ ~Timely(job[w].run)
                      /\ store[job[w].run].status # "execution_requested"
    BY <1>1 DEF Tidy, CleanInv, CleanWorker, Leaving
  <2>. QED
    BY <1>1, <2>1 DEF Timely, OwnedBy, TimelyAfter
<1>. HIDE DEF healthy, unhealthy, st
<1>. QED
  BY <1>1, <1>2, <1>3, <1>4, <1>5, HoldsTheRow, QuitClean, UpdateClean DEF Current

-----------------------------------------------------------------------------
(* The objects *)

\* A timely object appears only from the row of a run whose execution was
\* requested.
LEMMA CreateAppears ==
  ASSUME Tidy, NEW w \in Workers, Create(w), NEW r \in Runs, Appears(r)
  PROVE  store[r].status = "execution_requested"
<1>1. /\ job[w].run \in Runs /\ pc[w] \in InFlight /\ pc[w] = "create"
      /\ resource \in [Names -> Objects \cup {NoResource}]
  BY BusyTypes DEF Create, Tidy, InFlight, TypeOK
<1>. PICK q \in Runs : q = job[w].run
  BY <1>1
<1>2. resource' = [resource EXCEPT ![ResourceOf[q]] = Created(w)]
  BY DEF Create, Appears, Timely, OwnedBy, TimelyAfter
<1>3. Created(w).owner = q /\ (Created(w).late = FALSE => Current(w))
  BY <1>1, CreatedObject
<1>4. ResourceOf[r] = ResourceOf[q]
  BY <1>1, <1>2, ChaosAssumption DEF Appears, Timely, OwnedBy, TimelyAfter
<1>5. resource'[ResourceOf[r]] = Created(w)
  BY <1>1, <1>2, <1>4, ChaosAssumption
<1>6. r = q /\ Current(w)
  BY <1>3, <1>5 DEF Appears, TimelyAfter
<1>7. copy[w] = store[q] /\ copy[w].status = "execution_requested"
  BY <1>1, <1>6, HoldsTheRow DEF Placed
<1>. QED
  BY <1>6, <1>7

\* A mark on an object does not change whose it is, nor when it was made.
LEMMA MarkAppears ==
  ASSUME TypeOK, NEW n \in Names, NEW r \in Runs,
         \/ resource' = [resource EXCEPT ![n].injected = TRUE]
         \/ resource' = [resource EXCEPT ![n].deleting = TRUE]
  PROVE  ~Appears(r)
<1>. DEFINE seen == [resource[n] EXCEPT !.injected = TRUE]
            going == [resource[n] EXCEPT !.deleting = TRUE]
<1>1. resource[n] \in Objects \cup {NoResource}
  BY DEF TypeOK
<1>2. /\ seen.owner = resource[n].owner /\ going.owner = resource[n].owner
      /\ seen.late = resource[n].late /\ going.late = resource[n].late
  BY <1>1 DEF Objects, NoResource
<1>3. resource'[n].owner = resource[n].owner /\ resource'[n].late = resource[n].late
  <2>1. resource'[n] = seen \/ resource'[n] = going
    BY DEF TypeOK
  <2>. QED
    BY <1>2, <2>1
<1>4. \A m \in Names \ {n} : resource'[m] = resource[m]
  BY DEF TypeOK
<1>. QED
  BY <1>3, <1>4, ChaosAssumption DEF Appears, Timely, OwnedBy, TimelyAfter

LEMMA RemovalAppears ==
  ASSUME TypeOK, NEW n \in Names, NEW r \in Runs, resource' = [resource EXCEPT ![n] = NoResource]
  PROVE  ~Appears(r)
<1>1. NoResource.owner = None
  BY DEF NoResource
<1>. QED
  BY <1>1, ChaosAssumption DEF TypeOK, Appears, Timely, OwnedBy, TimelyAfter

LEMMA DeleteAppears ==
  ASSUME TypeOK, NEW w \in Workers, Delete(w), NEW r \in Runs
  PROVE  ~Appears(r)
<1>1. job[w].run \in Runs
  BY BusyTypes DEF Delete
<1>2. PICK n \in Names : n = ResourceOf[job[w].run]
  BY <1>1, ChaosAssumption
<1>3. \/ UNCHANGED resource \/ resource' = [resource EXCEPT ![n] = NoResource]
      \/ resource' = [resource EXCEPT ![n].deleting = TRUE]
  BY <1>2 DEF Delete
<1>. QED
  BY <1>3, RemovalAppears, MarkAppears DEF Appears, Timely, OwnedBy, TimelyAfter

LEMMA EnvironmentAppears ==
  ASSUME TypeOK, Environment, NEW r \in Runs
  PROVE  ~Appears(r)
<1>1. \/ UNCHANGED resource
      \/ \E n \in Names : \/ resource' = [resource EXCEPT ![n] = NoResource]
                          \/ resource' = [resource EXCEPT ![n].injected = TRUE]
  BY DEF Environment, Inject, FinishDelete, ExternalDelete, Tick, Restart
<1>. QED
  BY <1>1, RemovalAppears, MarkAppears DEF Appears, Timely, OwnedBy, TimelyAfter

\* What a worker knows survives steps of others: they leave its row alone and
\* make no timely object that it would miss, or they write its row.
LEMMA OtherClean ==
  ASSUME TypeOK, NEW v \in Workers, CleanWorker(v), pc'[v] = pc[v], job'[v] = job[v],
         copy'[v] = copy[v],
         pc[v] \in Holding =>
            \/ /\ store'[job[v].run] = store[job[v].run]
               /\ Appears(job[v].run) => store[job[v].run].status = "execution_requested"
            \/ store'[job[v].run].version # copy[v].version
  PROVE  CleanWorker(v)'
<1>1. Leaving(v)' <=> Leaving(v)
  BY DEF Leaving
<1>2. Leaving(v) => pc[v] \in Holding
  BY DEF Leaving, Holding, InFlight
<1>3. Current(v)' <=> store'[job[v].run].version = copy[v].version
  BY DEF Current
<1>4. Leaving(v) /\ Current(v)' =>
         ~TimelyAfter(job[v].run) /\ store'[job[v].run].status # "execution_requested"
  <2>. SUFFICES ASSUME Leaving(v), Current(v)'
                PROVE  /\ ~TimelyAfter(job[v].run)
                       /\ store'[job[v].run].status # "execution_requested"
    OBVIOUS
  <2>1. /\ store'[job[v].run] = store[job[v].run]
        /\ Appears(job[v].run) => store[job[v].run].status = "execution_requested"
    BY <1>2, <1>3
  <2>2. Current(v)
    BY <1>3, <2>1 DEF Current
  <2>3. ~Timely(job[v].run) /\ store[job[v].run].status # "execution_requested"
    BY <2>2 DEF CleanWorker
  <2>. QED
    BY <2>1, <2>3 DEF Appears
<1>. QED
  BY <1>1, <1>4 DEF CleanWorker, Timely, OwnedBy, TimelyAfter

LEMMA StartClean ==
  ASSUME Tidy, NEW w \in Workers, DryRun(w) \/ Create(w)
  PROVE  CleanWorker(w)'
<1>1. /\ pc[w] \in InFlight /\ UNCHANGED store /\ pc[w] \in {"dryRun", "create"}
      /\ "create" \in InFlight
  BY DEF DryRun, Create, InFlight, cluster
<1>2. copy[w].status = "execution_requested" /\ copy[w].injectionDeadline = Unset
  BY <1>1, HoldsTheRow DEF Placed, Tidy, CleanInv, CleanWorker
<1>3. Goto(w, "create") \/ StartFailed(w) \/ Acknowledge(w)
  BY DEF DryRun, Create
<1>4. CASE Goto(w, "create")
  BY <1>1, <1>2, <1>4, GotoClean
<1>. QED
  BY <1>1, <1>2, <1>3, <1>4, StartFailedClean, AcknowledgeClean

-----------------------------------------------------------------------------
(* The steps *)

\* A step of w that leaves the table alone.
LEMMA WorkerStepClean ==
  ASSUME Tidy, NEW w \in Workers, Frame(w), UNCHANGED store, CleanWorker(w)',
         \A r \in Runs : Appears(r) => store[r].status = "execution_requested"
  PROVE  CleanInv'
<1>1. RowsClean'
  <2>1. \A r \in Runs : TimelyAfter(r) => store[r].status \in chaosActive \/ StartGivenUp(store[r])
    BY DEF Tidy, CleanInv, RowsClean, Appears, chaosActive
  <2>. QED
    BY <2>1 DEF Tidy, CleanInv, RowsClean, Timely, OwnedBy, TimelyAfter
<1>2. ASSUME NEW v \in Workers, v # w PROVE CleanWorker(v)'
  <2>1. pc[v] \in Holding => job[v].run \in Runs
    BY DEF Tidy, TypeOK, Holding, InFlight
  <2>. QED
    BY <1>2, <2>1, OtherClean DEF Tidy, CleanInv, Frame
<1>. QED
  BY <1>1, <1>2 DEF CleanInv

LEMMA CommitClean ==
  ASSUME Tidy, NEW w \in Workers, Commit(w), Current(w)
  PROVE  CleanInv'
<1>0. pc[w] = "commit" /\ job[w].run \in Runs /\ copy[w] \in RunRecords /\ TypeOK
  BY BusyTypes DEF Commit, Tidy
<1>. PICK r \in Runs : r = job[w].run
  BY <1>0
<1>. DEFINE row == [copy[w] EXCEPT !.version = copy[w].version + 1]
<1>1. /\ UNCHANGED resource
      /\ Leaving(w) => ~Timely(r)
      /\ copy[w].recovery # "" => copy[w].status \in Ended
  BY <1>0 DEF Commit, Tidy, CleanInv, CleanWorker, Holding
<1>2. /\ row.status = copy[w].status /\ row.recovery = copy[w].recovery
      /\ row.attempts = copy[w].attempts /\ row.injectionDeadline = copy[w].injectionDeadline
      /\ row.version = copy[w].version + 1
  BY <1>0, Zenon DEF RunRecords
<1>3. /\ store' = [store EXCEPT ![r] = row]
      /\ \/ Quit(w) \/ Return(w)
         \/ /\ job[w].then \in {"reconcile", "delete"}
            /\ pc' = [pc EXCEPT ![w] = job[w].then]
            /\ job' = [job EXCEPT ![w].op = "reconcile"]
            /\ copy' = [copy EXCEPT ![w] = row]
  BY DEF Commit
<1>4. store'[r] = row /\ \A q \in Runs \ {r} : store'[q] = store[q]
  BY <1>0, <1>3 DEF TypeOK
<1>. HIDE DEF row
<1>5. \A q \in Runs : (Timely(q)' <=> Timely(q)) /\ ~Appears(q)
  BY <1>1 DEF Timely, OwnedBy, Appears, TimelyAfter
<1>6. RowsClean'
  <2>1. Timely(r) => copy[w].status \in chaosActive \/ StartGivenUp(copy[w])
    BY <1>0, <1>1 DEF Leaving
  <2>2. StartGivenUp(copy[w]) => StartGivenUp(row)
    BY <1>2 DEF StartGivenUp
  <2>3. \A q \in Runs \ {r} :
           /\ Timely(q) => store[q].status \in chaosActive \/ StartGivenUp(store[q])
           /\ store[q].recovery # "" => store[q].status \in Ended
    BY DEF Tidy, CleanInv, RowsClean
  <2>. QED
    BY <1>1, <1>2, <1>4, <1>5, <2>1, <2>2, <2>3 DEF RowsClean
<1>7. CleanWorker(w)'
  <2>1. CASE Quit(w) \/ Return(w)
    BY <1>0, <2>1, QuitClean
  <2>2. CASE /\ job[w].then \in {"reconcile", "delete"}
             /\ pc' = [pc EXCEPT ![w] = job[w].then]
             /\ job' = [job EXCEPT ![w].op = "reconcile"]
             /\ copy' = [copy EXCEPT ![w] = row]
    <3>1. pc'[w] \in {"reconcile", "delete"} /\ copy'[w] = row
      BY <1>0, <2>2 DEF TypeOK
    <3>. QED
      BY <1>1, <1>2, <3>1 DEF CleanWorker, Leaving
  <2>. QED
    BY <1>3, <2>1, <2>2
<1>8. ASSUME NEW v \in Workers, v # w PROVE CleanWorker(v)'
  <2>1. pc'[v] = pc[v] /\ job'[v] = job[v] /\ copy'[v] = copy[v]
    BY <1>0, <1>3, <1>8 DEF Quit, Return, TypeOK
  <2>2. pc[v] \in Holding => job[v].run \in Runs
    BY <1>0 DEF TypeOK, Holding, InFlight
  <2>3. ASSUME pc[v] \in Holding, job[v].run = r PROVE store'[r].version # copy[v].version
    <3>1. copy[v].version <= store[r].version
      BY <2>3 DEF Tidy, CopiesGuarded, Guarded, Holding
    <3>2. store[r].version = copy[w].version
      BY DEF Current
    <3>3. copy[v] \in RunRecords
      BY <1>0 DEF TypeOK
    <3>4. copy[v].version \in Nat /\ copy[w].version \in Nat
      BY <1>0, <3>3, Zenon DEF RunRecords
    <3>. QED
      BY <1>2, <1>4, <3>1, <3>2, <3>4
  <2>. QED
    BY <1>0, <1>4, <1>5, <2>1, <2>2, <2>3, OtherClean DEF Tidy, CleanInv
<1>. QED
  BY <1>6, <1>7, <1>8 DEF CleanInv

LEMMA RequestClean ==
  ASSUME Tidy, NEW r \in Runs, NEW p \in Principals, Request(r, p)
  PROVE  CleanInv'
<1>. DEFINE pending == [NoRun EXCEPT !.status = "pending_approval", !.version = 1,
                                     !.requestedBy = p,
                                     !.approvalExpiresAt = clock + ApprovalTTL]
            report == [NoRun EXCEPT !.status = "preflight_validated", !.version = 1,
                                    !.requestedBy = p]
<1>0. TypeOK /\ store[r].status = "absent" /\ UNCHANGED <<resource, pc, job, copy>>
  BY DEF Tidy, Request
<1>1. pending.recovery = NoRun.recovery /\ report.recovery = NoRun.recovery
  BY Zenon DEF NoRun
<1>2. store'[r] = pending \/ store'[r] = report
  BY <1>0 DEF Request, TypeOK
<1>3. \A q \in Runs \ {r} : store'[q] = store[q]
  BY <1>0 DEF Request, TypeOK
<1>. HIDE DEF pending, report
<1>4. store'[r].recovery = ""
  BY <1>1, <1>2, BlankRecovery
<1>5. \A q \in Runs : ~Appears(q) /\ (Timely(q)' => Timely(q))
  BY <1>0 DEF Appears, Timely, OwnedBy, TimelyAfter
<1>6. ~Timely(r)
  BY <1>0 DEF Tidy, CleanInv, RowsClean, StartGivenUp, chaosActive
<1>7. RowsClean'
  BY <1>3, <1>4, <1>5, <1>6 DEF Tidy, CleanInv, RowsClean
<1>8. ASSUME NEW v \in Workers PROVE CleanWorker(v)'
  <2>1. pc[v] \in Holding => job[v].run \in Runs \ {r}
    BY <1>0 DEF TypeOK, Tidy, CopiesGuarded, Guarded, Holding, InFlight
  <2>. QED
    BY <1>0, <1>3, <1>5, <2>1, OtherClean DEF Tidy, CleanInv
<1>. QED
  BY <1>7, <1>8 DEF CleanInv

LEMMA EnvironmentClean ==
  ASSUME Tidy, Environment
  PROVE  CleanInv'
<1>0. TypeOK /\ UNCHANGED store /\ \A r \in Runs : ~Appears(r)
  BY EnvironmentAppears DEF Tidy, Environment, Inject, FinishDelete, ExternalDelete, Tick, Restart
<1>1. RowsClean'
  BY <1>0 DEF Tidy, CleanInv, RowsClean, Appears, TimelyAfter, Timely, OwnedBy
<1>2. ASSUME NEW v \in Workers PROVE CleanWorker(v)'
  <2>1. CASE UNCHANGED <<pc, job, copy>>
    <3>1. pc[v] \in Holding => job[v].run \in Runs
      BY <1>0 DEF TypeOK, Holding, InFlight
    <3>. QED
      BY <1>0, <2>1, <3>1, OtherClean DEF Tidy, CleanInv
  <2>2. CASE Restart
    <3>1. pc'[v] = "idle"
      BY <2>2 DEF Restart
    <3>. QED
      BY <3>1 DEF CleanWorker, Leaving, Holding, InFlight
  <2>. QED
    BY <2>1, <2>2 DEF Environment, Inject, FinishDelete, ExternalDelete, Tick
<1>. QED
  BY <1>1, <1>2 DEF CleanInv

LEMMA CleanInit == Init => CleanInv
<1>. SUFFICES ASSUME Init PROVE CleanInv
  OBVIOUS
<1>1. NoResource.owner = None
  BY DEF NoResource
<1>2. RowsClean
  BY <1>1, BlankRecovery, ChaosAssumption DEF Init, RowsClean, Timely, OwnedBy
<1>3. \A w \in Workers : CleanWorker(w)
  BY DEF Init, CleanWorker, Leaving, Holding, InFlight
<1>. QED
  BY <1>2, <1>3 DEF CleanInv

LEMMA CleanStep ==
  ASSUME TypeOK, CopiesGuarded, CleanInv, [Next]_vars
  PROVE  CleanInv'
<1>0. Tidy
  BY DEF Tidy
<1>1. CASE UNCHANGED vars
  BY <1>1 DEF vars, CleanInv, RowsClean, CleanWorker, Leaving, Current, Timely, OwnedBy
<1>2. ASSUME UNCHANGED resource PROVE \A r \in Runs : ~Appears(r)
  BY <1>2 DEF Appears, Timely, OwnedBy, TimelyAfter
<1>3. ASSUME NEW w \in Workers, NEW r \in Runs, NEW op \in Operations, Load(w, r, op)
      PROVE  CleanInv'
  <2>1. UNCHANGED <<store, resource>> /\ Frame(w)
    BY <1>3 DEF Load, cluster, TypeOK, Frame
  <2>2. pc'[w] \in {"reconcile", "act"} /\ (pc'[w] = "reconcile" => copy'[w] = store[r])
    BY <1>3 DEF Load, TypeOK
  <2>3. CleanWorker(w)'
    BY <2>2 DEF CleanInv, RowsClean, CleanWorker, Leaving, Holding, InFlight
  <2>. QED
    BY <1>0, <1>2, <2>1, <2>3, WorkerStepClean
<1>4. ASSUME NEW w \in Workers, Quit(w), UNCHANGED <<store, resource>> PROVE CleanInv'
  BY <1>0, <1>2, <1>4, QuitKept, QuitClean, WorkerStepClean
<1>5. ASSUME NEW w \in Workers, Fail(w) PROVE CleanInv'
  BY <1>4, <1>5 DEF Fail, cluster
<1>6. ASSUME NEW w \in Workers, Commit(w) PROVE CleanInv'
  <2>1. CASE Current(w)
    BY <1>0, <1>6, <2>1, CommitClean
  <2>2. CASE ~Current(w)
    BY <1>4, <1>6, <2>2 DEF Commit
  <2>. QED
    BY <2>1, <2>2
<1>7. ASSUME NEW w \in Workers, Proceed(w), ~Commit(w) PROVE CleanInv'
  <2>1. UNCHANGED store
    BY <1>7 DEF Proceed, Decide, Execute, Abort, Reconcile, DryRun, Create,
          Observe, ExistsExecutionRequested, ExistsRunning, ExistsDeleted,
          ExistsVerifying, Delete, VerifyRecovery, cluster
  <2>2. Frame(w)
    <3>1. Kept(w)
      BY DEF CopiesGuarded, Kept
    <3>. QED
      BY <1>7, <3>1, DecideKept, ExecuteKept, AbortKept, ReconcileKept, StartKept,
         ObserveKept, ExistsKept, DeleteKept, VerifyRecoveryKept DEF Proceed
  <2>3. CASE DryRun(w) \/ Create(w)
    <3>1. \A r \in Runs : Appears(r) => store[r].status = "execution_requested"
      BY <1>0, <1>2, <2>3, CreateAppears DEF DryRun, cluster
    <3>. QED
      BY <1>0, <2>1, <2>2, <2>3, <3>1, StartClean, WorkerStepClean
  <2>4. CASE Delete(w)
    <3>1. pc[w] \in InFlight /\ "deleted" \in InFlight /\ (Return(w) \/ Goto(w, "deleted"))
      BY <2>4 DEF Delete, InFlight
    <3>2. CleanWorker(w)'
      BY <1>0, <2>1, <3>1, QuitClean, GotoClean
    <3>. QED
      BY <1>0, <2>1, <2>2, <2>4, <3>2, DeleteAppears, WorkerStepClean
  <2>5. CASE ~DryRun(w) /\ ~Create(w) /\ ~Delete(w)
    <3>1. UNCHANGED resource
      BY <1>7, <2>5 DEF Proceed, Decide, Execute, Abort, Reconcile, Observe,
         ExistsExecutionRequested, ExistsRunning, ExistsDeleted, ExistsVerifying,
         VerifyRecovery, cluster
    <3>2. CleanWorker(w)'
      BY <1>0, <1>7, <2>1, <2>5, <3>1, HandlersClean, ReconcileClean, ObserveClean, ExistsClean,
         VerifyRecoveryClean DEF Proceed
    <3>. QED
      BY <1>0, <1>2, <2>1, <2>2, <3>1, <3>2, WorkerStepClean
  <2>. QED
    BY <2>3, <2>4, <2>5
<1>. QED
  BY <1>0, <1>1, <1>3, <1>5, <1>6, <1>7, RequestClean, EnvironmentClean DEF Next

\* Whatever the workers, replicas, crashes, lost answers, finalizers and shared
\* names, an object outlives its run only if the create call of Start ran on a
\* copy that was no longer the row, or if the run was given up as not started.
THEOREM OrphansAreExplained == Spec => []OrphansExplained
<1>1. Init => TypeOK /\ CopiesGuarded /\ CleanInv
  BY TypeInit, GuardedInit, CleanInit
<1>2. TypeOK /\ CopiesGuarded /\ CleanInv /\ [Next]_vars
         => TypeOK' /\ CopiesGuarded' /\ CleanInv'
  BY TypeStep, GuardedStep, CleanStep
<1>3. TypeOK /\ CleanInv => OrphansExplained
  <2>. SUFFICES ASSUME TypeOK, CleanInv, NEW r \in Runs, OwnedBy(r), store[r].status \in Finished,
                       ~StartGivenUp(store[r])
                PROVE  resource[ResourceOf[r]].late
    BY DEF OrphansExplained
  <2>1. ~Timely(r)
    BY DEF CleanInv, RowsClean, Finished, chaosActive
  <2>2. resource[ResourceOf[r]] \in Objects
    <3>1. resource[ResourceOf[r]] \in Objects \cup {NoResource}
      BY ChaosAssumption DEF TypeOK
    <3>2. resource[ResourceOf[r]] # NoResource
      BY ChaosAssumption DEF OwnedBy, NoResource
    <3>. QED
      BY <3>1, <3>2
  <2>3. resource[ResourceOf[r]].late \in BOOLEAN
    BY <2>2, Zenon DEF Objects
  <2>4. resource[ResourceOf[r]].late # FALSE
    BY <2>1 DEF Timely
  <2>5. resource[ResourceOf[r]].late = TRUE
    BY <2>3, <2>4, Zenon
  <2>. QED
    BY <2>5
<1>. QED
  BY <1>1, <1>2, <1>3, PTL DEF Spec
=============================================================================
