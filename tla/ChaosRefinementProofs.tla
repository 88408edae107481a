----------------------- MODULE ChaosRefinementProofs -----------------------
(***************************************************************************)
(* ChaosManager implements ChaosLifecycle, for every number of workers and *)
(* runs.  The argument is CopiesGuarded: a copy that still has the row's   *)
(* version is the row, so an accepted update is one lifecycle edge; every  *)
(* other step leaves the table alone.                                      *)
(***************************************************************************)
EXTENDS ChaosManagerProofs

\* A step of w touches no other worker.
Frame(w) ==
    \A v \in Workers \ {w} :
        pc'[v] = pc[v] /\ job'[v] = job[v] /\ copy'[v] = copy[v]

Kept(w) == Guarded(w) /\ Placed(w)

LEMMA FrameKept ==
  ASSUME NEW w \in Workers, NEW v \in Workers, v # w, Frame(w), UNCHANGED store, Kept(v)
  PROVE  Kept(v)'
  BY DEF Frame, Kept, Guarded, Placed, Current

LEMMA QuitKept ==
  ASSUME TypeOK, NEW w \in Workers, Quit(w)
  PROVE  Kept(w)' /\ Frame(w)
<1>1. pc'[w] = "idle"
  BY DEF Quit, TypeOK
<1>2. Frame(w)
  BY DEF Quit, TypeOK, Frame
<1>. QED
  BY <1>1, <1>2 DEF Kept, Guarded, Placed, InFlight

LEMMA ReturnKept ==
  ASSUME TypeOK, NEW w \in Workers, pc[w] # "idle", Return(w), UNCHANGED store, Kept(w)
  PROVE  Kept(w)' /\ Frame(w)
<1>1. CASE job[w].op = "reconcile"
  BY <1>1, QuitKept DEF Return
<1>2. CASE job[w].op # "reconcile"
  <2>1. /\ pc' = [pc EXCEPT ![w] = "act"]
        /\ job' = [job EXCEPT ![w] = [NoJob EXCEPT !.run = job[w].run, !.op = job[w].op]]
        /\ copy' = [copy EXCEPT ![w] = NoRun]
    BY <1>2 DEF Return
  <2>2. [NoJob EXCEPT !.run = job[w].run, !.op = job[w].op].run = job[w].run
    BY DEF NoJob
  <2>3. pc'[w] = "act" /\ job'[w].run = job[w].run
    BY <2>1, <2>2 DEF TypeOK
  <2>4. Frame(w)
    BY <2>1 DEF TypeOK, Frame
  <2>. QED
    BY <2>3, <2>4 DEF Kept, Guarded, Placed, InFlight
<1>. QED
  BY <1>1, <1>2

LEMMA GotoKept ==
  ASSUME TypeOK, NEW w \in Workers, pc[w] \in InFlight, Guarded(w), UNCHANGED store,
         NEW label \in InFlight, Goto(w, label)
  PROVE  Guarded(w)' /\ Frame(w) /\ pc'[w] = label /\ copy'[w] = copy[w]
<1>1. pc'[w] = label /\ job'[w] = job[w] /\ copy'[w] = copy[w]
  BY DEF Goto, TypeOK
<1>2. Frame(w)
  BY DEF Goto, TypeOK, Frame
<1>3. Guarded(w)'
  BY <1>1 DEF Guarded, Current, InFlight
<1>. QED
  BY <1>1, <1>2, <1>3

\* What Update leaves in the worker.
LEMMA UpdateEffect ==
  ASSUME TypeOK, NEW w \in Workers, NEW run, NEW then, Update(w, run, then)
  PROVE  /\ pc'[w] = "commit" /\ copy'[w] = run
         /\ job'[w].run = job[w].run /\ job'[w].then = then
         /\ Frame(w)
<1>1. pc'[w] = "commit" /\ copy'[w] = run
  BY DEF Update, TypeOK
<1>2. job' = [job EXCEPT ![w] = [job[w] EXCEPT !.then = then, !.now = 0]]
  BY DEF Update, TypeOK
<1>3. job'[w] = [job[w] EXCEPT !.then = then, !.now = 0]
  BY <1>2 DEF TypeOK
<1>4. job[w] \in Jobs
  BY DEF TypeOK
<1>5. job'[w].run = job[w].run /\ job'[w].then = then
  BY <1>3, <1>4, Zenon DEF Jobs
<1>6. Frame(w)
  BY <1>2 DEF Update, TypeOK, Frame
<1>. QED
  BY <1>1, <1>5, <1>6

\* An update prepared from a copy.
LEMMA UpdateKept ==
  ASSUME TypeOK, NEW w \in Workers, pc[w] \in InFlight, Guarded(w), UNCHANGED store,
         NEW run, run.version = copy[w].version, Edge(copy[w], run),
         NEW then, Update(w, run, then),
         then = "reconcile" => run.status \in {"execution_requested", "abort_requested"},
         then = "delete" => run.status = "cleanup_requested"
  PROVE  Kept(w)' /\ Frame(w)
<1>1. /\ pc'[w] = "commit" /\ copy'[w] = run
      /\ job'[w].run = job[w].run /\ job'[w].then = then /\ Frame(w)
  BY UpdateEffect
<1>2. Guarded(w)'
  BY <1>1 DEF Guarded, Current, InFlight
<1>3. Placed(w)'
  BY <1>1 DEF Placed
<1>. QED
  BY <1>1, <1>2, <1>3 DEF Kept

\* An update prepared from the row a handler has just read.
LEMMA UpdateRowKept ==
  ASSUME TypeOK, NEW w \in Workers, pc[w] = "act", Guarded(w), UNCHANGED store,
         NEW run, run.version = store[job[w].run].version,
         Edge(store[job[w].run], run),
         NEW then, Update(w, run, then),
         then = "reconcile" => run.status \in {"execution_requested", "abort_requested"},
         then = "delete" => run.status = "cleanup_requested"
  PROVE  Kept(w)' /\ Frame(w)
<1>1. /\ pc'[w] = "commit" /\ copy'[w] = run
      /\ job'[w].run = job[w].run /\ job'[w].then = then /\ Frame(w)
  BY UpdateEffect
<1>2. job[w].run \in Runs /\ store[job[w].run].version \in Nat
  <2>1. job[w].run \in Runs /\ store[job[w].run] \in RunRecords
    BY BusyTypes
  <2>. QED
    BY <2>1, Zenon DEF RunRecords
<1>3. run.version <= store[job[w].run].version
  BY <1>2
<1>4. Guarded(w)'
  BY <1>1, <1>3 DEF Guarded, Current, InFlight
<1>5. Placed(w)'
  BY <1>1 DEF Placed
<1>. QED
  BY <1>1, <1>4, <1>5 DEF Kept

-----------------------------------------------------------------------------
(* Every step of a worker but Commit keeps its copy guarded.               *)

LEMMA LoadKept ==
  ASSUME TypeOK, NEW w \in Workers, NEW r \in Runs, NEW op \in Operations,
         Load(w, r, op)
  PROVE  Kept(w)' /\ Frame(w)
<1>1. Frame(w)
  BY DEF Load, TypeOK, Frame
<1>2. job'[w] = [NoJob EXCEPT !.run = r, !.op = op]
  BY DEF Load, TypeOK
<1>3. [NoJob EXCEPT !.run = r, !.op = op].run = r
  BY DEF NoJob
<1>4. job'[w].run = r /\ UNCHANGED store /\ store[r].status # "absent"
  BY <1>2, <1>3 DEF Load, cluster
<1>5. store[r] \in RunRecords
  BY DEF TypeOK
<1>6. store[r].version \in Nat
  BY <1>5, Zenon DEF RunRecords
<1>7. CASE store[r].status \in chaosActive \cup {"pending_approval"}
  <2>1. pc'[w] = "reconcile" /\ copy'[w] = store[r]
    BY <1>7 DEF Load, TypeOK
  <2>. QED
    BY <1>1, <1>4, <1>6, <1>7, <2>1 DEF Kept, Guarded, Placed, InFlight
<1>8. CASE store[r].status \notin chaosActive \cup {"pending_approval"}
  <2>1. pc'[w] = "act"
    BY <1>8 DEF Load, TypeOK
  <2>. QED
    BY <1>1, <1>4, <2>1 DEF Kept, Guarded, Placed, InFlight
<1>. QED
  BY <1>7, <1>8

LEMMA DecideKept ==
  ASSUME TypeOK, NEW w \in Workers, Kept(w), NEW p \in Principals, Decide(w, p)
  PROVE  Kept(w)' /\ Frame(w)
<1>. DEFINE run == store[job[w].run]
            st == IF job[w].op = "approve" THEN "approved" ELSE "rejected"
            decided == [run EXCEPT !.approvedBy = p, !.status = st]
            expired == [run EXCEPT !.status = "expired"]
<1>1. pc[w] = "act" /\ run \in RunRecords /\ UNCHANGED store /\ Guarded(w)
  BY BusyTypes DEF Decide, cluster, Kept
<1>2. CASE Quit(w)
  BY <1>2, QuitKept
<1>3. CASE run.status = "pending_approval" /\ expire(w, run, "answer")
  <2>1. Update(w, expired, "answer")
    BY <1>3 DEF expire
  <2>2. expired.version = run.version /\ Edge(run, expired)
    <3>1. /\ expired.status = "expired" /\ expired.version = run.version
          /\ expired.requestedBy = run.requestedBy
          /\ expired.approvedBy = run.approvedBy /\ expired.failure = run.failure
      BY <1>1, Zenon DEF RunRecords
    <3>. QED
      BY <1>3, <3>1 DEF Edge, Quiet
  <2>. QED
    BY <1>1, <2>1, <2>2, UpdateRowKept
<1>4. CASE /\ run.status = "pending_approval" /\ p # run.requestedBy
           /\ Update(w, decided, "answer")
  <2>1. /\ decided.version = run.version /\ decided.status = st
        /\ decided.requestedBy = run.requestedBy
        /\ decided.approvedBy = p /\ decided.failure = run.failure
    BY <1>1, Zenon DEF RunRecords
  <2>2. st \in {"approved", "rejected"}
    OBVIOUS
  <2>3. Edge(run, decided)
    BY <1>4, <2>1, <2>2 DEF Edge
  <2>. QED
    BY <1>1, <1>4, <2>1, <2>3, UpdateRowKept
<1>. QED
  BY <1>2, <1>3, <1>4 DEF Decide, SelfDecision

LEMMA ExecuteKept ==
  ASSUME TypeOK, NEW w \in Workers, Kept(w), Execute(w)
  PROVE  Kept(w)' /\ Frame(w)
<1>. DEFINE run == store[job[w].run]
            expired == [run EXCEPT !.status = "expired"]
            requested == [run EXCEPT !.status = "execution_requested"]
<1>1. pc[w] = "act" /\ run \in RunRecords /\ UNCHANGED store /\ Guarded(w)
  BY BusyTypes DEF Execute, cluster, Kept
<1>2. CASE Quit(w)
  BY <1>2, QuitKept
<1>3. /\ expired.status = "expired" /\ expired.version = run.version
      /\ expired.requestedBy = run.requestedBy
      /\ expired.approvedBy = run.approvedBy /\ expired.failure = run.failure
  BY <1>1, Zenon DEF RunRecords
<1>4. /\ requested.status = "execution_requested" /\ requested.version = run.version
      /\ requested.requestedBy = run.requestedBy
      /\ requested.approvedBy = run.approvedBy /\ requested.failure = run.failure
  BY <1>1, Zenon DEF RunRecords
<1>5. CASE run.status = "approved" /\ Update(w, expired, "answer")
  <2>1. Edge(run, expired)
    BY <1>3, <1>5 DEF Edge, Quiet
  <2>. QED
    BY <1>1, <1>3, <1>5, <2>1, UpdateRowKept
<1>6. CASE run.status = "approved" /\ Update(w, requested, "reconcile")
  <2>1. Edge(run, requested)
    BY <1>4, <1>6 DEF Edge, Quiet
  <2>. QED
    BY <1>1, <1>4, <1>6, <2>1, UpdateRowKept
<1>. QED
  BY <1>2, <1>5, <1>6 DEF Execute, expire

LEMMA AbortKept ==
  ASSUME TypeOK, NEW w \in Workers, Kept(w), Abort(w)
  PROVE  Kept(w)' /\ Frame(w)
<1>. DEFINE run == store[job[w].run]
            limit == clock + CleanupGrace + RecoveryWindow
            aborted == [run EXCEPT !.status = "aborted"]
            requested == [run EXCEPT !.status = "abort_requested",
                                     !.recoveryDeadline = limit]
<1>1. pc[w] = "act" /\ run \in RunRecords /\ UNCHANGED store /\ Guarded(w)
  BY BusyTypes DEF Abort, cluster, Kept
<1>2. CASE Quit(w)
  BY <1>2, QuitKept
<1>3. /\ aborted.status = "aborted" /\ aborted.version = run.version
      /\ aborted.requestedBy = run.requestedBy
      /\ aborted.approvedBy = run.approvedBy /\ aborted.failure = run.failure
  BY <1>1, Zenon DEF RunRecords
<1>4. /\ requested.status = "abort_requested" /\ requested.version = run.version
      /\ requested.requestedBy = run.requestedBy
      /\ requested.approvedBy = run.approvedBy /\ requested.failure = run.failure
  BY <1>1, Zenon DEF RunRecords
<1>5. CASE /\ run.status \in {"pending_approval", "approved"}
           /\ Update(w, aborted, "answer")
  <2>1. Edge(run, aborted)
    BY <1>3, <1>5 DEF Edge, Quiet
  <2>. QED
    BY <1>1, <1>3, <1>5, <2>1, UpdateRowKept
<1>6. CASE /\ run.status \in chaosActive \ {"abort_requested"}
           /\ Update(w, requested, "reconcile")
  <2>1. Edge(run, requested)
    BY <1>4, <1>6 DEF Edge, Quiet, chaosActive
  <2>. QED
    BY <1>1, <1>4, <1>6, <2>1, UpdateRowKept
<1>. QED
  BY <1>2, <1>5, <1>6 DEF Abort

LEMMA ReconcileKept ==
  ASSUME TypeOK, NEW w \in Workers, Kept(w), Reconcile(w)
  PROVE  Kept(w)' /\ Frame(w)
<1>. DEFINE run == copy[w]
            expired == [run EXCEPT !.status = "expired"]
<1>1. /\ pc[w] = "reconcile" /\ run \in RunRecords /\ UNCHANGED store /\ Guarded(w)
      /\ pc[w] \in InFlight /\ pc[w] # "idle"
  BY BusyTypes DEF Reconcile, cluster, Kept, InFlight
<1>2. CASE run.status = "pending_approval"
  <2>1. /\ expired.status = "expired" /\ expired.version = run.version
        /\ expired.requestedBy = run.requestedBy
        /\ expired.approvedBy = run.approvedBy /\ expired.failure = run.failure
    BY <1>1, Zenon DEF RunRecords
  <2>2. Edge(run, expired)
    BY <1>2, <2>1 DEF Edge, Quiet
  <2>3. Return(w) \/ Update(w, expired, "return")
    BY <1>2 DEF Reconcile, expire, chaosActive
  <2>. QED
    BY <1>1, <2>1, <2>2, <2>3, ReturnKept, UpdateKept
<1>3. CASE run.status # "pending_approval"
  <2>1. /\ pc' = [pc EXCEPT ![w] = IF run.status \in {"cleanup_requested", "abort_requested"}
                                   THEN "delete" ELSE "exists"]
        /\ job' = [job EXCEPT ![w].now = clock]
        /\ UNCHANGED copy
        /\ run.status \in chaosActive
    BY <1>3 DEF Reconcile
  <2>2. job'[w] = [job[w] EXCEPT !.now = clock] /\ job[w] \in Jobs
    BY <2>1 DEF TypeOK
  <2>3. job'[w].run = job[w].run
    BY <2>2, Zenon DEF Jobs
  <2>4. /\ pc'[w] \in {"delete", "exists"} /\ copy'[w] = run
        /\ pc'[w] = "delete" => run.status \in {"cleanup_requested", "abort_requested"}
        /\ pc'[w] = "exists" =>
              run.status \in {"execution_requested", "running", "verifying_recovery"}
    BY <2>1 DEF TypeOK, chaosActive
  <2>5. Frame(w)
    BY <2>1 DEF TypeOK, Frame
  <2>6. Guarded(w)'
    BY <1>1, <2>3, <2>4 DEF Guarded, Current, InFlight
  <2>7. Placed(w)'
    BY <2>4 DEF Placed
  <2>. QED
    BY <2>5, <2>6, <2>7 DEF Kept
<1>. QED
  BY <1>2, <1>3

LEMMA DisappearedKept ==
  ASSUME TypeOK, NEW w \in Workers, Kept(w), pc[w] \in InFlight, UNCHANGED store,
         copy[w].status \in {"execution_requested", "running"}, Disappeared(w)
  PROVE  Kept(w)' /\ Frame(w)
<1>. DEFINE run == copy[w]
            limit == job[w].now + RecoveryWindow
            row == [run EXCEPT !.status = "verifying_recovery", !.failure = TRUE,
                               !.recoveryDeadline = limit]
<1>1. run \in RunRecords
  BY DEF TypeOK
<1>2. /\ row.status = "verifying_recovery" /\ row.version = run.version
      /\ row.requestedBy = run.requestedBy
      /\ row.approvedBy = run.approvedBy /\ row.failure = TRUE
  BY <1>1, Zenon DEF RunRecords
<1>3. Edge(run, row)
  BY <1>2 DEF Edge
<1>4. Update(w, row, "return")
  BY DEF Disappeared
<1>. QED
  BY <1>2, <1>3, <1>4, UpdateKept DEF Kept

LEMMA AcknowledgeKept ==
  ASSUME TypeOK, NEW w \in Workers, Kept(w), pc[w] \in InFlight, UNCHANGED store,
         copy[w].status = "execution_requested", Acknowledge(w)
  PROVE  Kept(w)' /\ Frame(w)
<1>. DEFINE run == copy[w]
            limit == job[w].now + InjectionWindow
            row == [run EXCEPT !.injectionDeadline = limit]
<1>1. run \in RunRecords
  BY DEF TypeOK
<1>2. /\ row.status = run.status /\ row.version = run.version
      /\ row.requestedBy = run.requestedBy
      /\ row.approvedBy = run.approvedBy /\ row.failure = run.failure
  BY <1>1, Zenon DEF RunRecords
<1>3. Edge(run, row)
  BY <1>2 DEF Edge, Quiet
<1>4. Update(w, row, "return")
  BY DEF Acknowledge
<1>. QED
  BY <1>2, <1>3, <1>4, UpdateKept DEF Kept

LEMMA StartFailedKept ==
  ASSUME TypeOK, NEW w \in Workers, Kept(w), pc[w] \in InFlight, UNCHANGED store,
         copy[w].status = "execution_requested", StartFailed(w)
  PROVE  Kept(w)' /\ Frame(w)
<1>. DEFINE run == copy[w]
            n == run.attempts + 1
            st == IF n >= MaxAttempts THEN "failed" ELSE run.status
            row == [run EXCEPT !.attempts = n, !.status = st]
<1>1. run \in RunRecords
  BY DEF TypeOK
<1>2. /\ row.status = st /\ row.version = run.version
      /\ row.requestedBy = run.requestedBy
      /\ row.approvedBy = run.approvedBy /\ row.failure = run.failure
  BY <1>1, Zenon DEF RunRecords
<1>3. st \in {"failed", "execution_requested"}
  OBVIOUS
<1>4. Edge(run, row)
  BY <1>2, <1>3 DEF Edge, Quiet
<1>5. Update(w, row, "return")
  BY DEF StartFailed
<1>. QED
  BY <1>2, <1>4, <1>5, UpdateKept DEF Kept

LEMMA StartKept ==
  ASSUME TypeOK, NEW w \in Workers, Kept(w), DryRun(w) \/ Create(w)
  PROVE  Kept(w)' /\ Frame(w)
<1>1. /\ pc[w] \in InFlight /\ UNCHANGED store /\ Guarded(w)
      /\ copy[w].status = "execution_requested"
  BY DEF DryRun, Create, cluster, InFlight, Kept, Placed
<1>2. CASE Goto(w, "create")
  <2>1. Guarded(w)' /\ Frame(w) /\ pc'[w] = "create" /\ copy'[w] = copy[w]
    BY <1>1, <1>2, GotoKept DEF InFlight
  <2>. QED
    BY <1>1, <2>1 DEF Kept, Placed
<1>3. CASE StartFailed(w)
  BY <1>1, <1>3, StartFailedKept
<1>4. CASE Acknowledge(w)
  BY <1>1, <1>4, AcknowledgeKept
<1>. QED
  BY <1>2, <1>3, <1>4 DEF DryRun, Create

LEMMA ObserveKept ==
  ASSUME TypeOK, NEW w \in Workers, Kept(w), Observe(w)
  PROVE  Kept(w)' /\ Frame(w)
<1>. DEFINE now == job[w].now
            run == copy[w]
            end == now + Duration + CleanupGrace
            started == [run EXCEPT !.status = "running", !.startedAt = now,
                            !.cleanupDeadline = end,
                            !.recoveryDeadline = end + RecoveryWindow]
            late == [run EXCEPT !.status = "cleanup_requested", !.failure = TRUE,
                            !.cleanupDeadline = now + CleanupGrace,
                            !.recoveryDeadline = now + CleanupGrace + RecoveryWindow]
<1>1. /\ pc[w] \in InFlight /\ pc[w] # "idle" /\ UNCHANGED store /\ Guarded(w)
      /\ run.status = "execution_requested" /\ run \in RunRecords
  BY DEF Observe, cluster, InFlight, Kept, Placed, TypeOK
<1>2. /\ started.status = "running" /\ started.version = run.version
      /\ started.requestedBy = run.requestedBy
      /\ started.approvedBy = run.approvedBy /\ started.failure = run.failure
  BY <1>1, Zenon DEF RunRecords
<1>3. /\ late.status = "cleanup_requested" /\ late.version = run.version
      /\ late.requestedBy = run.requestedBy
      /\ late.approvedBy = run.approvedBy /\ late.failure = TRUE
  BY <1>1, Zenon DEF RunRecords
<1>4. Edge(run, started)
  BY <1>1, <1>2 DEF Edge, Quiet
<1>5. Edge(run, late)
  BY <1>1, <1>3 DEF Edge
<1>6. Edge(run, run)
  BY <1>1 DEF Edge, Quiet
<1>7. \/ Quit(w) \/ Return(w) \/ Update(w, run, "return")
      \/ Update(w, started, "return") \/ Update(w, late, "return")
  BY DEF Observe
<1>8. CASE Update(w, started, "return")
  BY <1>1, <1>2, <1>4, <1>8, UpdateKept
<1>9. CASE Update(w, late, "return")
  BY <1>1, <1>3, <1>5, <1>9, UpdateKept
<1>10. CASE Update(w, run, "return")
  BY <1>1, <1>6, <1>10, UpdateKept
<1>. QED
  BY <1>1, <1>7, <1>8, <1>9, <1>10, QuitKept, ReturnKept

LEMMA ExistsKept ==
  ASSUME TypeOK, NEW w \in Workers, Kept(w),
         \/ ExistsExecutionRequested(w) \/ ExistsRunning(w)
         \/ ExistsDeleted(w) \/ ExistsVerifying(w)
  PROVE  Kept(w)' /\ Frame(w)
<1>. DEFINE run == copy[w]
            cleanup == [run EXCEPT !.status = "cleanup_requested"]
            verifying == [run EXCEPT !.status = "verifying_recovery"]
<1>1. /\ pc[w] \in InFlight /\ pc[w] # "idle" /\ UNCHANGED store /\ Guarded(w)
      /\ run \in RunRecords
  BY DEF ExistsExecutionRequested, ExistsRunning, ExistsDeleted, ExistsVerifying,
         cluster, InFlight, Kept, TypeOK
<1>2. /\ cleanup.status = "cleanup_requested" /\ cleanup.version = run.version
      /\ cleanup.requestedBy = run.requestedBy
      /\ cleanup.approvedBy = run.approvedBy /\ cleanup.failure = run.failure
  BY <1>1, Zenon DEF RunRecords
<1>3. /\ verifying.status = "verifying_recovery" /\ verifying.version = run.version
      /\ verifying.requestedBy = run.requestedBy
      /\ verifying.approvedBy = run.approvedBy /\ verifying.failure = run.failure
  BY <1>1, Zenon DEF RunRecords
<1>4. CASE Quit(w) \/ Return(w)
  BY <1>1, <1>4, QuitKept, ReturnKept
<1>5. CASE run.status \in {"execution_requested", "running"} /\ Disappeared(w)
  BY <1>1, <1>5, DisappearedKept
<1>6. CASE run.status = "execution_requested" /\ Acknowledge(w)
  BY <1>1, <1>6, AcknowledgeKept
<1>7. ASSUME NEW label \in InFlight, Goto(w, label),
             \/ label \in {"dryRun", "observe"} /\ run.status = "execution_requested"
             \/ label = "recovery" /\ run.status \in {"abort_requested", "verifying_recovery"}
             \/ label = "delete" /\ run.status = "verifying_recovery"
      PROVE  Kept(w)' /\ Frame(w)
  <2>1. Guarded(w)' /\ Frame(w) /\ pc'[w] = label /\ copy'[w] = copy[w]
    BY <1>1, <1>7, GotoKept
  <2>. QED
    BY <1>7, <2>1 DEF Kept, Placed
<1>8. CASE run.status = "running" /\ Update(w, cleanup, "delete")
  <2>1. Edge(run, cleanup)
    BY <1>2, <1>8 DEF Edge, Quiet
  <2>. QED
    BY <1>1, <1>2, <1>8, <2>1, UpdateKept
<1>9. CASE run.status = "cleanup_requested" /\ Update(w, verifying, "return")
  <2>1. Edge(run, verifying)
    BY <1>3, <1>9 DEF Edge, Quiet
  <2>. QED
    BY <1>1, <1>3, <1>9, <2>1, UpdateKept
<1>10. CASE ExistsExecutionRequested(w)
  BY <1>4, <1>5, <1>6, <1>7, <1>10 DEF ExistsExecutionRequested, InFlight
<1>11. CASE ExistsRunning(w)
  BY <1>4, <1>5, <1>8, <1>11 DEF ExistsRunning
<1>12. CASE ExistsDeleted(w)
  BY <1>4, <1>7, <1>9, <1>12 DEF ExistsDeleted, InFlight
<1>13. CASE ExistsVerifying(w)
  BY <1>4, <1>7, <1>13 DEF ExistsVerifying, InFlight
<1>. QED
  BY <1>10, <1>11, <1>12, <1>13

LEMMA DeleteKept ==
  ASSUME TypeOK, NEW w \in Workers, Kept(w), Delete(w)
  PROVE  Kept(w)' /\ Frame(w)
<1>1. /\ pc[w] \in InFlight /\ pc[w] # "idle" /\ UNCHANGED store /\ Guarded(w)
      /\ copy[w].status \in {"cleanup_requested", "abort_requested", "verifying_recovery"}
  BY DEF Delete, InFlight, Kept, Placed
<1>2. CASE Return(w)
  BY <1>1, <1>2, ReturnKept
<1>3. CASE copy[w].status # "verifying_recovery" /\ Goto(w, "deleted")
  <2>1. Guarded(w)' /\ Frame(w) /\ pc'[w] = "deleted" /\ copy'[w] = copy[w]
    BY <1>1, <1>3, GotoKept DEF InFlight
  <2>. QED
    BY <1>1, <1>3, <2>1 DEF Kept, Placed
<1>. QED
  BY <1>2, <1>3 DEF Delete

LEMMA VerifyRecoveryKept ==
  ASSUME TypeOK, NEW w \in Workers, Kept(w), VerifyRecovery(w)
  PROVE  Kept(w)' /\ Frame(w)
<1>. DEFINE run == copy[w]
            Healthy(st) == [run EXCEPT !.recovery = "healthy", !.status = st]
            unhealthy == [run EXCEPT !.recovery = "unhealthy", !.status = "failed"]
<1>1. /\ pc[w] \in InFlight /\ pc[w] # "idle" /\ UNCHANGED store /\ Guarded(w)
      /\ run.status \in {"abort_requested", "verifying_recovery"} /\ run \in RunRecords
  BY DEF VerifyRecovery, cluster, InFlight, Kept, Placed, TypeOK
<1>2. CASE Return(w)
  BY <1>1, <1>2, ReturnKept
<1>3. CASE Update(w, unhealthy, "return")
  <2>1. /\ unhealthy.status = "failed" /\ unhealthy.version = run.version
        /\ unhealthy.requestedBy = run.requestedBy
        /\ unhealthy.approvedBy = run.approvedBy /\ unhealthy.failure = run.failure
    BY <1>1, Zenon DEF RunRecords
  <2>2. Edge(run, unhealthy)
    BY <1>1, <2>1 DEF Edge, Quiet
  <2>. QED
    BY <1>1, <1>3, <2>1, <2>2, UpdateKept
<1>4. ASSUME NEW st, Update(w, Healthy(st), "return"),
             \/ st = "aborted" /\ run.status = "abort_requested"
             \/ st = "failed" /\ run.status = "verifying_recovery"
             \/ st = "succeeded" /\ run.status = "verifying_recovery" /\ ~run.failure
      PROVE  Kept(w)' /\ Frame(w)
  <2>1. /\ Healthy(st).status = st /\ Healthy(st).version = run.version
        /\ Healthy(st).requestedBy = run.requestedBy
        /\ Healthy(st).approvedBy = run.approvedBy /\ Healthy(st).failure = run.failure
    BY <1>1, Zenon DEF RunRecords
  <2>2. Edge(run, Healthy(st))
    BY <1>1, <1>4, <2>1 DEF Edge, Quiet
  <2>. QED
    BY <1>1, <1>4, <2>1, <2>2, UpdateKept
<1>. QED
  BY <1>1, <1>2, <1>3, <1>4 DEF VerifyRecovery

-----------------------------------------------------------------------------
(* The steps that write the table.                                         *)

\* An accepted update makes every other copy of the run too old to be written,
\* and the worker that goes on holds the new row.
LEMMA CommitKept ==
  ASSUME TypeOK, CopiesGuarded, NEW w \in Workers, Commit(w)
  PROVE  CopiesGuarded'
<1>. DEFINE r == job[w].run
            run == [copy[w] EXCEPT !.version = copy[w].version + 1]
<1>1. /\ pc[w] = "commit" /\ pc[w] # "idle" /\ r \in Runs /\ copy[w] \in RunRecords
      /\ \A v \in Workers : Kept(v)
  BY BusyTypes DEF Commit, CopiesGuarded, Kept
<1>2. CASE ~Current(w)
  <2>1. Quit(w) /\ UNCHANGED store
    BY <1>2 DEF Commit
  <2>2. Kept(w)' /\ Frame(w)
    BY <2>1, QuitKept
  <2>. QED
    BY <1>1, <2>1, <2>2, FrameKept DEF CopiesGuarded, Kept
<1>3. CASE Current(w)
  <2>1. /\ store' = [store EXCEPT ![r] = run]
        /\ \/ Quit(w) \/ Return(w)
           \/ /\ job[w].then \in {"reconcile", "delete"}
              /\ pc' = [pc EXCEPT ![w] = job[w].then]
              /\ job' = [job EXCEPT ![w].op = "reconcile"]
              /\ copy' = [copy EXCEPT ![w] = run]
    BY <1>3 DEF Commit
  <2>2. copy[w].version \in Nat
    BY <1>1, Zenon DEF RunRecords
  <2>3. /\ run.version = copy[w].version + 1 /\ run.status = copy[w].status
    BY <1>1, Zenon DEF RunRecords
  <2>4. copy[w].status # "absent" /\ store[r].version = copy[w].version
    BY <1>1, <1>3 DEF Kept, Guarded, Edge, Current
  <2>5. store'[r] = run /\ \A q \in Runs \ {r} : store'[q] = store[q]
    BY <1>1, <2>1 DEF TypeOK
  <2>9. /\ store'[r].version = copy[w].version + 1 /\ store'[r].version \in Nat
        /\ store'[r].status # "absent"
    BY <2>2, <2>3, <2>4, <2>5
  <2>6. Frame(w)
    <3>1. CASE Quit(w)
      BY <3>1 DEF Quit, TypeOK, Frame
    <3>2. CASE Return(w)
      BY <3>2 DEF Return, Quit, TypeOK, Frame
    <3>3. CASE /\ pc' = [pc EXCEPT ![w] = job[w].then]
               /\ job' = [job EXCEPT ![w].op = "reconcile"]
               /\ copy' = [copy EXCEPT ![w] = run]
      BY <3>3 DEF TypeOK, Frame
    <3>. QED
      BY <2>1, <3>1, <3>2, <3>3
  <2>7. ASSUME NEW v \in Workers, v # w
        PROVE  Kept(v)'
    <3>1. pc'[v] = pc[v] /\ job'[v] = job[v] /\ copy'[v] = copy[v]
      BY <2>6, <2>7 DEF Frame
    <3>2. CASE pc[v] = "idle"
      BY <3>1, <3>2 DEF Kept, Guarded, Placed, InFlight
    <3>3. CASE pc[v] # "idle" /\ job[v].run # r
      <4>1. job[v].run \in Runs
        BY <3>3 DEF TypeOK
      <4>2. store'[job[v].run] = store[job[v].run]
        BY <3>3, <4>1, <2>5
      <4>. QED
        BY <1>1, <3>1, <4>2 DEF Kept, Guarded, Placed, Current
    <3>4. CASE pc[v] # "idle" /\ job[v].run = r
      <4>1. copy[v].version \in Nat
        <5>1. copy[v] \in RunRecords
          BY DEF TypeOK
        <5>. QED
          BY <5>1, Zenon DEF RunRecords
      <4>2. pc[v] \in InFlight \cup {"commit"} => copy[v].version < store'[r].version
        BY <1>1, <2>2, <2>4, <2>9, <3>4, <4>1 DEF Kept, Guarded
      <4>4. Guarded(v)'
        BY <2>9, <3>1, <3>4, <4>1, <4>2 DEF Guarded, Current
      <4>5. Placed(v)'
        BY <1>1, <3>1 DEF Kept, Placed
      <4>. QED
        BY <4>4, <4>5 DEF Kept
    <3>. QED
      BY <3>2, <3>3, <3>4
  <2>8. Kept(w)'
    <3>1. CASE Quit(w)
      BY <3>1, QuitKept
    <3>2. CASE Return(w) /\ job[w].op # "reconcile"
      <4>1. /\ pc'[w] = "act"
            /\ job'[w] = [NoJob EXCEPT !.run = job[w].run, !.op = job[w].op]
        BY <3>2 DEF Return, TypeOK
      <4>2. [NoJob EXCEPT !.run = job[w].run, !.op = job[w].op].run = r
        BY DEF NoJob
      <4>3. job'[w].run = r
        BY <4>1, <4>2
      <4>. QED
        BY <2>9, <4>1, <4>3 DEF Kept, Guarded, Placed, InFlight
    <3>3. CASE /\ job[w].then \in {"reconcile", "delete"}
               /\ pc' = [pc EXCEPT ![w] = job[w].then]
               /\ job' = [job EXCEPT ![w].op = "reconcile"]
               /\ copy' = [copy EXCEPT ![w] = run]
      <4>1. /\ pc'[w] = job[w].then /\ copy'[w] = run
            /\ job'[w] = [job[w] EXCEPT !.op = "reconcile"] /\ job[w] \in Jobs
        BY <3>3 DEF TypeOK
      <4>2. job'[w].run = r
        BY <4>1, Zenon DEF Jobs
      <4>3. copy'[w] = store'[r] /\ pc'[w] \in {"reconcile", "delete"}
        BY <2>5, <3>3, <4>1
      <4>4. Guarded(w)'
        BY <2>9, <4>2, <4>3 DEF Guarded, Current
      <4>5. /\ job[w].then = "reconcile" =>
                  run.status \in {"execution_requested", "abort_requested"}
            /\ job[w].then = "delete" => run.status = "cleanup_requested"
        BY <1>1, <2>3 DEF Kept, Placed
      <4>6. Placed(w)'
        BY <3>3, <4>1, <4>5 DEF Placed, chaosActive
      <4>. QED
        BY <4>4, <4>6 DEF Kept
    <3>. QED
      BY <2>1, <3>1, <3>2, <3>3 DEF Return
  <2>. QED
    BY <2>7, <2>8 DEF CopiesGuarded, Kept
<1>. QED
  BY <1>2, <1>3

\* A request adds a row that no worker has read.
LEMMA RequestKept ==
  ASSUME TypeOK, CopiesGuarded, NEW r \in Runs, NEW p \in Principals, Request(r, p)
  PROVE  CopiesGuarded'
<1>1. SUFFICES ASSUME NEW v \in Workers PROVE Kept(v)'
  BY DEF CopiesGuarded, Kept
<1>2. pc'[v] = pc[v] /\ job'[v] = job[v] /\ copy'[v] = copy[v] /\ Kept(v)
  BY DEF Request, CopiesGuarded, Kept
<1>3. CASE pc[v] = "idle"
  BY <1>2, <1>3 DEF Kept, Guarded, Placed, InFlight
<1>4. CASE pc[v] # "idle"
  <2>1. job[v].run \in Runs /\ job[v].run # r
    BY <1>2, <1>4 DEF TypeOK, Request, Kept, Guarded
  <2>2. store'[job[v].run] = store[job[v].run]
    BY <2>1 DEF Request, TypeOK
  <2>. QED
    BY <1>2, <2>2 DEF Kept, Guarded, Placed, Current
<1>. QED
  BY <1>3, <1>4

LEMMA EnvironmentKept ==
  ASSUME TypeOK, CopiesGuarded, Environment
  PROVE  CopiesGuarded'
<1>1. CASE UNCHANGED <<store, pc, job, copy>>
  BY <1>1 DEF CopiesGuarded, Guarded, Placed, Current
<1>2. CASE Restart
  <2>1. \A v \in Workers : pc'[v] = "idle"
    BY <1>2 DEF Restart
  <2>. QED
    BY <2>1 DEF CopiesGuarded, Guarded, Placed, InFlight
<1>. QED
  BY <1>1, <1>2 DEF Environment, Inject, FinishDelete, ExternalDelete, Tick

-----------------------------------------------------------------------------

LEMMA GuardedInit == Init => CopiesGuarded
  BY DEF Init, CopiesGuarded, Guarded, Placed, InFlight

LEMMA GuardedStep == TypeOK /\ CopiesGuarded /\ [Next]_vars => CopiesGuarded'
<1>. SUFFICES ASSUME TypeOK, CopiesGuarded, [Next]_vars PROVE CopiesGuarded'
  OBVIOUS
<1>1. CASE UNCHANGED vars
  BY <1>1 DEF vars, CopiesGuarded, Guarded, Placed, Current
<1>2. \A v \in Workers : Kept(v)
  BY DEF CopiesGuarded, Kept
<1>3. ASSUME NEW w \in Workers, Kept(w)', Frame(w), UNCHANGED store
      PROVE  CopiesGuarded'
  BY <1>2, <1>3, FrameKept DEF CopiesGuarded, Kept
<1>4. ASSUME NEW w \in Workers, NEW r \in Runs, NEW op \in Operations, Load(w, r, op)
      PROVE  CopiesGuarded'
  BY <1>3, <1>4, LoadKept DEF Load, cluster
<1>5. ASSUME NEW w \in Workers, Fail(w)
      PROVE  CopiesGuarded'
  BY <1>3, <1>5, QuitKept DEF Fail, cluster
<1>6. ASSUME NEW w \in Workers, Proceed(w)
      PROVE  CopiesGuarded'
  <2>1. CASE Commit(w)
    BY <2>1, CommitKept
  <2>2. ASSUME ~Commit(w) PROVE UNCHANGED store
    BY <1>6, <2>2 DEF Proceed, Decide, Execute, Abort, Reconcile, DryRun, Create,
          Observe, ExistsExecutionRequested, ExistsRunning, ExistsDeleted,
          ExistsVerifying, Delete, VerifyRecovery, cluster
  <2>3. CASE ~Commit(w)
    <3>1. Kept(w)' /\ Frame(w)
      BY <1>2, <1>6, <2>3, DecideKept, ExecuteKept, AbortKept, ReconcileKept, StartKept,
         ObserveKept, ExistsKept, DeleteKept, VerifyRecoveryKept DEF Proceed
    <3>. QED
      BY <1>3, <2>2, <2>3, <3>1
  <2>. QED
    BY <2>1, <2>3
<1>. QED
  BY <1>1, <1>4, <1>5, <1>6, RequestKept, EnvironmentKept DEF Next

\* The compare-and-swap of UpdateChaosRun protects every run from stale copies,
\* whatever the number of workers and however long each is delayed.
THEOREM CopiesGuardedAlways == Spec => []CopiesGuarded
<1>1. Init => TypeOK /\ CopiesGuarded
  BY TypeInit, GuardedInit
<1>2. TypeOK /\ CopiesGuarded /\ [Next]_vars => TypeOK' /\ CopiesGuarded'
  BY TypeStep, GuardedStep
<1>. QED
  BY <1>1, <1>2, PTL DEF Spec

-----------------------------------------------------------------------------
(* The refinement.                                                         *)

\* Writing one row changes the visible part of that run only.
LEMMA WriteVisible ==
  ASSUME TypeOK, NEW r \in Runs, NEW row, store' = [store EXCEPT ![r] = row]
  PROVE  /\ lifecycle' = [lifecycle EXCEPT ![r] = Visible(row)]
         /\ lifecycle[r] = Visible(store[r])
  BY DEF TypeOK, lifecycle

\* A lifecycle edge of one row is a step of ChaosLifecycle.
LEMMA EdgeStep ==
  ASSUME NEW r \in Runs, NEW old, NEW new, Edge(old, new),
         lifecycle[r] = Visible(old),
         lifecycle' = [lifecycle EXCEPT ![r] = Visible(new)]
  PROVE  Lifecycle!Next \/ UNCHANGED lifecycle
<1>. DEFINE row == lifecycle[r]
<1>1. /\ row.status = old.status /\ row.requestedBy = old.requestedBy
      /\ row.approvedBy = old.approvedBy /\ row.failure = old.failure
      /\ row = [status |-> old.status, requestedBy |-> old.requestedBy,
                approvedBy |-> old.approvedBy, failure |-> old.failure]
  BY DEF Visible
<1>2. Visible(new) = [status |-> new.status, requestedBy |-> old.requestedBy,
                      approvedBy |-> new.approvedBy, failure |-> new.failure]
  BY DEF Visible, Edge
<1>3. CASE /\ new.approvedBy = old.approvedBy /\ new.failure = old.failure
           /\ new.status = old.status
  BY <1>1, <1>2, <1>3 DEF lifecycle
<1>4. CASE /\ new.approvedBy = old.approvedBy /\ new.failure = old.failure
           /\ \/ Quiet(old.status, new.status)
              \/ /\ ~old.failure
                 /\ old.status = "verifying_recovery" /\ new.status = "succeeded"
  <2>1. lifecycle' = [lifecycle EXCEPT ![r].status = new.status]
    BY <1>1, <1>2, <1>4
  <2>2. ASSUME NEW From, old.status \in From
        PROVE  Lifecycle!Step(r, From, new.status)
    BY <1>1, <2>1, <2>2 DEF Lifecycle!Step
  <2>3. CASE /\ old.status \in {"pending_approval", "approved"}
             /\ new.status \in {"expired", "aborted"}
    BY <2>2, <2>3 DEF Lifecycle!Next, Lifecycle!Expire, Lifecycle!Abort
  <2>4. CASE old.status = "approved" /\ new.status = "execution_requested"
    BY <2>2, <2>4 DEF Lifecycle!Next, Lifecycle!Execute
  <2>5. CASE /\ old.status \in chaosActive \ {"abort_requested"}
             /\ new.status = "abort_requested"
    BY <2>2, <2>5 DEF Lifecycle!Next, Lifecycle!Abort, Lifecycle!Active, chaosActive
  <2>6. CASE old.status = "execution_requested" /\ new.status \in {"running", "failed"}
    BY <2>2, <2>6 DEF Lifecycle!Next, Lifecycle!Run, Lifecycle!GiveUp
  <2>7. CASE old.status = "running" /\ new.status = "cleanup_requested"
    BY <2>2, <2>7 DEF Lifecycle!Next, Lifecycle!Cleanup
  <2>8. CASE old.status = "cleanup_requested" /\ new.status = "verifying_recovery"
    BY <2>2, <2>8 DEF Lifecycle!Next, Lifecycle!Verify
  <2>9. CASE /\ old.status \in {"verifying_recovery", "abort_requested"}
             /\ new.status = "failed"
    BY <2>2, <2>9 DEF Lifecycle!Next, Lifecycle!Finish
  <2>10. CASE old.status = "abort_requested" /\ new.status = "aborted"
    BY <2>2, <2>10 DEF Lifecycle!Next, Lifecycle!Finish
  <2>11. CASE /\ ~old.failure /\ old.status = "verifying_recovery"
              /\ new.status = "succeeded"
    BY <1>1, <2>2, <2>11 DEF Lifecycle!Next, Lifecycle!Finish
  <2>. QED
    BY <1>3, <1>4, <2>3, <2>4, <2>5, <2>6, <2>7, <2>8, <2>9, <2>10, <2>11 DEF Quiet
<1>5. CASE /\ new.approvedBy = old.approvedBy /\ new.failure = TRUE
           /\ \/ old.status = "execution_requested" /\ new.status = "cleanup_requested"
              \/ /\ old.status \in {"execution_requested", "running"}
                 /\ new.status = "verifying_recovery"
  <2>1. lifecycle' = [lifecycle EXCEPT ![r].status = new.status, ![r].failure = TRUE]
    BY <1>1, <1>2, <1>5
  <2>. QED
    BY <1>1, <1>5, <2>1 DEF Lifecycle!Next, Lifecycle!Cleanup, Lifecycle!Verify,
       Lifecycle!FailingStep
<1>6. CASE /\ new.approvedBy \in Principals /\ new.approvedBy # old.requestedBy
           /\ new.failure = old.failure
           /\ old.status = "pending_approval" /\ new.status \in {"approved", "rejected"}
  <2>1. lifecycle' = [lifecycle EXCEPT ![r].status = new.status,
                                       ![r].approvedBy = new.approvedBy]
    BY <1>1, <1>2, <1>6
  <2>2. Lifecycle!Decide(r, new.approvedBy)
    BY <1>1, <1>6, <2>1 DEF Lifecycle!Decide
  <2>. QED
    BY <1>6, <2>2 DEF Lifecycle!Next
<1>. QED
  BY <1>4, <1>5, <1>6 DEF Edge

LEMMA RequestLifecycle ==
  ASSUME TypeOK, NEW r \in Runs, NEW p \in Principals, Request(r, p)
  PROVE  Lifecycle!Next
<1>. DEFINE Seen(st) == [status |-> st, requestedBy |-> p, approvedBy |-> None,
                         failure |-> FALSE]
<1>1. PICK st \in {"pending_approval", "preflight_validated"} :
         lifecycle' = [lifecycle EXCEPT ![r] = Seen(st)]
  <2>. DEFINE pending == [NoRun EXCEPT !.status = "pending_approval", !.version = 1,
                                       !.requestedBy = p,
                                       !.approvalExpiresAt = clock + ApprovalTTL]
              report == [NoRun EXCEPT !.status = "preflight_validated", !.version = 1,
                                      !.requestedBy = p]
  <2>1. Visible(pending) = Seen("pending_approval")
    BY DEF Visible, NoRun
  <2>2. Visible(report) = Seen("preflight_validated")
    BY DEF Visible, NoRun
  <2>3. \/ store' = [store EXCEPT ![r] = pending]
        \/ store' = [store EXCEPT ![r] = report]
    BY DEF Request
  <2>4. \/ lifecycle' = [lifecycle EXCEPT ![r] = Visible(pending)]
        \/ lifecycle' = [lifecycle EXCEPT ![r] = Visible(report)]
    BY <2>3, WriteVisible
  <2>. QED
    BY <2>1, <2>2, <2>4
<1>2. lifecycle[r].status = "absent"
  BY DEF Request, lifecycle, Visible
<1>3. Lifecycle!Request(r, p)
  BY <1>1, <1>2 DEF Lifecycle!Request
<1>. QED
  BY <1>3 DEF Lifecycle!Next

LEMMA LifecycleStep ==
  TypeOK /\ CopiesGuarded /\ [Next]_vars => [Lifecycle!Next]_lifecycle
<1>. SUFFICES ASSUME TypeOK, CopiesGuarded, [Next]_vars
              PROVE  Lifecycle!Next \/ UNCHANGED lifecycle
  OBVIOUS
<1>1. CASE UNCHANGED store
  BY <1>1 DEF lifecycle
<1>2. ASSUME NEW r \in Runs, NEW p \in Principals, Request(r, p)
      PROVE  Lifecycle!Next
  BY <1>2, RequestLifecycle
<1>3. ASSUME NEW w \in Workers, Commit(w), ~UNCHANGED store
      PROVE  Lifecycle!Next \/ UNCHANGED lifecycle
  <2>. DEFINE r == job[w].run
              row == [copy[w] EXCEPT !.version = copy[w].version + 1]
  <2>1. /\ Current(w) /\ store' = [store EXCEPT ![r] = row]
        /\ r \in Runs /\ copy[w] \in RunRecords
    BY <1>3, BusyTypes DEF Commit
  <2>2. Edge(store[r], copy[w])
    BY <1>3, <2>1 DEF CopiesGuarded, Guarded, Commit
  <2>3. /\ row.status = copy[w].status /\ row.requestedBy = copy[w].requestedBy
        /\ row.approvedBy = copy[w].approvedBy /\ row.failure = copy[w].failure
    BY <2>1, Zenon DEF RunRecords
  <2>4. Visible(row) = Visible(copy[w])
    BY <2>3, Zenon DEF Visible
  <2>5. /\ lifecycle' = [lifecycle EXCEPT ![r] = Visible(row)]
        /\ lifecycle[r] = Visible(store[r])
    BY <2>1, WriteVisible
  <2>6. lifecycle' = [lifecycle EXCEPT ![r] = Visible(copy[w])]
    BY <2>4, <2>5, Zenon
  <2>. QED
    BY <2>1, <2>2, <2>5, <2>6, EdgeStep
<1>4. ASSUME NEW w \in Workers, Proceed(w), ~Commit(w)
      PROVE  UNCHANGED store
  BY <1>4 DEF Proceed, Decide, Execute, Abort, Reconcile, DryRun, Create,
        Observe, ExistsExecutionRequested, ExistsRunning, ExistsDeleted,
        ExistsVerifying, Delete, VerifyRecovery, cluster
<1>5. ASSUME NEW w \in Workers, NEW r \in Runs, NEW op \in Operations, Load(w, r, op)
      PROVE  UNCHANGED store
  BY <1>5 DEF Load, cluster
<1>6. ASSUME NEW w \in Workers, Fail(w)
      PROVE  UNCHANGED store
  BY <1>6 DEF Fail, cluster
<1>7. CASE Environment \/ UNCHANGED vars
  BY <1>1, <1>7 DEF Environment, Inject, FinishDelete, ExternalDelete, Tick, Restart, vars
<1>. QED
  BY <1>1, <1>2, <1>3, <1>4, <1>5, <1>6, <1>7 DEF Next

LEMMA LifecycleInit == Init => Lifecycle!Init
<1>. SUFFICES ASSUME Init PROVE Lifecycle!Init
  OBVIOUS
<1>1. Visible(NoRun) = Lifecycle!NoRun
  BY DEF Visible, NoRun, Lifecycle!NoRun
<1>. QED
  BY <1>1 DEF Init, lifecycle, Lifecycle!Init

\* The manager implements the lifecycle: whatever the number of workers, of
\* restarts and of failed calls, a run moves only along the promised edges, so
\* no verdict is ever taken back and nothing executes without the approval of a
\* second principal.
THEOREM LifecycleRefined == Spec => LifecycleSpec
<1>1. Init => TypeOK /\ CopiesGuarded /\ Lifecycle!Init
  BY TypeInit, GuardedInit, LifecycleInit
<1>2. TypeOK /\ CopiesGuarded /\ [Next]_vars =>
         TypeOK' /\ CopiesGuarded' /\ [Lifecycle!Next]_lifecycle
  BY TypeStep, GuardedStep, LifecycleStep
<1>. QED
  BY <1>1, <1>2, PTL DEF Spec, LifecycleSpec, Lifecycle!Spec
=============================================================================
