------------------------- MODULE ChaosOutcomeProofs -------------------------
(***************************************************************************)
(* What the row of a run says about its end is true: a start time means    *)
(* that Chaos Mesh reported the injection, the wait for the targets has a  *)
(* deadline, and a run succeeds only when its duration is over.            *)
(*                                                                         *)
(* The argument needs no version check: what a row says stays true when    *)
(* time passes and more is injected, so a copy, however stale, says the    *)
(* truth as well, and each handler turns a true copy into a true copy.     *)
(***************************************************************************)
EXTENDS ChaosRefinementProofs

-----------------------------------------------------------------------------
(* The inductive invariant *)

\* What a row of the run r says is true at the time now, when the objects of the
\* runs in seen have been injected.  A run that is cleaned up or verified without
\* a failure has lasted for its whole duration.
Sound(row, r, now, seen) ==
    /\ row.startedAt # Unset => r \in seen
    /\ row.status = "running" => row.startedAt # Unset
    /\ row.status \in chaosActive \ {"execution_requested"} => row.recoveryDeadline # Unset
    /\ row.status \in {"running", "cleanup_requested"} => row.cleanupDeadline # Unset
    /\ row.status \in {"cleanup_requested", "verifying_recovery"} /\ ~row.failure =>
         /\ row.startedAt # Unset /\ now >= row.startedAt + Duration
         /\ row.cleanupDeadline # Unset
    /\ row.status = "succeeded" =>
         /\ row.startedAt # Unset /\ now >= row.startedAt + Duration
         /\ ~row.failure /\ row.recovery = "healthy"

\* The steps that use the clock as reconcileOne read it.
Timed == {"exists", "dryRun", "create", "observe"}

SoundWorker(w) ==
    /\ Sound(copy[w], job[w].run, clock, injected)
    /\ pc[w] \in Timed => job[w].now # 0 /\ job[w].now <= clock

\* The condition of an object is recorded in the history.
ObjectsInjected == \A n \in Names : resource[n].injected => resource[n].owner \in injected

OutcomeInv ==
    /\ \A r \in Runs : Sound(store[r], r, clock, injected)
    /\ \A w \in Workers : SoundWorker(w)
    /\ ObjectsInjected

-----------------------------------------------------------------------------
(* Rows *)

\* A row that is finished, or does not wait for anything, says little.
Plain == {"absent", "preflight_validated", "pending_approval", "approved", "rejected",
          "expired", "execution_requested", "failed", "aborted"}

LEMMA PlainSound ==
  ASSUME NEW row, NEW r, NEW now, NEW seen, row.status \in Plain, row.startedAt # Unset => r \in seen
  PROVE  Sound(row, r, now, seen)
  BY DEF Sound, Plain, chaosActive

LEMMA BlankSound == ASSUME NEW r, NEW now, NEW seen PROVE Sound(NoRun, r, now, seen)
<1>1. NoRun.status = "absent" /\ NoRun.startedAt = Unset
  BY DEF NoRun
<1>. QED
  BY <1>1, PlainSound DEF Plain

\* Time and history only add to what is true.
LEMMA SoundLater ==
  ASSUME NEW row \in RunRecords, NEW r, NEW now \in Nat, NEW later \in Nat, now <= later,
         NEW seen, NEW more, seen \subseteq more, Sound(row, r, now, seen)
  PROVE  Sound(row, r, later, more)
<1>1. row.startedAt \in Nat /\ Duration \in Nat
  BY ChaosAssumption, Zenon DEF RunRecords
<1>. QED
  BY <1>1 DEF Sound

-----------------------------------------------------------------------------
(* The control of a worker *)

\* The steps of workers leave the clock and the history alone.
Still == UNCHANGED <<clock, injected>>

LEMMA QuitSound ==
  ASSUME TypeOK, NEW w \in Workers, Quit(w), Still
  PROVE  SoundWorker(w)'
<1>1. pc'[w] = "idle" /\ copy'[w] = NoRun
  BY DEF Quit, TypeOK
<1>2. Sound(NoRun, job'[w].run, clock', injected')
  BY BlankSound
<1>. QED
  BY <1>1, <1>2 DEF SoundWorker, Still, Timed

LEMMA ReturnSound ==
  ASSUME TypeOK, NEW w \in Workers, Return(w), Still
  PROVE  SoundWorker(w)'
<1>1. CASE job[w].op = "reconcile"
  BY <1>1, QuitSound DEF Return
<1>2. CASE job[w].op # "reconcile"
  <2>1. pc'[w] = "act" /\ copy'[w] = NoRun
    BY <1>2 DEF Return, TypeOK
  <2>2. Sound(NoRun, job'[w].run, clock', injected')
    BY BlankSound
  <2>. QED
    BY <2>1, <2>2 DEF SoundWorker, Still, Timed
<1>. QED
  BY <1>1, <1>2

LEMMA GotoSound ==
  ASSUME TypeOK, NEW w \in Workers, NEW label, Goto(w, label), Still, SoundWorker(w),
         label \in Timed => pc[w] \in Timed
  PROVE  SoundWorker(w)'
<1>1. pc'[w] = label /\ job'[w] = job[w] /\ copy'[w] = copy[w]
  BY DEF Goto, TypeOK
<1>. QED
  BY <1>1 DEF SoundWorker, Still

LEMMA UpdateSound ==
  ASSUME TypeOK, NEW w \in Workers, NEW run, NEW then, Update(w, run, then), Still,
         Sound(run, job[w].run, clock, injected)
  PROVE  SoundWorker(w)'
<1>1. pc'[w] = "commit" /\ copy'[w] = run /\ job'[w].run = job[w].run
  BY UpdateEffect
<1>. QED
  BY <1>1 DEF SoundWorker, Still, Timed

LEMMA OthersSound ==
  ASSUME NEW w \in Workers, Frame(w), Still, SoundWorker(w)', OutcomeInv
  PROVE  \A v \in Workers : SoundWorker(v)'
<1>1. \A v \in Workers \ {w} : SoundWorker(v)'
  BY DEF Frame, Still, OutcomeInv, SoundWorker
<1>. QED
  BY <1>1

-----------------------------------------------------------------------------
(* The handlers: each turns a true row into a true row.                    *)

\* What the proofs below start from.
Truthful == TypeOK /\ CopiesGuarded /\ OutcomeInv

LEMMA ExpireSound ==
  ASSUME TypeOK, NEW w \in Workers, NEW run \in RunRecords, NEW then, expire(w, run, then), Still,
         Sound(run, job[w].run, clock, injected)
  PROVE  SoundWorker(w)'
<1>. DEFINE row == [run EXCEPT !.status = "expired"]
<1>1. row.status = "expired" /\ row.startedAt = run.startedAt
  BY Zenon DEF RunRecords
<1>2. Update(w, row, then)
  BY DEF expire
<1>. HIDE DEF row
<1>3. Sound(row, job[w].run, clock, injected)
  BY <1>1, PlainSound DEF Sound, Plain
<1>. QED
  BY <1>2, <1>3, UpdateSound

LEMMA HandlersSound ==
  ASSUME Truthful, NEW w \in Workers,
         \/ \E p \in Principals : Decide(w, p)
         \/ Execute(w) \/ Abort(w)
  PROVE  SoundWorker(w)'
<1>1. /\ job[w].run \in Runs /\ store[job[w].run] \in RunRecords /\ clock \in Nat /\ Still
      /\ clock # 0 /\ TypeOK
  <2>1. pc[w] # "idle" /\ TypeOK
    BY DEF Decide, Execute, Abort, Truthful
  <2>2. clock # 0
    BY <2>1 DEF TypeOK
  <2>. QED
    BY <2>1, <2>2, BusyTypes DEF Decide, Execute, Abort, cluster, Still
<1>. DEFINE run == store[job[w].run]
            limit == clock + CleanupGrace + RecoveryWindow
            decided(p, st) == [run EXCEPT !.approvedBy = p, !.status = st]
            moved(st) == [run EXCEPT !.status = st]
            aborting == [run EXCEPT !.status = "abort_requested", !.recoveryDeadline = limit]
<1>2. Sound(run, job[w].run, clock, injected)
  BY <1>1 DEF Truthful, OutcomeInv
<1>3. run.startedAt # Unset => job[w].run \in injected
  BY <1>2 DEF Sound
<1>4. ASSUME NEW p, NEW st \in Plain
      PROVE  /\ Sound(decided(p, st), job[w].run, clock, injected)
             /\ Sound(moved(st), job[w].run, clock, injected)
  <2>1. /\ decided(p, st).status = st /\ decided(p, st).startedAt = run.startedAt
        /\ moved(st).status = st /\ moved(st).startedAt = run.startedAt
    BY <1>1, Zenon DEF RunRecords
  <2>. QED
    BY <1>3, <2>1, PlainSound
<1>5. Sound(aborting, job[w].run, clock, injected)
  <2>1. /\ aborting.status = "abort_requested" /\ aborting.startedAt = run.startedAt
        /\ aborting.recoveryDeadline = limit
    BY <1>1, Zenon DEF RunRecords
  <2>2. limit # 0
    BY <1>1, ChaosAssumption
  <2>. QED
    BY <1>3, <2>1, <2>2 DEF Sound, Unset
<1>6. /\ "approved" \in Plain /\ "rejected" \in Plain /\ "aborted" \in Plain
      /\ "execution_requested" \in Plain
  BY DEF Plain
<1>7. ASSUME NEW p \in Principals, Decide(w, p) PROVE SoundWorker(w)'
  <2>1. PICK st \in Plain : st = IF job[w].op = "approve" THEN "approved" ELSE "rejected"
    BY <1>6
  <2>2. Quit(w) \/ expire(w, run, "answer") \/ Update(w, decided(p, st), "answer")
    BY <1>7, <2>1 DEF Decide
  <2>. HIDE DEF decided, run
  <2>. QED
    BY <1>1, <1>2, <1>4, <2>2, QuitSound, ExpireSound, UpdateSound DEF run
<1>8. CASE Execute(w)
  <2>1. \/ Quit(w) \/ expire(w, run, "answer")
        \/ Update(w, moved("execution_requested"), "reconcile")
    BY <1>8 DEF Execute
  <2>. HIDE DEF moved
  <2>. QED
    BY <1>1, <1>2, <1>4, <1>6, <2>1, QuitSound, ExpireSound, UpdateSound
<1>9. CASE Abort(w)
  <2>1. \/ Quit(w) \/ Update(w, moved("aborted"), "answer") \/ Update(w, aborting, "reconcile")
    BY <1>9 DEF Abort
  <2>. HIDE DEF moved, aborting
  <2>. QED
    BY <1>1, <1>4, <1>5, <1>6, <2>1, QuitSound, UpdateSound
<1>. QED
  BY <1>7, <1>8, <1>9

\* What a worker in reconcileOne holds.
LEMMA InFlightSound ==
  ASSUME Truthful, NEW w \in Workers, pc[w] \in InFlight
  PROVE  /\ TypeOK /\ Placed(w) /\ SoundWorker(w)
         /\ job[w].run \in Runs /\ copy[w] \in RunRecords /\ job[w].now \in Nat
         /\ clock \in Nat /\ clock # 0
         /\ Sound(copy[w], job[w].run, clock, injected)
         /\ copy[w].startedAt # Unset => job[w].run \in injected
<1>1. pc[w] # "idle" /\ TypeOK
  BY DEF Truthful, InFlight
<1>2. clock # 0
  BY <1>1 DEF TypeOK
<1>3. Placed(w) /\ SoundWorker(w)
  BY DEF Truthful, CopiesGuarded, OutcomeInv
<1>. QED
  BY <1>1, <1>2, <1>3, BusyTypes DEF SoundWorker, Sound

LEMMA ReconcileSound ==
  ASSUME Truthful, NEW w \in Workers, Reconcile(w)
  PROVE  SoundWorker(w)'
<1>1. Still /\ pc[w] \in InFlight
  BY DEF Reconcile, cluster, Still, InFlight
<1>2. CASE copy[w].status = "pending_approval"
  <2>1. expire(w, copy[w], "return") \/ Return(w)
    BY <1>2 DEF Reconcile, chaosActive
  <2>. QED
    BY <1>1, <2>1, InFlightSound, ExpireSound, ReturnSound
<1>3. CASE copy[w].status # "pending_approval"
  <2>1. job' = [job EXCEPT ![w].now = clock] /\ UNCHANGED copy
    BY <1>3 DEF Reconcile
  <2>2. job'[w] = [job[w] EXCEPT !.now = clock] /\ job[w] \in Jobs
    BY <1>1, <2>1, InFlightSound DEF TypeOK
  <2>3. job'[w].run = job[w].run /\ job'[w].now = clock
    BY <2>2, Zenon DEF Jobs
  <2>. QED
    BY <1>1, <2>1, <2>3, InFlightSound DEF SoundWorker, Still
<1>. QED
  BY <1>2, <1>3

LEMMA DisappearedSound ==
  ASSUME Truthful, NEW w \in Workers, pc[w] = "exists", Disappeared(w), Still
  PROVE  SoundWorker(w)'
<1>. DEFINE limit == job[w].now + RecoveryWindow
            row == [copy[w] EXCEPT !.status = "verifying_recovery", !.failure = TRUE,
                                   !.recoveryDeadline = limit]
<1>1. pc[w] \in InFlight
  BY DEF InFlight
<1>2. /\ row.status = "verifying_recovery" /\ row.failure = TRUE
      /\ row.recoveryDeadline = limit /\ row.startedAt = copy[w].startedAt
  BY <1>1, InFlightSound, Zenon DEF RunRecords
<1>3. limit # 0
  BY <1>1, InFlightSound, ChaosAssumption DEF SoundWorker, Timed
<1>4. Update(w, row, "return")
  BY DEF Disappeared
<1>. HIDE DEF row
<1>5. Sound(row, job[w].run, clock, injected)
  BY <1>1, <1>2, <1>3, InFlightSound DEF Sound, Unset
<1>. QED
  BY <1>1, <1>4, <1>5, InFlightSound, UpdateSound

LEMMA StartSound ==
  ASSUME Truthful, NEW w \in Workers, pc[w] \in {"exists", "dryRun", "create"},
         copy[w].status = "execution_requested",
         Acknowledge(w) \/ StartFailed(w), Still
  PROVE  SoundWorker(w)'
<1>. DEFINE limit == job[w].now + InjectionWindow
            acknowledged == [copy[w] EXCEPT !.injectionDeadline = limit]
            n == copy[w].attempts + 1
            st == IF n >= MaxAttempts THEN "failed" ELSE copy[w].status
            failed == [copy[w] EXCEPT !.attempts = n, !.status = st]
<1>1. pc[w] \in InFlight
  BY DEF InFlight
<1>2. st \in Plain /\ copy[w].status \in Plain
  BY DEF Plain
<1>3. /\ acknowledged.status = copy[w].status /\ acknowledged.startedAt = copy[w].startedAt
      /\ failed.status = st /\ failed.startedAt = copy[w].startedAt
  BY <1>1, InFlightSound, Zenon DEF RunRecords
<1>4. Update(w, acknowledged, "return") \/ Update(w, failed, "return")
  BY DEF Acknowledge, StartFailed
<1>. HIDE DEF acknowledged, failed, st
<1>5. /\ Sound(acknowledged, job[w].run, clock, injected)
      /\ Sound(failed, job[w].run, clock, injected)
  BY <1>1, <1>2, <1>3, InFlightSound, PlainSound
<1>. QED
  BY <1>1, <1>4, <1>5, InFlightSound, UpdateSound

LEMMA ObserveSound ==
  ASSUME Truthful, NEW w \in Workers, Observe(w)
  PROVE  SoundWorker(w)'
<1>. DEFINE now == job[w].now
            run == copy[w]
            end == now + Duration + CleanupGrace
            started == [run EXCEPT !.status = "running", !.startedAt = now,
                            !.cleanupDeadline = end,
                            !.recoveryDeadline = end + RecoveryWindow]
            late == [run EXCEPT !.status = "cleanup_requested", !.failure = TRUE,
                            !.cleanupDeadline = now + CleanupGrace,
                            !.recoveryDeadline = now + CleanupGrace + RecoveryWindow]
<1>1. pc[w] \in InFlight /\ pc[w] \in Timed /\ Still
  BY DEF Observe, InFlight, Timed, cluster, Still
<1>2. /\ now # 0 /\ now \in Nat /\ end # 0 /\ end + RecoveryWindow # 0
      /\ now + CleanupGrace # 0 /\ now + CleanupGrace + RecoveryWindow # 0
  BY <1>1, InFlightSound, ChaosAssumption DEF SoundWorker
<1>3. /\ started.status = "running" /\ started.startedAt = now
      /\ started.recoveryDeadline = end + RecoveryWindow /\ started.cleanupDeadline = end
      /\ late.status = "cleanup_requested" /\ late.failure = TRUE
      /\ late.startedAt = run.startedAt
      /\ late.recoveryDeadline = now + CleanupGrace + RecoveryWindow
      /\ late.cleanupDeadline = now + CleanupGrace
  BY <1>1, InFlightSound, Zenon DEF RunRecords
<1>4. \/ Quit(w) \/ Return(w) \/ Update(w, run, "return")
      \/ Owned(w) /\ AllInjected(w) /\ Update(w, started, "return")
      \/ Update(w, late, "return")
  BY DEF Observe
<1>. HIDE DEF started, late
<1>5. ASSUME Owned(w), AllInjected(w) PROVE Sound(started, job[w].run, clock, injected)
  <2>1. job[w].run \in injected
    <3>1. ResourceOf[job[w].run] \in Names
      BY <1>1, InFlightSound, ChaosAssumption
    <3>. QED
      BY <1>5, <3>1 DEF Owned, AllInjected, Object, Truthful, OutcomeInv, ObjectsInjected
  <2>. QED
    BY <1>2, <1>3, <2>1 DEF Sound, Unset
<1>6. Sound(late, job[w].run, clock, injected)
  BY <1>1, <1>2, <1>3, InFlightSound DEF Sound, Unset
<1>. QED
  BY <1>1, <1>4, <1>5, <1>6, InFlightSound, QuitSound, ReturnSound, UpdateSound

LEMMA ExistsSound ==
  ASSUME Truthful, NEW w \in Workers,
         \/ ExistsExecutionRequested(w) \/ ExistsRunning(w)
         \/ ExistsDeleted(w) \/ ExistsVerifying(w)
  PROVE  SoundWorker(w)'
<1>1. pc[w] \in InFlight /\ Still
  BY DEF ExistsExecutionRequested, ExistsRunning, ExistsDeleted, ExistsVerifying, InFlight,
         cluster, Still
<1>2. CASE ExistsExecutionRequested(w)
  <2>1. /\ pc[w] = "exists" /\ copy[w].status = "execution_requested"
        /\ \/ Quit(w) \/ Disappeared(w) \/ Acknowledge(w)
           \/ Goto(w, "dryRun") \/ Goto(w, "observe")
    BY <1>2 DEF ExistsExecutionRequested
  <2>. QED
    BY <1>1, <2>1, InFlightSound, QuitSound, DisappearedSound, StartSound, GotoSound DEF Timed
<1>3. CASE ExistsRunning(w)
  <2>. DEFINE row == [copy[w] EXCEPT !.status = "cleanup_requested"]
  <2>1. /\ pc[w] = "exists" /\ copy[w].status = "running"
        /\ \/ Quit(w) \/ Return(w) \/ Disappeared(w)
           \/ job[w].now >= copy[w].startedAt + Duration /\ Update(w, row, "delete")
    BY <1>3 DEF ExistsRunning
  <2>2. /\ row.status = "cleanup_requested" /\ row.startedAt = copy[w].startedAt
        /\ row.recoveryDeadline = copy[w].recoveryDeadline
        /\ row.cleanupDeadline = copy[w].cleanupDeadline
    BY <1>1, InFlightSound, Zenon DEF RunRecords
  <2>. HIDE DEF row
  <2>3. ASSUME job[w].now >= copy[w].startedAt + Duration
        PROVE  Sound(row, job[w].run, clock, injected)
    <3>1. job[w].now <= clock /\ job[w].now \in Nat /\ clock \in Nat
      BY <1>1, <2>1, InFlightSound DEF SoundWorker, Timed
    <3>2. copy[w].startedAt \in Nat
      BY <1>1, InFlightSound, Zenon DEF RunRecords
    <3>3. clock >= copy[w].startedAt + Duration
      BY <2>3, <3>1, <3>2, ChaosAssumption
    <3>4. /\ copy[w].startedAt # Unset /\ copy[w].recoveryDeadline # Unset
          /\ copy[w].cleanupDeadline # Unset
      BY <1>1, <2>1, InFlightSound DEF Sound, chaosActive
    <3>. QED
      BY <1>1, <2>2, <3>3, <3>4, InFlightSound DEF Sound
  <2>. QED
    BY <1>1, <2>1, <2>3, InFlightSound, QuitSound, ReturnSound, DisappearedSound, UpdateSound
<1>4. CASE ExistsDeleted(w)
  <2>. DEFINE row == [copy[w] EXCEPT !.status = "verifying_recovery"]
  <2>1. \/ Quit(w) \/ Return(w) \/ Goto(w, "recovery")
        \/ copy[w].status = "cleanup_requested" /\ Update(w, row, "return")
    BY <1>4 DEF ExistsDeleted
  <2>2. /\ row.status = "verifying_recovery" /\ row.startedAt = copy[w].startedAt
        /\ row.recoveryDeadline = copy[w].recoveryDeadline /\ row.failure = copy[w].failure
        /\ row.cleanupDeadline = copy[w].cleanupDeadline
    BY <1>1, InFlightSound, Zenon DEF RunRecords
  <2>. HIDE DEF row
  <2>3. copy[w].status = "cleanup_requested" => Sound(row, job[w].run, clock, injected)
    BY <1>1, <2>2, InFlightSound DEF Sound, chaosActive
  <2>. QED
    BY <1>1, <2>1, <2>3, InFlightSound, QuitSound, ReturnSound, GotoSound, UpdateSound DEF Timed
<1>5. CASE ExistsVerifying(w)
  <2>1. Quit(w) \/ Return(w) \/ Goto(w, "recovery") \/ Goto(w, "delete")
    BY <1>5 DEF ExistsVerifying
  <2>. QED
    BY <1>1, <2>1, InFlightSound, QuitSound, ReturnSound, GotoSound DEF Timed
<1>. QED
  BY <1>2, <1>3, <1>4, <1>5

LEMMA VerifyRecoverySound ==
  ASSUME Truthful, NEW w \in Workers, VerifyRecovery(w)
  PROVE  SoundWorker(w)'
<1>. DEFINE run == copy[w]
            aborting == run.status = "abort_requested"
            st == CASE aborting -> "aborted" [] ~aborting /\ run.failure -> "failed"
                    [] OTHER -> "succeeded"
            healthy == [run EXCEPT !.recovery = "healthy", !.status = st]
            unhealthy == [run EXCEPT !.recovery = "unhealthy", !.status = "failed"]
<1>1. pc[w] \in InFlight /\ Still /\ pc[w] = "recovery"
  BY DEF VerifyRecovery, InFlight, cluster, Still
<1>2. /\ healthy.status = st /\ healthy.recovery = "healthy"
      /\ healthy.startedAt = run.startedAt /\ healthy.failure = run.failure
      /\ unhealthy.status = "failed" /\ unhealthy.startedAt = run.startedAt
  BY <1>1, InFlightSound, Zenon DEF RunRecords
<1>3. Update(w, healthy, "return") \/ Update(w, unhealthy, "return") \/ Return(w)
  BY DEF VerifyRecovery
<1>4. st \in Plain \/ (st = "succeeded" /\ ~aborting /\ ~run.failure)
  <2>1. run.failure \in BOOLEAN
    BY <1>1, InFlightSound, Zenon DEF RunRecords
  <2>. QED
    BY <2>1 DEF Plain
<1>. HIDE DEF healthy, unhealthy
<1>5. Sound(unhealthy, job[w].run, clock, injected)
  BY <1>1, <1>2, InFlightSound, PlainSound DEF Plain
<1>6. CASE st \in Plain
  <2>1. Sound(healthy, job[w].run, clock, injected)
    BY <1>1, <1>2, <1>6, InFlightSound, PlainSound
  <2>. QED
    BY <1>1, <1>3, <1>5, <2>1, InFlightSound, ReturnSound, UpdateSound
<1>7. CASE st = "succeeded" /\ ~aborting /\ ~run.failure
  <2>1. run.status = "verifying_recovery"
    BY <1>1, <1>7, InFlightSound DEF Placed
  <2>2. run.startedAt # Unset /\ clock >= run.startedAt + Duration
    BY <1>1, <1>7, <2>1, InFlightSound DEF Sound
  <2>3. Sound(healthy, job[w].run, clock, injected)
    BY <1>1, <1>2, <1>7, <2>2, InFlightSound DEF Sound, chaosActive
  <2>. QED
    BY <1>1, <1>3, <1>5, <2>3, InFlightSound, ReturnSound, UpdateSound
<1>. QED
  BY <1>4, <1>6, <1>7

LEMMA RunnerSound ==
  ASSUME Truthful, NEW w \in Workers, DryRun(w) \/ Create(w) \/ Delete(w)
  PROVE  SoundWorker(w)'
<1>1. pc[w] \in InFlight /\ Still
  BY DEF DryRun, Create, Delete, InFlight, cluster, Still
<1>2. CASE DryRun(w) \/ Create(w)
  <2>1. /\ pc[w] \in {"dryRun", "create"}
        /\ Goto(w, "create") \/ StartFailed(w) \/ Acknowledge(w)
    BY <1>2 DEF DryRun, Create
  <2>2. copy[w].status = "execution_requested"
    BY <1>1, <2>1, InFlightSound DEF Placed
  <2>. QED
    BY <1>1, <2>1, <2>2, InFlightSound, StartSound, GotoSound DEF Timed
<1>3. CASE Delete(w)
  <2>1. Return(w) \/ Goto(w, "deleted")
    BY <1>3 DEF Delete
  <2>. QED
    BY <1>1, <2>1, InFlightSound, ReturnSound, GotoSound DEF Timed
<1>. QED
  BY <1>2, <1>3

-----------------------------------------------------------------------------
(* The table, the cluster and the rest *)

LEMMA CommitSound ==
  ASSUME Truthful, NEW w \in Workers, Commit(w)
  PROVE  OutcomeInv'
<1>0. /\ pc[w] = "commit" /\ job[w].run \in Runs /\ copy[w] \in RunRecords /\ TypeOK
      /\ job[w] \in Jobs /\ Sound(copy[w], job[w].run, clock, injected)
  BY BusyTypes DEF Commit, Truthful, TypeOK, OutcomeInv, SoundWorker
<1>. PICK r \in Runs : r = job[w].run
  BY <1>0
<1>. DEFINE row == [copy[w] EXCEPT !.version = copy[w].version + 1]
<1>1. /\ row.status = copy[w].status /\ row.startedAt = copy[w].startedAt
      /\ row.recoveryDeadline = copy[w].recoveryDeadline
      /\ row.failure = copy[w].failure /\ row.recovery = copy[w].recovery
  BY <1>0, Zenon DEF RunRecords
<1>2. Sound(row, r, clock, injected)
  BY <1>0, <1>1 DEF Sound
<1>3. /\ UNCHANGED resource /\ Still
      /\ \/ Quit(w) /\ UNCHANGED store
         \/ store' = [store EXCEPT ![r] = row] /\ Quit(w)
         \/ store' = [store EXCEPT ![r] = row] /\ Return(w)
         \/ /\ store' = [store EXCEPT ![r] = row]
            /\ job[w].then \in {"reconcile", "delete"}
            /\ pc' = [pc EXCEPT ![w] = job[w].then]
            /\ job' = [job EXCEPT ![w].op = "reconcile"]
            /\ copy' = [copy EXCEPT ![w] = row]
  BY DEF Commit, Still
<1>. HIDE DEF row
<1>4. \A q \in Runs : Sound(store'[q], q, clock', injected')
  BY <1>0, <1>2, <1>3 DEF Truthful, OutcomeInv, TypeOK, Still
<1>5. SoundWorker(w)'
  <2>1. CASE Quit(w) \/ Return(w)
    BY <1>0, <1>3, <2>1, QuitSound, ReturnSound
  <2>2. CASE /\ job[w].then \in {"reconcile", "delete"}
             /\ pc' = [pc EXCEPT ![w] = job[w].then]
             /\ job' = [job EXCEPT ![w].op = "reconcile"]
             /\ copy' = [copy EXCEPT ![w] = row]
    <3>1. /\ pc'[w] \in {"reconcile", "delete"} /\ copy'[w] = row
          /\ job'[w] = [job[w] EXCEPT !.op = "reconcile"]
      BY <1>0, <2>2 DEF TypeOK
    <3>2. job'[w].run = r
      BY <1>0, <3>1, Zenon DEF Jobs
    <3>. QED
      BY <1>2, <1>3, <3>1, <3>2 DEF SoundWorker, Still, Timed
  <2>. QED
    BY <1>3, <2>1, <2>2
<1>6. Frame(w)
  BY <1>0, <1>3 DEF Quit, Return, TypeOK, Frame
<1>7. \A v \in Workers : SoundWorker(v)'
  BY <1>3, <1>5, <1>6, OthersSound DEF Truthful
<1>8. ObjectsInjected'
  BY <1>3 DEF Truthful, OutcomeInv, ObjectsInjected, Still
<1>. QED
  BY <1>4, <1>7, <1>8 DEF OutcomeInv

LEMMA LoadSound ==
  ASSUME Truthful, NEW w \in Workers, NEW r \in Runs, NEW op \in Operations, Load(w, r, op)
  PROVE  SoundWorker(w)'
<1>1. TypeOK /\ Still
  BY DEF Truthful, Load, cluster, Still
<1>2. pc'[w] \in {"reconcile", "act"} /\ (copy'[w] = store[r] \/ copy'[w] = NoRun)
  BY <1>1 DEF Load, TypeOK
<1>3. job'[w].run = r
  BY <1>1 DEF Load, TypeOK, NoJob
<1>4. Sound(store[r], r, clock, injected) /\ Sound(NoRun, r, clock, injected)
  BY BlankSound DEF Truthful, OutcomeInv
<1>. QED
  BY <1>1, <1>2, <1>3, <1>4 DEF SoundWorker, Still, Timed

LEMMA RequestSound ==
  ASSUME Truthful, NEW r \in Runs, NEW p \in Principals, Request(r, p)
  PROVE  OutcomeInv'
<1>. DEFINE pending == [NoRun EXCEPT !.status = "pending_approval", !.version = 1,
                                     !.requestedBy = p,
                                     !.approvalExpiresAt = clock + ApprovalTTL]
            report == [NoRun EXCEPT !.status = "preflight_validated", !.version = 1,
                                    !.requestedBy = p]
<1>1. /\ pending.status = "pending_approval" /\ report.status = "preflight_validated"
      /\ pending.startedAt = Unset /\ report.startedAt = Unset
  BY DEF NoRun
<1>2. store' = [store EXCEPT ![r] = pending] \/ store' = [store EXCEPT ![r] = report]
  BY DEF Request
<1>3. Still /\ UNCHANGED <<resource, pc, job, copy>>
  BY DEF Request, Still
<1>. HIDE DEF pending, report
<1>4. Sound(pending, r, clock, injected) /\ Sound(report, r, clock, injected)
  BY <1>1, PlainSound DEF Plain
<1>. QED
  BY <1>2, <1>3, <1>4 DEF Truthful, TypeOK, OutcomeInv, SoundWorker, ObjectsInjected, Still

\* What the calls of a worker do to the objects.
LEMMA CallsInjected ==
  ASSUME Truthful, NEW w \in Workers, Create(w) \/ Delete(w)
  PROVE  ObjectsInjected'
<1>1. TypeOK /\ Still /\ pc[w] # "idle"
  BY DEF Truthful, Create, Delete, Still
<1>2. PICK n \in Names : n = ResourceOf[job[w].run]
  BY <1>1, BusyTypes
<1>. DEFINE new == Created(w)
            going == [resource[n] EXCEPT !.deleting = TRUE]
<1>3. \/ UNCHANGED resource
      \/ resource' = [resource EXCEPT ![n] = new]
      \/ resource' = [resource EXCEPT ![n] = NoResource]
      \/ resource' = [resource EXCEPT ![n] = going]
  BY <1>1, <1>2 DEF Create, Delete, TypeOK
<1>4. new.injected = FALSE /\ NoResource.injected = FALSE
  BY <1>1, BusyTypes, CreatedObject DEF NoResource
<1>5. going.injected = resource[n].injected /\ going.owner = resource[n].owner
  <2>1. resource[n] \in Objects \cup {NoResource}
    BY <1>1 DEF TypeOK
  <2>. QED
    BY <2>1 DEF Objects, NoResource
<1>. HIDE DEF new, going
<1>6. \A m \in Names : resource'[m].injected =>
         resource[m].injected /\ resource'[m].owner = resource[m].owner
  BY <1>1, <1>3, <1>4, <1>5 DEF TypeOK
<1>. QED
  BY <1>1, <1>6 DEF Truthful, OutcomeInv, ObjectsInjected, Still

LEMMA EnvironmentSound ==
  ASSUME Truthful, Environment
  PROVE  OutcomeInv'
<1>0. TypeOK
  BY DEF Truthful
<1>1. ASSUME clock' \in Nat, clock <= clock', injected \subseteq injected', UNCHANGED store,
             UNCHANGED <<pc, job, copy>>
      PROVE  /\ \A r \in Runs : Sound(store'[r], r, clock', injected')
             /\ \A w \in Workers : SoundWorker(w)'
  <2>1. clock \in Nat /\ \A r \in Runs : store[r] \in RunRecords
    BY <1>0 DEF TypeOK
  <2>2. \A w \in Workers : copy[w] \in RunRecords /\ job[w].now \in Nat
    BY <1>0 DEF TypeOK, Jobs
  <2>3. \A r \in Runs : Sound(store'[r], r, clock', injected')
    BY <1>1, <2>1, SoundLater DEF Truthful, OutcomeInv
  <2>4. \A w \in Workers : Sound(copy'[w], job'[w].run, clock', injected')
    BY <1>1, <2>1, <2>2, SoundLater DEF Truthful, OutcomeInv, SoundWorker
  <2>5. \A w \in Workers : pc[w] \in Timed => job[w].now # 0 /\ job[w].now <= clock'
    BY <1>1, <2>1, <2>2 DEF Truthful, OutcomeInv, SoundWorker
  <2>. QED
    BY <1>1, <2>3, <2>4, <2>5 DEF SoundWorker
<1>2. ASSUME NEW n \in Names, Inject(n) PROVE OutcomeInv'
  <2>. DEFINE seen == [resource[n] EXCEPT !.injected = TRUE]
  <2>1. resource' = [resource EXCEPT ![n] = seen] /\ injected' = injected \cup {resource[n].owner}
    BY <1>0, <1>2 DEF Inject, TypeOK
  <2>2. seen.owner = resource[n].owner
    <3>1. resource[n] \in Objects \cup {NoResource}
      BY <1>0 DEF TypeOK
    <3>. QED
      BY <3>1 DEF Objects, NoResource
  <2>. HIDE DEF seen
  <2>3. ObjectsInjected'
    BY <1>0, <2>1, <2>2 DEF TypeOK, Truthful, OutcomeInv, ObjectsInjected
  <2>4. clock' = clock /\ clock \in Nat /\ clock <= clock
    BY <1>0, <1>2 DEF Inject, TypeOK
  <2>. QED
    BY <1>1, <1>2, <2>1, <2>3, <2>4 DEF Inject, OutcomeInv
<1>3. ASSUME NEW n \in Names, FinishDelete(n) \/ ExternalDelete(n) PROVE OutcomeInv'
  <2>1. resource' = [resource EXCEPT ![n] = NoResource] /\ Still
    BY <1>3 DEF FinishDelete, ExternalDelete, Still
  <2>2. NoResource.injected = FALSE
    BY DEF NoResource
  <2>3. ObjectsInjected'
    BY <1>0, <2>1, <2>2 DEF TypeOK, Truthful, OutcomeInv, ObjectsInjected, Still
  <2>4. clock' = clock /\ clock \in Nat /\ clock <= clock
    BY <1>0, <2>1 DEF Still, TypeOK
  <2>. QED
    BY <1>1, <1>3, <2>1, <2>3, <2>4 DEF FinishDelete, ExternalDelete, OutcomeInv, Still
<1>4. CASE Tick
  <2>1. clock' \in Nat /\ clock <= clock'
    BY <1>0, <1>4 DEF Tick, TypeOK
  <2>. QED
    BY <1>1, <1>4, <2>1 DEF Tick, Truthful, OutcomeInv, ObjectsInjected
<1>5. CASE Restart
  <2>1. \A w \in Workers : pc'[w] = "idle" /\ copy'[w] = NoRun
    BY <1>5 DEF Restart
  <2>2. \A w \in Workers : SoundWorker(w)'
    BY <2>1, BlankSound DEF SoundWorker, Timed
  <2>. QED
    BY <1>5, <2>2 DEF Restart, Truthful, OutcomeInv, ObjectsInjected
<1>. QED
  BY <1>2, <1>3, <1>4, <1>5 DEF Environment

-----------------------------------------------------------------------------

LEMMA OutcomeInit == Init => OutcomeInv
<1>. SUFFICES ASSUME Init PROVE OutcomeInv
  OBVIOUS
<1>1. \A w \in Workers : SoundWorker(w)
  BY BlankSound DEF Init, SoundWorker, Timed
<1>2. NoResource.injected = FALSE
  BY DEF NoResource
<1>. QED
  BY <1>1, <1>2, BlankSound DEF Init, OutcomeInv, ObjectsInjected

LEMMA OutcomeStep ==
  TypeOK /\ CopiesGuarded /\ OutcomeInv /\ [Next]_vars => OutcomeInv'
<1>. SUFFICES ASSUME Truthful, [Next]_vars PROVE OutcomeInv'
  BY DEF Truthful
<1>0. TypeOK
  BY DEF Truthful
<1>1. CASE UNCHANGED vars
  BY <1>1 DEF vars, Truthful, OutcomeInv, SoundWorker, ObjectsInjected
<1>2. ASSUME NEW w \in Workers, SoundWorker(w)', Frame(w), Still, UNCHANGED store, ObjectsInjected'
      PROVE  OutcomeInv'
  <2>1. \A v \in Workers : SoundWorker(v)'
    BY <1>2, OthersSound DEF Truthful
  <2>. QED
    BY <1>2, <2>1 DEF Truthful, OutcomeInv, Still
<1>3. ASSUME UNCHANGED <<resource, injected>> PROVE ObjectsInjected'
  BY <1>3 DEF Truthful, OutcomeInv, ObjectsInjected
<1>4. ASSUME NEW w \in Workers, NEW r \in Runs, NEW op \in Operations, Load(w, r, op)
      PROVE  OutcomeInv'
  <2>1. UNCHANGED <<store, resource, injected>> /\ Still /\ Frame(w)
    BY <1>0, <1>4 DEF Load, cluster, TypeOK, Frame, Still
  <2>. QED
    BY <1>2, <1>3, <1>4, <2>1, LoadSound
<1>5. ASSUME NEW w \in Workers, Fail(w)
      PROVE  OutcomeInv'
  <2>1. UNCHANGED <<store, resource, injected>> /\ Still /\ Quit(w)
    BY <1>5 DEF Fail, cluster, Still
  <2>. QED
    BY <1>0, <1>2, <1>3, <2>1, QuitKept, QuitSound
<1>6. ASSUME NEW w \in Workers, Proceed(w), ~Commit(w)
      PROVE  OutcomeInv'
  <2>1. UNCHANGED store /\ Still
    BY <1>6 DEF Proceed, Decide, Execute, Abort, Reconcile, DryRun, Create,
          Observe, ExistsExecutionRequested, ExistsRunning, ExistsDeleted,
          ExistsVerifying, Delete, VerifyRecovery, cluster, Still
  <2>2. Frame(w)
    <3>1. Kept(w)
      BY DEF Truthful, CopiesGuarded, Kept
    <3>. QED
      BY <1>0, <1>6, <3>1, DecideKept, ExecuteKept, AbortKept, ReconcileKept, StartKept,
         ObserveKept, ExistsKept, DeleteKept, VerifyRecoveryKept DEF Proceed
  <2>3. SoundWorker(w)'
    BY <1>6, HandlersSound, ReconcileSound, ObserveSound, ExistsSound, VerifyRecoverySound,
       RunnerSound DEF Proceed
  <2>4. ObjectsInjected'
    <3>1. CASE Create(w) \/ Delete(w)
      BY <3>1, CallsInjected
    <3>2. CASE ~Create(w) /\ ~Delete(w)
      <4>1. UNCHANGED <<resource, injected>>
        BY <1>6, <3>2 DEF Proceed, Decide, Execute, Abort, Reconcile, DryRun, Observe,
           ExistsExecutionRequested, ExistsRunning, ExistsDeleted, ExistsVerifying,
           VerifyRecovery, cluster
      <4>. QED
        BY <1>3, <4>1
    <3>. QED
      BY <3>1, <3>2
  <2>. QED
    BY <1>2, <2>1, <2>2, <2>3, <2>4
<1>. QED
  BY <1>1, <1>4, <1>5, <1>6, CommitSound, RequestSound, EnvironmentSound DEF Next

LEMMA OutcomeAlways == Spec => []OutcomeInv
<1>1. Init => TypeOK /\ CopiesGuarded /\ OutcomeInv
  BY TypeInit, GuardedInit, OutcomeInit
<1>2. TypeOK /\ CopiesGuarded /\ OutcomeInv /\ [Next]_vars
         => TypeOK' /\ CopiesGuarded' /\ OutcomeInv'
  BY TypeStep, GuardedStep, OutcomeStep
<1>. QED
  BY <1>1, <1>2, PTL DEF Spec

\* A run has a start time only if Chaos Mesh reported AllInjected on an object of
\* that run, not on one of another run with the same name (Observe).
THEOREM InjectionIsProven == Spec => []InjectionProven
<1>1. OutcomeInv => InjectionProven
  BY DEF OutcomeInv, Sound, InjectionProven
<1>. QED
  BY <1>1, OutcomeAlways, PTL

\* No path through reconcileOne and Abort leaves the wait for the target pods
\* without its deadline, nor a run that can still succeed without the deadline
\* after which verification deletes again.  The wait for the object to go has no
\* deadline in the code, and none here.
THEOREM RecoveryWaitIsBounded == Spec => []RecoveryIsBounded
<1>1. OutcomeInv => RecoveryIsBounded
  BY DEF OutcomeInv, Sound, RecoveryIsBounded
<1>. QED
  BY <1>1, OutcomeAlways, PTL

\* The manager deletes the object of a run without a recorded failure only when
\* the duration is over, and reports success only then, of a run without a
\* failure and with targets that recovered, although clocks are read and rows are
\* written in different steps (reconcileOne).
THEOREM SuccessIsNotCutShort == Spec => []SuccessNotCutShort
<1>1. OutcomeInv => SuccessNotCutShort
  BY DEF OutcomeInv, Sound, SoundWorker, SuccessNotCutShort
<1>. QED
  BY <1>1, OutcomeAlways, PTL

=============================================================================
