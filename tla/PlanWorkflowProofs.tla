------------------------- MODULE PlanWorkflowProofs -------------------------
(***************************************************************************)
(* What is proved about PlanWorkflow, for any number of users and agents,  *)
(* any mix of requests, both stores, and failures and restarts anywhere:   *)
(* decisions on the custom resources and in the approval's row are final,  *)
(* execution follows approval, and the rows never run ahead of the custom  *)
(* resources.                                                              *)
(*                                                                         *)
(* The three facts need each other.  A row may only show a decision that   *)
(* the RemediationPlan has, because a replayed creation takes the decision *)
(* of a new RemediationPlan from the row; the RemediationPlan may only     *)
(* have the decision of the ApprovalRequest, because RequestExecution      *)
(* looks at nothing else; and both must hold for the copies in the hands   *)
(* of requests that stand between their writes.                            *)
(***************************************************************************)
EXTENDS PlanWorkflow, TLAPS

-----------------------------------------------------------------------------
(* The inductive invariant *)

\* The steps at which a request has been through DecideApproval, and through
\* setPlanApprovalDecision as well.
DecidedSteps == {"decideRead", "decideApproval", "decidePlanRead", "decidePlan",
                 "decideRun", "decideFinding"}
DecidingSteps == DecidedSteps \cup {"setDecision"}
ExecutingSteps == {"executeRead", "executePlan", "executeRun", "executeFinding"}
RollingBackSteps == {"rollbackRun", "rollbackPlan"}
\* The steps that use the copy of the row.
HoldingSteps == {"analyze", "sync", "createPlan", "decidePlan", "executePlan", "rollbackPlan"}

PlanSteps == {"idle", "analyze", "sync", "createPlan", "createApproval",
              "decide", "request", "rollback", "mirror",
              "setDecision", "decideRead", "decideApproval", "decidePlanRead", "decidePlan",
              "decideRun", "decideFinding", "executeRead", "executePlan", "executeRun",
              "executeFinding", "rollbackRun", "rollbackPlan"}

PlanJobs == [step : PlanSteps, copy : PlanRows \cup {None},
             value : {"none"} \cup Decisions \cup PlanRunStates]

PlanTypes ==
    /\ PlanTypeOK
    /\ planJob \in [PlanActors -> PlanJobs]

\* The custom resources agree with each other.
ObjectsAgree ==
    /\ crdApproval # "none" => Required /\ crdPlan # None
    /\ crdRun # "none" => crdPlan # None
    /\ Required /\ crdPlan # None /\ crdPlan.decision \in Decisions =>
         crdApproval = crdPlan.decision
    /\ Required /\ crdPlan # None /\ crdPlan.exec => crdPlan.decision = "approved"

RowsAgree ==
    /\ dbPlan = None => dbApproval = "none"
    /\ RowsFollowCluster

\* What a has in hand fits the cluster.
JobFits(a) ==
    LET j == planJob[a] IN
    /\ j.step \notin {"idle", "mirror"} => dbPlan # None
    /\ j.step \in HoldingSteps => j.copy # None
    /\ Required /\ j.copy # None /\ j.copy.decision \in Decisions =>
         crdPlan # None /\ crdPlan.decision = j.copy.decision
    /\ j.step = "createApproval" => Required /\ crdPlan # None
    /\ j.step = "rollback" => crdPlan # None
    /\ j.step = "decide" => j.value \in Decisions
    /\ j.step \in DecidingSteps => j.value \in Decisions /\ crdApproval = j.value
    /\ j.step \in DecidedSteps => crdPlan # None /\ crdPlan.decision = j.value
    /\ j.step \in ExecutingSteps => crdPlan # None /\ crdPlan.exec
    /\ j.step \in RollingBackSteps => crdPlan # None /\ crdPlan.rollback
    /\ j.step = "mirror" => j.value \in PlanRunStates

PlanIInv == PlanTypes /\ ObjectsAgree /\ RowsAgree /\ \A a \in PlanActors : JobFits(a)

-----------------------------------------------------------------------------
(* What no step of a request undoes *)

Advances ==
    /\ planKind' = planKind
    /\ dbPlan # None => dbPlan' # None
    /\ crdPlan # None =>
         /\ crdPlan' # None
         /\ crdPlan.exec => crdPlan'.exec
         /\ crdPlan.rollback => crdPlan'.rollback
         /\ Required /\ crdPlan.decision \in Decisions => crdPlan'.decision = crdPlan.decision
    /\ crdApproval \in Decisions => crdApproval' = crdApproval

RowDecisionStays ==
    dbApproval \in Decisions =>
        dbApproval' = dbApproval \/ (InMemory /\ dbApproval' = "none")

Leaves(a) == \A b \in PlanActors \ {a} : planJob'[b] = planJob[b]

\* A step of a keeps the invariant as far as a itself is concerned.
Keeps(a) ==
    /\ Advances /\ RowDecisionStays /\ Leaves(a)
    /\ PlanTypes' /\ ObjectsAgree' /\ RowsAgree' /\ JobFits(a)'

\* None is neither a row nor an object.
LEMMA NoneApart == None \notin PlanRows /\ None \notin PlanObjects
  BY DEF None, PlanRows, PlanObjects

\* A request that does not move still fits, whatever the others wrote.
LEMMA OthersFit ==
  ASSUME PlanTypes, ObjectsAgree, Advances, NEW b \in PlanActors,
         JobFits(b), planJob'[b] = planJob[b]
  PROVE  JobFits(b)'
<1>. DEFINE j == planJob[b]
<1>1. Required' = Required
  BY DEF Advances, Required
<1>2. (Required /\ j.copy # None /\ j.copy.decision \in Decisions =>
         crdPlan # None /\ crdPlan.decision = j.copy.decision)'
  BY <1>1 DEF Advances, JobFits
<1>3. (j.step \in DecidingSteps => j.value \in Decisions /\ crdApproval = j.value)'
  BY DEF Advances, JobFits
<1>4. (j.step \in DecidedSteps => crdPlan # None /\ crdPlan.decision = j.value)'
  <2>1. j.step \in DecidedSteps => /\ crdPlan # None /\ crdPlan.decision = j.value
                                   /\ j.value \in Decisions /\ Required
    BY DEF JobFits, DecidingSteps, ObjectsAgree, Decisions
  <2>. QED
    BY <2>1 DEF Advances
<1>5. (/\ j.step \notin {"idle", "mirror"} => dbPlan # None
       /\ j.step \in HoldingSteps => j.copy # None
       /\ j.step = "createApproval" => Required /\ crdPlan # None
       /\ j.step = "rollback" => crdPlan # None
       /\ j.step = "decide" => j.value \in Decisions
       /\ j.step \in ExecutingSteps => crdPlan # None /\ crdPlan.exec
       /\ j.step \in RollingBackSteps => crdPlan # None /\ crdPlan.rollback
       /\ j.step = "mirror" => j.value \in PlanRunStates)'
  BY <1>1 DEF Advances, JobFits
<1>. QED
  BY <1>2, <1>3, <1>4, <1>5 DEF JobFits

LEMMA KeepsAll ==
  ASSUME PlanIInv, NEW a \in PlanActors, Keeps(a)
  PROVE  PlanIInv'
<1>1. \A b \in PlanActors \ {a} : JobFits(b)'
  BY OthersFit DEF PlanIInv, Keeps, Leaves
<1>. QED
  BY <1>1 DEF PlanIInv, Keeps

\* A request that has ended fits.
LEMMA IdleFits ==
  ASSUME NEW a \in PlanActors, planJob'[a] = PlanIdle
  PROVE  JobFits(a)'
<1>1. planJob'[a].step = "idle" /\ planJob'[a].copy = None
  BY DEF PlanIdle
<1>. QED
  BY <1>1 DEF JobFits, HoldingSteps, DecidingSteps, DecidedSteps, ExecutingSteps,
     RollingBackSteps

-----------------------------------------------------------------------------
(* The helpers of the actions *)


LEMMA HoldMoves ==
  ASSUME PlanTypes, NEW a \in PlanActors, NEW step \in PlanSteps,
         NEW copy \in PlanRows \cup {None}, PlanHold(a, step, copy)
  PROVE  /\ planJob' \in [PlanActors -> PlanJobs] /\ Leaves(a)
         /\ planJob'[a].step = step /\ planJob'[a].copy = copy
         /\ planJob'[a].value = planJob[a].value
<1>. DEFINE new == [planJob[a] EXCEPT !.step = step, !.copy = copy]
<1>1. planJob \in [PlanActors -> PlanJobs] /\ planJob[a] \in PlanJobs
  BY DEF PlanTypes
<1>2. /\ new \in PlanJobs
      /\ new.step = step /\ new.copy = copy /\ new.value = planJob[a].value
  BY <1>1 DEF PlanJobs
<1>3. planJob' = [planJob EXCEPT ![a] = new]
  BY <1>1 DEF PlanHold
<1>. HIDE DEF new
<1>. QED
  BY <1>1, <1>2, <1>3 DEF Leaves

LEMMA IdleTyped == PlanIdle \in PlanJobs
  BY DEF PlanIdle, PlanJobs, PlanSteps

LEMMA EndMoves ==
  ASSUME PlanTypes, NEW a \in PlanActors, PlanDone(a) \/ PlanAbort(a)
  PROVE  /\ planJob' \in [PlanActors -> PlanJobs] /\ Leaves(a)
         /\ planJob'[a] = PlanIdle /\ JobFits(a)'
<1>1. planJob' = [planJob EXCEPT ![a] = PlanIdle] /\ planJob \in [PlanActors -> PlanJobs]
  BY DEF PlanDone, PlanAbort, PlanTypes
<1>2. planJob' \in [PlanActors -> PlanJobs] /\ Leaves(a) /\ planJob'[a] = PlanIdle
  BY <1>1, IdleTyped DEF Leaves
<1>. QED
  BY <1>2, IdleFits

\* A row that changes its status, or gets a decision.
LEMMA RowChanges ==
  ASSUME NEW row \in PlanRows,
         NEW s \in {"created", "execution_requested", "rollback_requested"}
                     \cup Decisions \cup PlanRunStates,
         NEW d \in Decisions
  PROVE  /\ [row EXCEPT !.status = s] \in PlanRows
         /\ [row EXCEPT !.status = s].decision = row.decision
         /\ DecidedPlan(row, d) \in PlanRows /\ DecidedPlan(row, d).decision = d
         /\ [row EXCEPT !.ai = TRUE] \in PlanRows
         /\ [row EXCEPT !.ai = TRUE].decision = row.decision
  BY DEF PlanRows, DecidedPlan

LEMMA ObjectChanges ==
  ASSUME NEW object \in PlanObjects, NEW d \in Decisions
  PROVE  /\ [object EXCEPT !.decision = d] \in PlanObjects
         /\ [object EXCEPT !.decision = d].decision = d
         /\ [object EXCEPT !.decision = d].exec = object.exec
         /\ [object EXCEPT !.decision = d].rollback = object.rollback
         /\ [object EXCEPT !.exec = TRUE] \in PlanObjects
         /\ [object EXCEPT !.exec = TRUE].decision = object.decision
         /\ [object EXCEPT !.exec = TRUE].exec
         /\ [object EXCEPT !.exec = TRUE].rollback = object.rollback
         /\ [object EXCEPT !.rollback = TRUE] \in PlanObjects
         /\ [object EXCEPT !.rollback = TRUE].decision = object.decision
         /\ [object EXCEPT !.rollback = TRUE].exec = object.exec
         /\ [object EXCEPT !.rollback = TRUE].rollback
  BY DEF PlanObjects

\* The rows and the objects stay: only the request moves on.
LEMMA OnlyJobMoves ==
  ASSUME PlanIInv, NEW a \in PlanActors, UNCHANGED <<planKind, planRows, planObjects>>,
         planJob' \in [PlanActors -> PlanJobs], Leaves(a), JobFits(a)'
  PROVE  Keeps(a)
<1>1. PlanTypes' /\ ObjectsAgree' /\ RowsAgree'
  BY DEF PlanIInv, PlanTypes, PlanTypeOK, ObjectsAgree, RowsAgree, RowsFollowCluster,
     planRows, planObjects, Required
<1>2. Advances /\ RowDecisionStays
  BY DEF Advances, RowDecisionStays, planRows, planObjects, Required
<1>. QED
  BY <1>1, <1>2 DEF Keeps

\* The objects stay, and the rows show no more than these have.
LEMMA OnlyRowsMove ==
  ASSUME PlanIInv, NEW a \in PlanActors, UNCHANGED <<planKind, planObjects>>,
         planJob' \in [PlanActors -> PlanJobs], Leaves(a), JobFits(a)',
         dbPlan' \in PlanRows, dbApproval' \in {"pending", "none"} \cup Decisions,
         RowDecisionStays, RowsFollowCluster'
  PROVE  Keeps(a)
<1>1. dbPlan' # None
  BY NoneApart
<1>2. PlanTypes' /\ ObjectsAgree' /\ RowsAgree'
  BY <1>1 DEF PlanIInv, PlanTypes, PlanTypeOK, ObjectsAgree, RowsAgree, planObjects, Required
<1>3. Advances
  BY <1>1 DEF Advances, planObjects, Required
<1>. QED
  BY <1>2, <1>3 DEF Keeps

\* The rows stay, and the objects lose nothing that these show.
LEMMA OnlyObjectsMove ==
  ASSUME PlanIInv, NEW a \in PlanActors, UNCHANGED <<planRows, crdRun>>,
         planJob' \in [PlanActors -> PlanJobs], Leaves(a), JobFits(a)',
         crdPlan' \in PlanObjects, crdApproval' \in {"pending", "none"} \cup Decisions,
         Advances, ObjectsAgree'
  PROVE  Keeps(a)
<1>1. planKind' = planKind /\ (Required' = Required) /\ (InMemory' = InMemory)
  BY DEF Advances, Required, InMemory
<1>2. PlanTypes'
  BY <1>1 DEF PlanIInv, PlanTypes, PlanTypeOK, planRows
<1>3. RowsAgree'
  <2>1. dbApproval \in Decisions => crdApproval' = dbApproval
    BY DEF PlanIInv, RowsAgree, RowsFollowCluster, Advances
  <2>2. Required /\ dbPlan # None /\ dbPlan.decision \in Decisions =>
          crdPlan' # None /\ crdPlan'.decision = dbPlan.decision
    BY DEF PlanIInv, RowsAgree, RowsFollowCluster, Advances
  <2>3. dbRun = "execution_requested" => crdPlan' # None /\ crdPlan'.exec
    BY DEF PlanIInv, RowsAgree, RowsFollowCluster, Advances
  <2>4. dbRun = "rollback_requested" => crdPlan' # None /\ crdPlan'.rollback
    BY DEF PlanIInv, RowsAgree, RowsFollowCluster, Advances
  <2>. QED
    BY <1>1, <2>1, <2>2, <2>3, <2>4 DEF PlanIInv, RowsAgree, RowsFollowCluster, planRows
<1>4. RowDecisionStays
  BY DEF RowDecisionStays, planRows
<1>. QED
  BY <1>2, <1>3, <1>4 DEF Keeps

-----------------------------------------------------------------------------
(* Creation *)

LEMMA JobKnown ==
  ASSUME PlanIInv, NEW a \in PlanActors
  PROVE  /\ PlanTypes /\ JobFits(a)
         /\ planJob[a].copy \in PlanRows \cup {None}
         /\ planJob[a].value \in {"none"} \cup Decisions \cup PlanRunStates
         /\ planJob[a].step \in HoldingSteps => planJob[a].copy \in PlanRows
         /\ planJob[a].step \notin {"idle", "mirror"} => dbPlan \in PlanRows
         /\ dbPlan \in PlanRows \cup {None} /\ crdPlan \in PlanObjects \cup {None}
<1>1. PlanTypes /\ JobFits(a) /\ planJob[a] \in PlanJobs
  BY DEF PlanIInv, PlanTypes
<1>2. /\ planJob[a].copy \in PlanRows \cup {None}
      /\ planJob[a].value \in {"none"} \cup Decisions \cup PlanRunStates
  BY <1>1 DEF PlanJobs
<1>3. dbPlan \in PlanRows \cup {None} /\ crdPlan \in PlanObjects \cup {None}
  BY <1>1 DEF PlanTypes, PlanTypeOK
<1>. QED
  BY <1>1, <1>2, <1>3 DEF JobFits

\* A copy that agrees with the RemediationPlan may be held at any step of the
\* creation.
LEMMA CopyFits ==
  ASSUME NEW a \in PlanActors,
         planJob'[a].step \in {"analyze", "sync", "createPlan"},
         planJob'[a].copy # None, dbPlan' # None,
         (Required /\ planJob[a].copy.decision \in Decisions =>
            crdPlan # None /\ crdPlan.decision = planJob[a].copy.decision)'
  PROVE  JobFits(a)'
  BY DEF JobFits, HoldingSteps, DecidingSteps, DecidedSteps, ExecutingSteps,
     RollingBackSteps

LEMMA CreateRowKeeps ==
  ASSUME PlanIInv, NEW a \in PlanActors, PlanCreateRow(a)
  PROVE  Keeps(a)
<1>. DEFINE row == IF dbPlan = None THEN NewRow ELSE dbPlan
            step == IF ~row.ai THEN "analyze"
                    ELSE IF a \in planKind.agents THEN "createPlan" ELSE "sync"
<1>1. NewRow \in PlanRows
  BY DEF NewRow, PlanRows, Decisions
<1>2. row \in PlanRows /\ dbPlan' = row /\ PlanHold(a, step, row)
  BY <1>1, JobKnown DEF PlanCreateRow
<1>3. step \in PlanSteps /\ step \in {"analyze", "sync", "createPlan"}
  BY DEF PlanSteps
<1>4. Required /\ row.decision \in Decisions =>
        crdPlan # None /\ crdPlan.decision = row.decision
  BY DEF PlanIInv, RowsAgree, RowsFollowCluster, NewRow, Decisions
<1>5. UNCHANGED <<planKind, planObjects>>
  BY DEF PlanCreateRow, planConst
<1>. HIDE DEF row, step
<1>6. /\ planJob' \in [PlanActors -> PlanJobs] /\ Leaves(a)
      /\ planJob'[a].step = step /\ planJob'[a].copy = row
  BY <1>2, <1>3, JobKnown, HoldMoves
<1>7. JobFits(a)'
  BY <1>2, <1>3, <1>4, <1>5, <1>6, NoneApart, CopyFits DEF Required, planObjects
<1>8. CASE dbPlan = None
  <2>1. /\ dbApproval' \in {"pending", "none"}
        /\ dbRun' \in {"pending_approval", "prepared"} /\ dbApproval = "none"
    BY <1>8 DEF PlanCreateRow, PlanIInv, RowsAgree
  <2>2. RowDecisionStays
    BY <2>1 DEF RowDecisionStays, Decisions
  <2>3. RowsFollowCluster'
    BY <1>2, <1>4, <1>5, <2>1 DEF RowsFollowCluster, planObjects, Required, Decisions
  <2>. QED
    BY <1>2, <1>5, <1>6, <1>7, <2>1, <2>2, <2>3, OnlyRowsMove
<1>9. CASE dbPlan # None
  <2>1. UNCHANGED <<dbPlan, dbApproval, dbRun>>
    BY <1>2, <1>9 DEF PlanCreateRow, row
  <2>2. dbApproval \in {"pending", "none"} \cup Decisions
    BY DEF PlanIInv, PlanTypes, PlanTypeOK
  <2>3. RowDecisionStays
    BY <2>1 DEF RowDecisionStays
  <2>4. RowsFollowCluster'
    BY <2>1, <1>5 DEF PlanIInv, RowsAgree, RowsFollowCluster, planObjects, Required
  <2>. QED
    BY <1>2, <1>5, <1>6, <1>7, <2>1, <2>2, <2>3, <2>4, OnlyRowsMove
<1>. QED
  BY <1>8, <1>9

LEMMA AnalysedKeeps ==
  ASSUME PlanIInv, NEW a \in PlanActors, PlanAnalysed(a)
  PROVE  Keeps(a)
<1>. DEFINE row == [planJob[a].copy EXCEPT !.ai = TRUE]
<1>1. /\ planJob[a].step = "analyze" /\ planJob[a].copy \in PlanRows /\ dbPlan # None
      /\ UNCHANGED <<planKind, planRows, planObjects>> /\ PlanHold(a, "sync", row)
  BY JobKnown DEF PlanAnalysed, At, HoldingSteps, planConst, JobFits
<1>2. row \in PlanRows /\ row.decision = planJob[a].copy.decision
  BY <1>1 DEF PlanRows
<1>. HIDE DEF row
<1>3. /\ planJob' \in [PlanActors -> PlanJobs] /\ Leaves(a)
      /\ planJob'[a].step = "sync" /\ planJob'[a].copy = row
  BY <1>1, <1>2, JobKnown, HoldMoves DEF PlanSteps
<1>4. JobFits(a)
  BY JobKnown
<1>5. JobFits(a)'
  <2>1. planJob[a].copy # None /\ row # None
    BY <1>1, <1>2, NoneApart
  <2>2. Required /\ row.decision \in Decisions =>
          crdPlan # None /\ crdPlan.decision = row.decision
    BY <1>2, <1>4, <2>1 DEF JobFits
  <2>. QED
    BY <1>1, <1>3, <2>1, <2>2, CopyFits DEF Required, planRows, planObjects
<1>. QED
  BY <1>1, <1>3, <1>5, OnlyJobMoves

LEMMA NotAnalysedKeeps ==
  ASSUME PlanIInv, NEW a \in PlanActors, PlanNotAnalysed(a)
  PROVE  Keeps(a)
<1>1. /\ planJob[a].step = "analyze" /\ planJob[a].copy \in PlanRows /\ dbPlan # None
      /\ UNCHANGED <<planKind, planRows, planObjects>> /\ JobFits(a) /\ PlanTypes
  BY JobKnown DEF PlanNotAnalysed, At, HoldingSteps, planConst, JobFits
<1>2. CASE PlanAbort(a)
  BY <1>1, <1>2, EndMoves, OnlyJobMoves
<1>3. CASE PlanHold(a, "createPlan", planJob[a].copy)
  <2>1. /\ planJob' \in [PlanActors -> PlanJobs] /\ Leaves(a)
        /\ planJob'[a].step = "createPlan" /\ planJob'[a].copy = planJob[a].copy
    BY <1>1, <1>3, HoldMoves DEF PlanSteps
  <2>2. planJob[a].copy # None
    BY <1>1, NoneApart
  <2>3. JobFits(a)'
    BY <1>1, <2>1, <2>2, CopyFits DEF Required, planRows, planObjects, JobFits
  <2>. QED
    BY <1>1, <2>1, <2>3, OnlyJobMoves
<1>. QED
  BY <1>2, <1>3 DEF PlanNotAnalysed

LEMMA SyncKeeps ==
  ASSUME PlanIInv, NEW a \in PlanActors, PlanSync(a)
  PROVE  Keeps(a)
<1>1. /\ planJob[a].step = "sync" /\ planJob[a].copy \in PlanRows /\ JobFits(a) /\ PlanTypes
      /\ dbPlan' = planJob[a].copy /\ PlanHold(a, "createPlan", planJob[a].copy)
      /\ UNCHANGED <<planKind, planObjects, dbApproval, dbRun>>
  BY JobKnown DEF PlanSync, At, HoldingSteps, planConst
<1>2. planJob[a].copy # None
  BY <1>1, NoneApart
<1>3. /\ planJob' \in [PlanActors -> PlanJobs] /\ Leaves(a)
      /\ planJob'[a].step = "createPlan" /\ planJob'[a].copy = planJob[a].copy
  BY <1>1, HoldMoves DEF PlanSteps
<1>4. JobFits(a)'
  BY <1>1, <1>2, <1>3, CopyFits DEF Required, planObjects, JobFits
<1>5. RowsFollowCluster'
  BY <1>1, <1>2 DEF PlanIInv, RowsAgree, RowsFollowCluster, planObjects, Required, JobFits
<1>6. RowDecisionStays /\ dbApproval' \in {"pending", "none"} \cup Decisions
  BY <1>1 DEF RowDecisionStays, PlanTypes, PlanTypeOK
<1>. QED
  BY <1>1, <1>3, <1>4, <1>5, <1>6, OnlyRowsMove

LEMMA CreateObjectKeeps ==
  ASSUME PlanIInv, NEW a \in PlanActors, PlanCreateObject(a)
  PROVE  Keeps(a)
<1>. DEFINE object == [decision |-> planJob[a].copy.decision, exec |-> FALSE, rollback |-> FALSE]
<1>1. /\ planJob[a].step = "createPlan" /\ planJob[a].copy \in PlanRows /\ dbPlan # None
      /\ JobFits(a) /\ PlanTypes
      /\ UNCHANGED <<planKind, planRows, crdApproval, crdRun>>
      /\ crdPlan' = IF crdPlan # None THEN crdPlan ELSE object
  BY JobKnown DEF PlanCreateObject, At, HoldingSteps, planConst, CreateIdempotent, JobFits
<1>2. planJob[a].copy # None /\ object \in PlanObjects /\ ~object.exec
  BY <1>1, NoneApart DEF PlanObjects, PlanRows
<1>3. crdPlan' \in PlanObjects /\ crdPlan' # None
  BY <1>1, <1>2, JobKnown, NoneApart
<1>4. Advances
  BY <1>1, <1>3 DEF Advances, planRows
<1>5. ObjectsAgree'
  <2>1. CASE crdPlan # None
    BY <1>1, <2>1 DEF PlanIInv, ObjectsAgree, Required
  <2>2. CASE crdPlan = None
    <3>1. crdPlan' = object /\ crdApproval = "none" /\ crdRun = "none"
      BY <1>1, <2>2 DEF PlanIInv, ObjectsAgree
    <3>2. ~(Required /\ object.decision \in Decisions)
      BY <1>1, <1>2, <2>2 DEF JobFits
    <3>. QED
      BY <1>1, <1>2, <3>1, <3>2 DEF ObjectsAgree, Required
  <2>. QED
    BY <2>1, <2>2
<1>6. /\ planJob' \in [PlanActors -> PlanJobs] /\ Leaves(a) /\ JobFits(a)'
  <2>1. CASE Required
    <3>1. /\ planJob' \in [PlanActors -> PlanJobs] /\ Leaves(a)
          /\ planJob'[a].step = "createApproval" /\ planJob'[a].copy = None
      BY <1>1, <2>1, HoldMoves DEF PlanCreateObject, PlanGo, PlanSteps
    <3>. QED
      BY <1>1, <1>3, <2>1, <3>1 DEF JobFits, HoldingSteps, DecidingSteps, DecidedSteps,
         ExecutingSteps, RollingBackSteps, Required, planRows
  <2>2. CASE ~Required /\ a \in planKind.agents
    <3>1. /\ planJob' \in [PlanActors -> PlanJobs] /\ Leaves(a)
          /\ planJob'[a].step = "request" /\ planJob'[a].copy = None
      BY <1>1, <2>2, HoldMoves DEF PlanCreateObject, PlanGo, PlanSteps
    <3>. QED
      BY <1>1, <3>1 DEF JobFits, HoldingSteps, DecidingSteps, DecidedSteps,
         ExecutingSteps, RollingBackSteps, planRows
  <2>3. CASE ~Required /\ a \notin planKind.agents
    BY <1>1, <2>3, EndMoves DEF PlanCreateObject
  <2>. QED
    BY <2>1, <2>2, <2>3
<1>7. crdApproval' \in {"pending", "none"} \cup Decisions
  BY <1>1 DEF PlanTypes, PlanTypeOK
<1>. QED
  BY <1>1, <1>3, <1>4, <1>5, <1>6, <1>7, OnlyObjectsMove

LEMMA CreateApprovalKeeps ==
  ASSUME PlanIInv, NEW a \in PlanActors, PlanCreateApproval(a)
  PROVE  Keeps(a)
<1>1. /\ planJob[a].step = "createApproval" /\ JobFits(a) /\ PlanTypes /\ PlanDone(a)
      /\ UNCHANGED <<planKind, planRows, crdPlan, crdRun>>
      /\ crdApproval' = IF crdApproval # "none" THEN crdApproval ELSE "pending"
  BY JobKnown DEF PlanCreateApproval, At, planConst, CreateIdempotent
<1>2. Required /\ crdPlan # None /\ crdPlan \in PlanObjects
  BY <1>1, JobKnown DEF JobFits
<1>3. crdApproval' \in {"pending", "none"} \cup Decisions
  BY <1>1 DEF PlanTypes, PlanTypeOK
<1>4. Advances
  BY <1>1 DEF Advances, planRows, Decisions
<1>5. ObjectsAgree'
  BY <1>1, <1>2 DEF PlanIInv, ObjectsAgree, Required, Decisions
<1>. QED
  BY <1>1, <1>2, <1>3, <1>4, <1>5, EndMoves, OnlyObjectsMove

-----------------------------------------------------------------------------
(* Requests on an existing plan *)

LEMMA StartKeeps ==
  ASSUME PlanIInv, NEW a \in PlanActors,
         \/ \E d \in Decisions : PlanStart(a, "decide", d)
         \/ PlanStart(a, "request", "none")
         \/ PlanStartRollback(a)
         \/ PlanStartMirror(a)
  PROVE  Keeps(a)
<1>1. PICK step \in {"decide", "request", "rollback", "mirror"},
           value \in {"none"} \cup Decisions \cup PlanRunStates :
           /\ PlanBegin(a, step, value) /\ (step # "mirror" => dbPlan # None)
           /\ step = "decide" => value \in Decisions
           /\ step = "rollback" => crdPlan # None
           /\ step = "mirror" => value \in PlanRunStates
  <2>1. crdRun \in PlanRunStates \cup {"none"} /\ (crdRun # "none" => crdPlan # None)
    BY DEF PlanIInv, PlanTypes, PlanTypeOK, ObjectsAgree
  <2>2. CASE \E d \in Decisions : PlanStart(a, "decide", d)
    BY <2>2 DEF PlanStart
  <2>3. CASE PlanStart(a, "request", "none")
    BY <2>3 DEF PlanStart
  <2>4. CASE PlanStartRollback(a)
    BY <2>1, <2>4 DEF PlanStartRollback, PlanStart
  <2>5. CASE PlanStartMirror(a)
    BY <2>1, <2>5 DEF PlanStartMirror
  <2>. QED
    BY <2>2, <2>3, <2>4, <2>5
<1>. DEFINE new == [planJob[a] EXCEPT !.step = step, !.value = value]
<1>2. /\ UNCHANGED <<planKind, planRows, planObjects>>
      /\ planJob' = [planJob EXCEPT ![a] = new]
      /\ planJob \in [PlanActors -> PlanJobs] /\ planJob[a] \in PlanJobs /\ JobFits(a)
  BY <1>1 DEF PlanBegin, planConst, PlanIInv, PlanTypes
<1>3. new \in PlanJobs /\ new.step = step /\ new.value = value /\ new.copy = planJob[a].copy
  BY <1>2 DEF PlanJobs, PlanSteps
<1>. HIDE DEF new
<1>4. /\ planJob' \in [PlanActors -> PlanJobs] /\ Leaves(a)
      /\ planJob'[a].step = step /\ planJob'[a].value = value
      /\ planJob'[a].copy = planJob[a].copy
  BY <1>2, <1>3 DEF Leaves
<1>5. JobFits(a)'
  BY <1>1, <1>2, <1>4 DEF JobFits, HoldingSteps, DecidingSteps, DecidedSteps,
     ExecutingSteps, RollingBackSteps, Required, planRows, planObjects
<1>. QED
  BY <1>2, <1>4, <1>5, OnlyJobMoves

LEMMA DecideApprovalKeeps ==
  ASSUME PlanIInv, NEW a \in PlanActors, PlanDecideApproval(a)
  PROVE  Keeps(a)
<1>. DEFINE v == planJob[a].value
<1>1. /\ planJob[a].step = "decide" /\ v \in Decisions /\ dbPlan # None
      /\ JobFits(a) /\ PlanTypes /\ UNCHANGED <<planKind, planRows, crdPlan, crdRun>>
  BY JobKnown DEF PlanDecideApproval, At, planConst, JobFits
<1>2. CASE ~Decidable(v)
  BY <1>1, <1>2, EndMoves, OnlyJobMoves DEF PlanDecideApproval, planObjects
<1>3. CASE Decidable(v)
  <2>1. /\ crdApproval' = v /\ PlanHold(a, "setDecision", None)
        /\ crdApproval # "none" /\ crdApproval \in {"pending", v}
    BY <1>3 DEF PlanDecideApproval, PlanGo, Decidable
  <2>2. /\ planJob' \in [PlanActors -> PlanJobs] /\ Leaves(a) /\ planJob'[a].step = "setDecision"
        /\ planJob'[a].copy = None /\ planJob'[a].value = v
    BY <1>1, <2>1, HoldMoves DEF PlanSteps
  <2>3. Required /\ crdPlan # None /\ crdPlan \in PlanObjects
    BY <2>1, JobKnown DEF PlanIInv, ObjectsAgree
  <2>4. Advances
    BY <1>1, <2>1 DEF Advances, planRows, Decisions
  <2>5. ObjectsAgree'
    BY <1>1, <2>1, <2>3 DEF PlanIInv, ObjectsAgree, Required, Decisions
  <2>6. JobFits(a)'
    BY <1>1, <2>1, <2>2 DEF JobFits, HoldingSteps, DecidingSteps, DecidedSteps,
       ExecutingSteps, RollingBackSteps, planRows
  <2>. QED
    BY <1>1, <2>1, <2>2, <2>3, <2>4, <2>5, <2>6, OnlyObjectsMove
<1>. QED
  BY <1>2, <1>3

LEMMA SetDecisionKeeps ==
  ASSUME PlanIInv, NEW a \in PlanActors, PlanSetDecision(a)
  PROVE  Keeps(a)
<1>. DEFINE v == planJob[a].value
            object == [crdPlan EXCEPT !.decision = v]
<1>1. /\ planJob[a].step = "setDecision" /\ v \in Decisions /\ crdApproval = v /\ dbPlan # None
      /\ JobFits(a) /\ PlanTypes /\ UNCHANGED <<planKind, planRows, crdApproval, crdRun>>
      /\ crdPlan' = object /\ PlanHold(a, "decideRead", None)
  BY JobKnown DEF PlanSetDecision, At, planConst, JobFits, DecidingSteps, PlanGo
<1>2. Required /\ crdPlan # None /\ crdPlan \in PlanObjects
  BY <1>1, JobKnown DEF PlanIInv, ObjectsAgree, Decisions
<1>3. /\ object \in PlanObjects /\ object # None /\ object.decision = v
      /\ object.exec = crdPlan.exec /\ object.rollback = crdPlan.rollback
  BY <1>1, <1>2, ObjectChanges, NoneApart
<1>. HIDE DEF object
<1>4. Advances
  BY <1>1, <1>2, <1>3 DEF PlanIInv, ObjectsAgree, Advances, planRows, Decisions
<1>5. ObjectsAgree'
  BY <1>1, <1>2, <1>3 DEF PlanIInv, ObjectsAgree, Required, Decisions
<1>6. /\ planJob' \in [PlanActors -> PlanJobs] /\ Leaves(a) /\ planJob'[a].step = "decideRead"
      /\ planJob'[a].copy = None /\ planJob'[a].value = v
  BY <1>1, HoldMoves DEF PlanSteps
<1>7. JobFits(a)'
  BY <1>1, <1>3, <1>6 DEF JobFits, HoldingSteps, DecidingSteps, DecidedSteps,
     ExecutingSteps, RollingBackSteps, planRows
<1>8. crdApproval' \in {"pending", "none"} \cup Decisions
  BY <1>1
<1>. QED
  BY <1>1, <1>3, <1>4, <1>5, <1>6, <1>7, <1>8, OnlyObjectsMove

LEMMA RequestExecutionKeeps ==
  ASSUME PlanIInv, NEW a \in PlanActors, PlanRequestExecution(a)
  PROVE  Keeps(a)
<1>. DEFINE object == [crdPlan EXCEPT !.exec = TRUE]
<1>1. /\ planJob[a].step = "request" /\ dbPlan # None /\ JobFits(a) /\ PlanTypes
      /\ UNCHANGED <<planKind, planRows, crdApproval, crdRun>>
  BY JobKnown DEF PlanRequestExecution, At, planConst, JobFits
<1>2. CASE ~Executable
  BY <1>1, <1>2, EndMoves, OnlyJobMoves DEF PlanRequestExecution, planObjects
<1>3. CASE Executable
  <2>1. /\ crdPlan \in PlanObjects /\ crdPlan # None /\ (Required => crdPlan.decision = "approved")
        /\ crdPlan' = object /\ PlanHold(a, "executeRead", None)
    BY <1>3, JobKnown DEF PlanRequestExecution, Executable, PlanGo
  <2>2. /\ object \in PlanObjects /\ object # None /\ object.decision = crdPlan.decision
        /\ object.exec /\ object.rollback = crdPlan.rollback
    BY <2>1, NoneApart DEF PlanObjects
  <2>. HIDE DEF object
  <2>3. Advances
    BY <1>1, <2>1, <2>2 DEF Advances, planRows
  <2>4. ObjectsAgree'
    BY <1>1, <2>1, <2>2 DEF PlanIInv, ObjectsAgree, Required
  <2>5. /\ planJob' \in [PlanActors -> PlanJobs] /\ Leaves(a)
        /\ planJob'[a].step = "executeRead" /\ planJob'[a].copy = None
    BY <1>1, <2>1, HoldMoves DEF PlanSteps
  <2>6. JobFits(a)'
    BY <1>1, <2>1, <2>2, <2>5 DEF JobFits, HoldingSteps, DecidingSteps, DecidedSteps,
       ExecutingSteps, RollingBackSteps, planRows
  <2>7. crdApproval' \in {"pending", "none"} \cup Decisions
    BY <1>1 DEF PlanTypes, PlanTypeOK
  <2>. QED
    BY <1>1, <2>1, <2>2, <2>3, <2>4, <2>5, <2>6, <2>7, OnlyObjectsMove
<1>. QED
  BY <1>2, <1>3

LEMMA RequestRollbackKeeps ==
  ASSUME PlanIInv, NEW a \in PlanActors, PlanRequestRollback(a)
  PROVE  Keeps(a)
<1>. DEFINE object == [crdPlan EXCEPT !.rollback = TRUE]
<1>1. /\ planJob[a].step = "rollback" /\ dbPlan # None /\ JobFits(a) /\ PlanTypes
      /\ UNCHANGED <<planKind, planRows, crdApproval, crdRun>>
      /\ crdPlan # None /\ crdPlan \in PlanObjects
      /\ crdPlan' = object /\ PlanHold(a, "rollbackRun", None)
  BY JobKnown DEF PlanRequestRollback, At, planConst, JobFits, PlanGo
<1>2. /\ object \in PlanObjects /\ object # None /\ object.decision = crdPlan.decision
      /\ object.exec = crdPlan.exec /\ object.rollback
  BY <1>1, NoneApart DEF PlanObjects
<1>. HIDE DEF object
<1>3. Advances
  BY <1>1, <1>2 DEF Advances, planRows
<1>4. ObjectsAgree'
  BY <1>1, <1>2 DEF PlanIInv, ObjectsAgree, Required
<1>5. /\ planJob' \in [PlanActors -> PlanJobs] /\ Leaves(a)
      /\ planJob'[a].step = "rollbackRun" /\ planJob'[a].copy = None
  BY <1>1, HoldMoves DEF PlanSteps
<1>6. JobFits(a)'
  BY <1>1, <1>2, <1>5 DEF JobFits, HoldingSteps, DecidingSteps, DecidedSteps,
     ExecutingSteps, RollingBackSteps, planRows
<1>7. crdApproval' \in {"pending", "none"} \cup Decisions
  BY <1>1 DEF PlanTypes, PlanTypeOK
<1>. QED
  BY <1>1, <1>2, <1>3, <1>4, <1>5, <1>6, <1>7, OnlyObjectsMove

-----------------------------------------------------------------------------
(* The rows *)

\* The steps of one method: what the objects had at its start, they still have,
\* and a copy read from the plan's row agrees with them.
LEMMA NextFits ==
  ASSUME PlanIInv, NEW a \in PlanActors, NEW step, NEW copy \in {dbPlan, None},
         PlanHold(a, step, copy),
         UNCHANGED <<planKind, planObjects>>, dbPlan' # None,
         step \in HoldingSteps => copy = dbPlan,
         \/ planJob[a].step \in DecidedSteps /\ step \in DecidedSteps
         \/ planJob[a].step \in ExecutingSteps /\ step \in ExecutingSteps
         \/ planJob[a].step \in RollingBackSteps /\ step \in RollingBackSteps
  PROVE  planJob' \in [PlanActors -> PlanJobs] /\ Leaves(a) /\ JobFits(a)'
<1>1. JobFits(a) /\ PlanTypes /\ planJob[a].step # "idle"
  BY JobKnown DEF DecidedSteps, ExecutingSteps, RollingBackSteps
<1>2. step \in PlanSteps /\ dbPlan \in PlanRows /\ dbPlan # None /\ copy \in PlanRows \cup {None}
  BY <1>1, JobKnown, NoneApart
     DEF DecidedSteps, ExecutingSteps, RollingBackSteps, PlanSteps
<1>3. /\ planJob' \in [PlanActors -> PlanJobs] /\ Leaves(a)
      /\ planJob'[a].step = step /\ planJob'[a].copy = copy
      /\ planJob'[a].value = planJob[a].value
  BY <1>1, <1>2, HoldMoves
<1>4. Required /\ copy # None /\ copy.decision \in Decisions =>
        crdPlan # None /\ crdPlan.decision = copy.decision
  BY DEF PlanIInv, RowsAgree, RowsFollowCluster
<1>5. /\ step \in DecidingSteps =>
           planJob[a].value \in Decisions /\ crdApproval = planJob[a].value
      /\ step \in DecidedSteps => crdPlan # None /\ crdPlan.decision = planJob[a].value
      /\ step \in ExecutingSteps => crdPlan # None /\ crdPlan.exec
      /\ step \in RollingBackSteps => crdPlan # None /\ crdPlan.rollback
  BY <1>1 DEF JobFits, DecidedSteps, DecidingSteps, ExecutingSteps, RollingBackSteps
<1>6. step \notin {"createApproval", "rollback", "decide", "mirror"}
  BY DEF DecidedSteps, ExecutingSteps, RollingBackSteps
<1>7. JobFits(a)'
  BY <1>2, <1>3, <1>4, <1>5, <1>6 DEF JobFits, Required, planObjects
<1>. QED
  BY <1>3, <1>7

LEMMA ReadKeeps ==
  ASSUME PlanIInv, NEW a \in PlanActors,
         PlanDecideRead(a) \/ PlanDecidePlanRead(a) \/ PlanExecuteRead(a) \/ PlanFail(a)
  PROVE  Keeps(a)
<1>1. UNCHANGED <<planKind, planRows, planObjects>> /\ PlanTypes /\ JobFits(a)
  BY JobKnown DEF PlanDecideRead, PlanDecidePlanRead, PlanExecuteRead, PlanFail, planConst
<1>2. CASE PlanAbort(a)
  BY <1>1, <1>2, EndMoves, OnlyJobMoves
<1>3. CASE At(a, "decideRead") /\ PlanGo(a, "decideApproval")
  BY <1>1, <1>3, NextFits, OnlyJobMoves
     DEF At, PlanGo, DecidedSteps, HoldingSteps, JobFits, planRows
<1>4. CASE At(a, "decidePlanRead") /\ PlanHold(a, "decidePlan", dbPlan)
  BY <1>1, <1>4, NextFits, OnlyJobMoves DEF At, DecidedSteps, JobFits, planRows
<1>5. CASE At(a, "executeRead") /\ PlanHold(a, "executePlan", dbPlan)
  BY <1>1, <1>5, NextFits, OnlyJobMoves DEF At, ExecutingSteps, JobFits, planRows
<1>. QED
  BY <1>2, <1>3, <1>4, <1>5 DEF PlanDecideRead, PlanDecidePlanRead, PlanExecuteRead, PlanFail

\* A write of the plan's row that keeps or corrects its decision.
LEMMA RowStaysBehind ==
  ASSUME PlanIInv, UNCHANGED <<planKind, planObjects, dbApproval>>,
         dbPlan' \in PlanRows,
         Required /\ dbPlan'.decision \in Decisions =>
             crdPlan # None /\ crdPlan.decision = dbPlan'.decision,
         dbRun' = "execution_requested" => crdPlan # None /\ crdPlan.exec,
         dbRun' = "rollback_requested" => crdPlan # None /\ crdPlan.rollback
  PROVE  /\ RowsFollowCluster' /\ RowDecisionStays
         /\ dbApproval' \in {"pending", "none"} \cup Decisions
<1>1. RowsFollowCluster'
  BY DEF PlanIInv, RowsAgree, RowsFollowCluster, planObjects, Required
<1>. QED
  BY <1>1 DEF RowDecisionStays, PlanIInv, PlanTypes, PlanTypeOK

LEMMA DecideSaveKeeps ==
  ASSUME PlanIInv, NEW a \in PlanActors, PlanDecideSave(a)
  PROVE  Keeps(a)
<1>. DEFINE v == planJob[a].value
<1>1. /\ planJob[a].step = "decideApproval" /\ PlanHold(a, "decidePlanRead", None)
      /\ UNCHANGED <<planKind, planObjects, dbPlan, dbRun>> /\ dbApproval' = v
      /\ dbPlan \in PlanRows /\ dbPlan # None
      /\ v \in Decisions /\ crdApproval = v
  BY JobKnown, NoneApart DEF PlanDecideSave, At, planConst, PlanGo, JobFits, DecidingSteps, DecidedSteps
<1>2. RowsFollowCluster' /\ RowDecisionStays
  BY <1>1 DEF PlanIInv, RowsAgree, RowsFollowCluster, RowDecisionStays, planObjects, Required
<1>3. planJob' \in [PlanActors -> PlanJobs] /\ Leaves(a) /\ JobFits(a)'
  BY <1>1, NextFits DEF DecidedSteps, HoldingSteps
<1>. QED
  BY <1>1, <1>2, <1>3, OnlyRowsMove

LEMMA DecidePlanKeeps ==
  ASSUME PlanIInv, NEW a \in PlanActors, PlanDecidePlan(a)
  PROVE  Keeps(a)
<1>. DEFINE v == planJob[a].value
            row == DecidedPlan(planJob[a].copy, v)
<1>1. /\ planJob[a].step = "decidePlan" /\ PlanHold(a, "decideRun", None)
      /\ UNCHANGED <<planKind, planObjects, dbApproval, dbRun>> /\ dbPlan' \in {row, dbPlan}
      /\ dbPlan \in PlanRows /\ planJob[a].copy \in PlanRows
      /\ v \in Decisions /\ crdPlan # None /\ crdPlan.decision = v
  BY JobKnown DEF PlanDecidePlan, At, planConst, PlanGo, JobFits, DecidingSteps, DecidedSteps,
     HoldingSteps
<1>2. row \in PlanRows /\ row.decision = v
  BY <1>1, RowChanges
<1>. HIDE DEF row
<1>3. dbPlan' \in PlanRows /\ dbPlan' # None /\ dbPlan # None
  BY <1>1, <1>2, NoneApart
<1>4. /\ Required /\ dbPlan'.decision \in Decisions =>
           crdPlan # None /\ crdPlan.decision = dbPlan'.decision
      /\ dbRun' = "execution_requested" => crdPlan # None /\ crdPlan.exec
      /\ dbRun' = "rollback_requested" => crdPlan # None /\ crdPlan.rollback
  BY <1>1, <1>2, <1>3 DEF PlanIInv, RowsAgree, RowsFollowCluster
<1>5. planJob' \in [PlanActors -> PlanJobs] /\ Leaves(a) /\ JobFits(a)'
  BY <1>1, <1>3, NextFits DEF DecidedSteps, HoldingSteps
<1>. QED
  BY <1>1, <1>3, <1>4, <1>5, RowStaysBehind, OnlyRowsMove

LEMMA DecideRunKeeps ==
  ASSUME PlanIInv, NEW a \in PlanActors, PlanDecideRun(a)
  PROVE  Keeps(a)
<1>1. /\ planJob[a].step = "decideRun" /\ PlanHold(a, "decideFinding", None)
      /\ UNCHANGED <<planKind, planObjects, dbApproval, dbPlan>>
      /\ dbRun' \in {"approved", "failed", dbRun}
      /\ dbPlan \in PlanRows /\ dbPlan # None
  BY JobKnown, NoneApart DEF PlanDecideRun, DecidedRun, At, planConst, PlanGo
<1>2. /\ Required /\ dbPlan'.decision \in Decisions =>
           crdPlan # None /\ crdPlan.decision = dbPlan'.decision
      /\ dbRun' = "execution_requested" => crdPlan # None /\ crdPlan.exec
      /\ dbRun' = "rollback_requested" => crdPlan # None /\ crdPlan.rollback
  BY <1>1 DEF PlanIInv, RowsAgree, RowsFollowCluster
<1>3. planJob' \in [PlanActors -> PlanJobs] /\ Leaves(a) /\ JobFits(a)'
  BY <1>1, NextFits DEF DecidedSteps, HoldingSteps
<1>. QED
  BY <1>1, <1>2, <1>3, RowStaysBehind, OnlyRowsMove

LEMMA FindingKeeps ==
  ASSUME PlanIInv, NEW a \in PlanActors, PlanDecideFinding(a) \/ PlanExecuteFinding(a)
  PROVE  Keeps(a)
<1>1. /\ UNCHANGED <<planKind, planObjects, dbApproval, dbPlan, dbRun>> /\ PlanDone(a)
      /\ dbPlan \in PlanRows /\ dbPlan # None /\ PlanTypes
  BY JobKnown, NoneApart DEF PlanDecideFinding, PlanExecuteFinding, At, planConst
<1>2. /\ Required /\ dbPlan'.decision \in Decisions =>
           crdPlan # None /\ crdPlan.decision = dbPlan'.decision
      /\ dbRun' = "execution_requested" => crdPlan # None /\ crdPlan.exec
      /\ dbRun' = "rollback_requested" => crdPlan # None /\ crdPlan.rollback
  BY <1>1 DEF PlanIInv, RowsAgree, RowsFollowCluster
<1>. QED
  BY <1>1, <1>2, EndMoves, RowStaysBehind, OnlyRowsMove

LEMMA ExecutePlanKeeps ==
  ASSUME PlanIInv, NEW a \in PlanActors, PlanExecutePlan(a)
  PROVE  Keeps(a)
<1>. DEFINE row == [planJob[a].copy EXCEPT !.status = "execution_requested"]
<1>1. /\ planJob[a].step = "executePlan" /\ PlanHold(a, "executeRun", None) /\ JobFits(a)
      /\ UNCHANGED <<planKind, planObjects, dbApproval, dbRun>> /\ dbPlan' = row
      /\ planJob[a].copy \in PlanRows /\ planJob[a].copy # None
  BY JobKnown, NoneApart DEF PlanExecutePlan, At, planConst, PlanGo, HoldingSteps
<1>2. row \in PlanRows /\ row # None /\ row.decision = planJob[a].copy.decision
  BY <1>1, NoneApart DEF PlanRows
<1>. HIDE DEF row
<1>3. /\ Required /\ dbPlan'.decision \in Decisions =>
           crdPlan # None /\ crdPlan.decision = dbPlan'.decision
      /\ dbRun' = "execution_requested" => crdPlan # None /\ crdPlan.exec
      /\ dbRun' = "rollback_requested" => crdPlan # None /\ crdPlan.rollback
  BY <1>1, <1>2 DEF JobFits, PlanIInv, RowsAgree, RowsFollowCluster
<1>4. planJob' \in [PlanActors -> PlanJobs] /\ Leaves(a) /\ JobFits(a)'
  BY <1>1, <1>2, NextFits DEF ExecutingSteps, HoldingSteps
<1>. QED
  BY <1>1, <1>2, <1>3, <1>4, RowStaysBehind, OnlyRowsMove

LEMMA ExecuteRunKeeps ==
  ASSUME PlanIInv, NEW a \in PlanActors, PlanExecuteRun(a)
  PROVE  Keeps(a)
<1>1. /\ planJob[a].step = "executeRun" /\ PlanHold(a, "executeFinding", None)
      /\ UNCHANGED <<planKind, planObjects, dbApproval, dbPlan>>
      /\ dbRun' = "execution_requested" /\ dbPlan \in PlanRows /\ dbPlan # None
      /\ crdPlan # None /\ crdPlan.exec
  BY JobKnown, NoneApart DEF PlanExecuteRun, At, planConst, PlanGo, JobFits, ExecutingSteps
<1>2. Required /\ dbPlan'.decision \in Decisions =>
        crdPlan # None /\ crdPlan.decision = dbPlan'.decision
  BY <1>1 DEF PlanIInv, RowsAgree, RowsFollowCluster
<1>3. planJob' \in [PlanActors -> PlanJobs] /\ Leaves(a) /\ JobFits(a)'
  BY <1>1, NextFits DEF ExecutingSteps, HoldingSteps
<1>. QED
  BY <1>1, <1>2, <1>3, RowStaysBehind, OnlyRowsMove

LEMMA RollbackRunKeeps ==
  ASSUME PlanIInv, NEW a \in PlanActors, PlanRollbackRun(a)
  PROVE  Keeps(a)
<1>1. /\ planJob[a].step = "rollbackRun" /\ PlanHold(a, "rollbackPlan", dbPlan)
      /\ UNCHANGED <<planKind, planObjects, dbApproval, dbPlan>>
      /\ dbRun' = "rollback_requested" /\ dbPlan \in PlanRows /\ dbPlan # None
      /\ crdPlan # None /\ crdPlan.rollback
  BY JobKnown, NoneApart DEF PlanRollbackRun, At, planConst, JobFits, RollingBackSteps
<1>2. Required /\ dbPlan'.decision \in Decisions =>
        crdPlan # None /\ crdPlan.decision = dbPlan'.decision
  BY <1>1 DEF PlanIInv, RowsAgree, RowsFollowCluster
<1>3. planJob' \in [PlanActors -> PlanJobs] /\ Leaves(a) /\ JobFits(a)'
  BY <1>1, NextFits DEF RollingBackSteps
<1>. QED
  BY <1>1, <1>2, <1>3, RowStaysBehind, OnlyRowsMove

LEMMA RollbackPlanKeeps ==
  ASSUME PlanIInv, NEW a \in PlanActors, PlanRollbackPlan(a)
  PROVE  Keeps(a)
<1>. DEFINE row == [planJob[a].copy EXCEPT !.status = "rollback_requested"]
<1>1. /\ PlanDone(a) /\ JobFits(a) /\ PlanTypes
      /\ UNCHANGED <<planKind, planObjects, dbApproval, dbRun>> /\ dbPlan' \in {row, dbPlan}
      /\ planJob[a].copy \in PlanRows /\ planJob[a].copy # None /\ dbPlan \in PlanRows
      /\ dbPlan # None
  BY JobKnown, NoneApart DEF PlanRollbackPlan, At, planConst, HoldingSteps
<1>2. row \in PlanRows /\ row # None /\ row.decision = planJob[a].copy.decision
  BY <1>1, NoneApart DEF PlanRows
<1>. HIDE DEF row
<1>3. /\ Required /\ dbPlan'.decision \in Decisions =>
           crdPlan # None /\ crdPlan.decision = dbPlan'.decision
      /\ dbRun' = "execution_requested" => crdPlan # None /\ crdPlan.exec
      /\ dbRun' = "rollback_requested" => crdPlan # None /\ crdPlan.rollback
  BY <1>1, <1>2 DEF JobFits, PlanIInv, RowsAgree, RowsFollowCluster
<1>. QED
  BY <1>1, <1>2, <1>3, EndMoves, RowStaysBehind, OnlyRowsMove

\* SyncRemediationRun is one step in both stores.
LEMMA MirrorKeeps ==
  ASSUME PlanIInv, NEW a \in PlanActors, PlanMirror(a) \/ PlanMemMirror(a)
  PROVE  Keeps(a)
<1>. DEFINE v == planJob[a].value
            row == [dbPlan EXCEPT !.status = v]
<1>1. /\ PlanDone(a) /\ PlanTypes /\ v \in PlanRunStates
      /\ UNCHANGED <<planKind, planObjects, dbApproval>> /\ dbRun' = v
      /\ dbPlan' = MirroredPlan(dbPlan, v) /\ dbPlan \in PlanRows \cup {None}
  BY JobKnown DEF PlanMirror, PlanMemMirror, At, planConst, JobFits
<1>2. v \notin {"execution_requested", "rollback_requested"}
  BY <1>1, PlanAssumption
<1>. HIDE DEF v
<1>3. CASE dbPlan # None
  <2>1. dbPlan \in PlanRows /\ dbPlan' = row
    BY <1>1, <1>3 DEF MirroredPlan
  <2>2. row \in PlanRows /\ row # None /\ row.decision = dbPlan.decision
    BY <1>1, <2>1, NoneApart DEF PlanRows
  <2>. HIDE DEF row
  <2>3. /\ Required /\ dbPlan'.decision \in Decisions =>
             crdPlan # None /\ crdPlan.decision = dbPlan'.decision
        /\ dbRun' = "execution_requested" => crdPlan # None /\ crdPlan.exec
        /\ dbRun' = "rollback_requested" => crdPlan # None /\ crdPlan.rollback
    BY <1>1, <1>2, <1>3, <2>1, <2>2 DEF PlanIInv, RowsAgree, RowsFollowCluster
  <2>. QED
    BY <1>1, <2>1, <2>2, <2>3, EndMoves, RowStaysBehind, OnlyRowsMove
<1>4. CASE dbPlan = None
  <2>1. dbPlan' = None /\ dbApproval' = dbApproval
    BY <1>1, <1>4 DEF MirroredPlan
  <2>2. /\ planJob' \in [PlanActors -> PlanJobs] /\ Leaves(a) /\ JobFits(a)'
    BY <1>1, EndMoves
  <2>3. RowsAgree'
    BY <1>1, <1>2, <1>4, <2>1 DEF PlanIInv, RowsAgree, RowsFollowCluster, planObjects, Required
  <2>4. PlanTypes' /\ ObjectsAgree'
    BY <1>1, <2>1, <2>2 DEF PlanIInv, PlanTypes, PlanTypeOK, ObjectsAgree, planObjects, Required
  <2>5. Advances /\ RowDecisionStays
    BY <1>1, <1>4, <2>1 DEF Advances, RowDecisionStays, planObjects, Required
  <2>. QED
    BY <2>2, <2>3, <2>4, <2>5 DEF Keeps
<1>. QED
  BY <1>3, <1>4

LEMMA MemDecideKeeps ==
  ASSUME PlanIInv, NEW a \in PlanActors, PlanMemDecide(a)
  PROVE  Keeps(a)
<1>. DEFINE d == planJob[a].value
            row == DecidedPlan(dbPlan, d)
<1>1. /\ planJob[a].step = "decideRead" /\ PlanTypes /\ UNCHANGED <<planKind, planObjects>>
      /\ dbPlan \in PlanRows /\ dbPlan # None
      /\ d \in Decisions /\ crdApproval = d /\ crdPlan # None /\ crdPlan.decision = d
  BY JobKnown, NoneApart DEF PlanMemDecide, At, planConst, JobFits, DecidingSteps, DecidedSteps
<1>2. CASE dbApproval # "pending"
  BY <1>1, <1>2, EndMoves, OnlyJobMoves DEF PlanMemDecide
<1>3. CASE dbApproval = "pending"
  <2>1. /\ PlanDone(a) /\ dbApproval' = d /\ dbPlan' = row /\ dbRun' \in {"approved", "failed"}
    BY <1>3 DEF PlanMemDecide, DecidedRun
  <2>2. row \in PlanRows /\ row.decision = d
    BY <1>1, RowChanges
  <2>. HIDE DEF row
  <2>3. RowsFollowCluster' /\ RowDecisionStays
    BY <1>1, <1>3, <2>1, <2>2
       DEF RowsFollowCluster, RowDecisionStays, planObjects, Required, Decisions
  <2>. QED
    BY <1>1, <2>1, <2>2, <2>3, EndMoves, OnlyRowsMove
<1>. QED
  BY <1>2, <1>3

LEMMA MemExecuteKeeps ==
  ASSUME PlanIInv, NEW a \in PlanActors, PlanMemExecute(a)
  PROVE  Keeps(a)
<1>. DEFINE row == [dbPlan EXCEPT !.status = "execution_requested"]
<1>1. /\ PlanTypes /\ UNCHANGED <<planKind, planObjects, dbApproval>>
      /\ dbPlan \in PlanRows /\ dbPlan # None /\ crdPlan # None /\ crdPlan.exec
  BY JobKnown, NoneApart DEF PlanMemExecute, At, planConst, JobFits, ExecutingSteps
<1>2. CASE ~RowExecutable(dbPlan)
  BY <1>1, <1>2, EndMoves, OnlyJobMoves DEF PlanMemExecute, planRows
<1>3. CASE RowExecutable(dbPlan)
  <2>1. PlanDone(a) /\ dbPlan' = row /\ dbRun' = "execution_requested"
    BY <1>3 DEF PlanMemExecute
  <2>2. row \in PlanRows /\ row # None /\ row.decision = dbPlan.decision
    BY <1>1, NoneApart DEF PlanRows
  <2>. HIDE DEF row
  <2>3. Required /\ dbPlan'.decision \in Decisions =>
          crdPlan # None /\ crdPlan.decision = dbPlan'.decision
    BY <1>1, <2>1, <2>2 DEF PlanIInv, RowsAgree, RowsFollowCluster
  <2>. QED
    BY <1>1, <2>1, <2>2, <2>3, EndMoves, RowStaysBehind, OnlyRowsMove
<1>. QED
  BY <1>2, <1>3

LEMMA MemRollbackKeeps ==
  ASSUME PlanIInv, NEW a \in PlanActors, PlanMemRollback(a)
  PROVE  Keeps(a)
<1>. DEFINE row == [dbPlan EXCEPT !.status = "rollback_requested"]
<1>1. /\ PlanTypes /\ UNCHANGED <<planKind, planObjects, dbApproval>> /\ PlanDone(a)
      /\ dbPlan \in PlanRows /\ dbPlan # None /\ crdPlan # None /\ crdPlan.rollback
      /\ dbPlan' = row /\ dbRun' = "rollback_requested"
  BY JobKnown, NoneApart DEF PlanMemRollback, At, planConst, JobFits, RollingBackSteps
<1>2. row \in PlanRows /\ row # None /\ row.decision = dbPlan.decision
  BY <1>1, NoneApart DEF PlanRows
<1>. HIDE DEF row
<1>3. Required /\ dbPlan'.decision \in Decisions =>
        crdPlan # None /\ crdPlan.decision = dbPlan'.decision
  BY <1>1, <1>2 DEF PlanIInv, RowsAgree, RowsFollowCluster
<1>. QED
  BY <1>1, <1>2, <1>3, EndMoves, RowStaysBehind, OnlyRowsMove

-----------------------------------------------------------------------------
(* Every step *)

LEMMA StepKeeps ==
  ASSUME PlanIInv, NEW a \in PlanActors, PlanStep(a)
  PROVE  Keeps(a)
<1>1. CASE PlanCreateRow(a) \/ PlanAnalysed(a) \/ PlanNotAnalysed(a) \/ PlanSync(a)
  BY <1>1, CreateRowKeeps, AnalysedKeeps, NotAnalysedKeeps, SyncKeeps
<1>2. CASE PlanCreateObject(a) \/ PlanCreateApproval(a)
  BY <1>2, CreateObjectKeeps, CreateApprovalKeeps
<1>3. CASE \/ \E d \in Decisions : PlanStart(a, "decide", d)
           \/ PlanStart(a, "request", "none")
           \/ PlanStartRollback(a) \/ PlanStartMirror(a)
  BY <1>3, StartKeeps
<1>4. CASE PlanDecideApproval(a) \/ PlanSetDecision(a)
  BY <1>4, DecideApprovalKeeps, SetDecisionKeeps
<1>5. CASE PlanRequestExecution(a) \/ PlanRequestRollback(a)
  BY <1>5, RequestExecutionKeeps, RequestRollbackKeeps
<1>6. CASE PlanDecideRead(a) \/ PlanDecidePlanRead(a) \/ PlanExecuteRead(a) \/ PlanFail(a)
  BY <1>6, ReadKeeps
<1>7. CASE PlanDecideSave(a) \/ PlanDecidePlan(a) \/ PlanDecideRun(a)
  BY <1>7, DecideSaveKeeps, DecidePlanKeeps, DecideRunKeeps
<1>8. CASE \/ PlanDecideFinding(a) \/ PlanExecuteFinding(a)
           \/ PlanExecutePlan(a) \/ PlanExecuteRun(a)
  BY <1>8, FindingKeeps, ExecutePlanKeeps, ExecuteRunKeeps
<1>9. CASE PlanRollbackRun(a) \/ PlanRollbackPlan(a) \/ PlanMirror(a) \/ PlanMemMirror(a)
  BY <1>9, RollbackRunKeeps, RollbackPlanKeeps, MirrorKeeps
<1>10. CASE PlanMemDecide(a) \/ PlanMemExecute(a) \/ PlanMemRollback(a)
  BY <1>10, MemDecideKeeps, MemExecuteKeeps, MemRollbackKeeps
<1>. QED
  BY <1>1, <1>2, <1>3, <1>4, <1>5, <1>6, <1>7, <1>8, <1>9, <1>10 DEF PlanStep

\* A restart ends every request; rows that it loses show nothing.
LEMMA RestartKeeps ==
  ASSUME PlanIInv, PlanRestart
  PROVE  PlanIInv' /\ RowDecisionStays /\ UNCHANGED <<planKind, planObjects>>
<1>1. UNCHANGED <<planKind, planObjects>> /\ planJob' = [a \in PlanActors |-> PlanIdle]
  BY DEF PlanRestart, planConst
<1>2. planJob' \in [PlanActors -> PlanJobs] /\ \A a \in PlanActors : JobFits(a)'
  BY <1>1, IdleTyped, IdleFits
<1>3. ObjectsAgree'
  BY <1>1 DEF PlanIInv, ObjectsAgree, planObjects, Required
<1>4. PlanTypes' /\ RowsAgree' /\ RowDecisionStays
  <2>1. CASE InMemory
    <3>1. dbPlan' = None /\ dbApproval' = "none" /\ dbRun' = "none"
      BY <2>1 DEF PlanRestart
    <3>. QED
      BY <1>1, <1>2, <2>1, <3>1 DEF PlanIInv, PlanTypes, PlanTypeOK, RowsAgree, RowsFollowCluster,
         RowDecisionStays, planObjects, Decisions
  <2>2. CASE ~InMemory
    <3>1. UNCHANGED planRows
      BY <2>2 DEF PlanRestart
    <3>. QED
      BY <1>1, <1>2, <3>1 DEF PlanIInv, PlanTypes, PlanTypeOK, RowsAgree, RowsFollowCluster,
         RowDecisionStays, planObjects, planRows, Required
  <2>. QED
    BY <2>1, <2>2
<1>. QED
  BY <1>1, <1>2, <1>3, <1>4 DEF PlanIInv

\* The steps that are nobody's request.
LEMMA OtherStepsKeep ==
  ASSUME PlanIInv, PlanOperator \/ PlanCalmDown \/ UNCHANGED planVars
  PROVE  PlanIInv' /\ UNCHANGED <<planKind, dbApproval, crdPlan, crdApproval>>
<1>1. /\ UNCHANGED <<planKind, planRows, crdPlan, crdApproval, planJob>>
      /\ crdRun' = crdRun \/ (crdPlan # None /\ crdRun' \in PlanRunStates)
  BY DEF PlanOperator, PlanCalmDown, planVars, planConst, planObjects, planRows
<1>2. \A a \in PlanActors : JobFits(a)'
  BY <1>1 DEF PlanIInv, JobFits, planRows, Required
<1>3. PlanTypes' /\ ObjectsAgree' /\ RowsAgree'
  BY <1>1 DEF PlanIInv, PlanTypes, PlanTypeOK, ObjectsAgree, RowsAgree, RowsFollowCluster,
     planRows, Required
<1>. QED
  BY <1>1, <1>2, <1>3 DEF PlanIInv, planRows

LEMMA PlanInductive ==
  ASSUME PlanIInv, [PlanNext]_planVars
  PROVE  PlanIInv'
<1>1. CASE \E a \in PlanActors : PlanStep(a)
  BY <1>1, StepKeeps, KeepsAll
<1>. QED
  BY <1>1, RestartKeeps, OtherStepsKeep DEF PlanNext

LEMMA PlanInitial ==
  ASSUME PlanInit
  PROVE  PlanIInv
<1>1. planJob \in [PlanActors -> PlanJobs]
  BY IdleTyped DEF PlanInit
<1>2. PlanTypes /\ ObjectsAgree /\ RowsAgree
  BY <1>1 DEF PlanInit, PlanTypes, PlanTypeOK, ObjectsAgree, RowsAgree, RowsFollowCluster,
     Decisions
<1>3. \A a \in PlanActors : planJob[a].step = "idle" /\ planJob[a].copy = None
  BY DEF PlanInit, PlanIdle
<1>4. \A a \in PlanActors : JobFits(a)
  BY <1>3 DEF JobFits, HoldingSteps, DecidingSteps, DecidedSteps, ExecutingSteps,
     RollingBackSteps
<1>. QED
  BY <1>2, <1>4 DEF PlanIInv

LEMMA PlanInvariant == PlanSpec => []PlanIInv
  BY PlanInitial, PlanInductive, PTL DEF PlanSpec

\* Execution of a plan that needs an approval is requested only after the
\* ApprovalRequest was approved, with any number of users and agents racing,
\* failing half-way and starting again (RequestExecution, DecideApproval).
THEOREM ExecutionIsApproved == PlanSpec => []ExecutionApproved
<1>1. PlanIInv => ExecutionApproved
  BY DEF PlanIInv, ObjectsAgree, ExecutionApproved, Decisions
<1>. QED
  BY <1>1, PlanInvariant, PTL

\* The rows of both stores show a decision, an execution or a rollback only if
\* the custom resources have it (decideApproval, executeRemediationPlan,
\* rollbackRemediationRun).
THEOREM RowsBehindCluster == PlanSpec => []RowsFollowCluster
<1>1. PlanIInv => RowsFollowCluster
  BY DEF PlanIInv, RowsAgree
<1>. QED
  BY <1>1, PlanInvariant, PTL

\* No request, replay, failure or restart takes a decision back or turns it
\* round, in the ApprovalRequest, the RemediationPlan or the approval's row
\* (DecideApproval, setPlanApprovalDecision, createIdempotent, decide).  Of the
\* plan's row it says nothing: SyncRemediationPlan writes the copy that an analysis
\* began with, which may be from before the decision.
THEOREM DecisionsAreFinal == PlanSpec => DecisionIsFinal
<1>. DEFINE Final ==
       /\ crdApproval \in Decisions => crdApproval' = crdApproval
       /\ Required /\ crdPlan # None /\ crdPlan.decision \in Decisions =>
            crdPlan'.decision = crdPlan.decision
       /\ dbApproval \in Decisions =>
            dbApproval' = dbApproval \/ (InMemory /\ dbApproval' = "none")
<1>1. ASSUME PlanIInv, [PlanNext]_planVars PROVE [Final]_planVars
  <2>1. CASE \E a \in PlanActors : PlanStep(a)
    <3>1. Advances /\ RowDecisionStays
      BY <1>1, <2>1, StepKeeps DEF Keeps
    <3>. QED
      BY <3>1 DEF Advances, RowDecisionStays
  <2>2. CASE PlanRestart
    BY <1>1, <2>2, RestartKeeps DEF RowDecisionStays, planObjects
  <2>3. CASE PlanOperator \/ PlanCalmDown
    BY <1>1, <2>3, OtherStepsKeep
  <2>4. CASE UNCHANGED planVars
    BY <2>4
  <2>. QED
    BY <1>1, <2>1, <2>2, <2>3, <2>4 DEF PlanNext
<1>. QED
  BY <1>1, PlanInvariant, PTL DEF PlanSpec, DecisionIsFinal

=============================================================================
