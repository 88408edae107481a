---------------------------- MODULE AdvisorProofs ----------------------------
(***************************************************************************)
(* What is proved about the AI advisor: what an outage costs with the      *)
(* circuit breaker, for any number of callers, and, for findings and plans *)
(* of every size, that buildRequestBody gives up only when nothing is left *)
(* to drop.                                                                *)
(*                                                                         *)
(* The argument for the request is a measure, Rest: how often a projection *)
(* can be shrunk at most.  Every rung of the ladder makes it smaller, and  *)
(* the largest projection has less of it than there are attempts.          *)
(***************************************************************************)
EXTENDS CircuitBreaker, AdvisorPrompt, FiniteSetTheorems, WellFoundedInduction, TLAPS

-----------------------------------------------------------------------------
(* The circuit breaker *)

\* While the circuit is closed the count is below the threshold.  Once it has been
\* opened, the failures and the requests that may still fail stay within the
\* bound, for until the cooldown is over no request joins those at the provider.
BreakerIInv ==
    /\ BreakerTypeOK
    /\ breakerOpen = NotOpen => breakerFailures < BreakerThreshold
    /\ breakerOpen >= 0 =>
         breakerFailures + Cardinality(breakerCalls)
            < BreakerThreshold + Cardinality(BreakerCallers)

LEMMA CallersCounted ==
    ASSUME NEW S \in SUBSET BreakerCallers
    PROVE  /\ IsFiniteSet(S) /\ Cardinality(S) \in Nat /\ Cardinality(BreakerCallers) \in Nat
           /\ Cardinality(S) <= Cardinality(BreakerCallers)
BY BreakerAssumption, FS_Subset, FS_CardinalityType

LEMMA BreakerStart == BreakerInit => BreakerIInv
BY BreakerAssumption, CallersCounted DEF BreakerInit, BreakerIInv, BreakerTypeOK, NotOpen

LEMMA BreakerKept == BreakerIInv /\ [BreakerNext]_breakerVars => BreakerIInv'
<1> SUFFICES ASSUME BreakerIInv, [BreakerNext]_breakerVars PROVE BreakerIInv'
  OBVIOUS
<1> USE BreakerAssumption
<1>t. /\ breakerCalls \subseteq BreakerCallers /\ breakerFailures \in Nat
      /\ breakerOpen \in -1 .. BreakerCooldown
  BY DEF BreakerIInv, BreakerTypeOK, NotOpen
<1>n. /\ IsFiniteSet(breakerCalls) /\ Cardinality(breakerCalls) \in Nat
      /\ Cardinality(BreakerCallers) \in Nat
      /\ Cardinality(breakerCalls) <= Cardinality(BreakerCallers)
  BY <1>t, CallersCounted
<1>1. ASSUME NEW c \in BreakerCallers, BreakerAdmit(c) PROVE BreakerIInv'
  <2>1. breakerCalls' \subseteq BreakerCallers /\ breakerOpen' = -1
    BY <1>1, <1>t DEF BreakerAdmit, NotOpen
  <2>2. breakerFailures' \in Nat /\ breakerFailures' < BreakerThreshold
    BY <1>1, <1>t DEF BreakerAdmit, BreakerIInv
  <2> QED
    BY <2>1, <2>2 DEF BreakerIInv, BreakerTypeOK, NotOpen
<1>2. ASSUME NEW c \in BreakerCallers, BreakerFail(c) PROVE BreakerIInv'
  <2>1. Cardinality(breakerCalls \ {c}) = Cardinality(breakerCalls) - 1
    BY <1>2, <1>n, FS_RemoveElement DEF BreakerFail
  <2>2. /\ breakerCalls' = breakerCalls \ {c} /\ breakerFailures' = breakerFailures + 1
        /\ breakerOpen' = IF breakerFailures' >= BreakerThreshold
                          THEN BreakerCooldown ELSE breakerOpen
    BY <1>2 DEF BreakerFail
  <2>3. BreakerTypeOK'
    BY <1>t, <2>2 DEF BreakerTypeOK, NotOpen
  <2>4. breakerOpen' = NotOpen => breakerFailures' < BreakerThreshold
    BY <1>t, <2>2 DEF NotOpen
  <2>5. ASSUME breakerOpen' >= 0
        PROVE  breakerFailures' + Cardinality(breakerCalls \ {c})
                 < BreakerThreshold + Cardinality(BreakerCallers)
    BY <1>t, <1>n, <2>1, <2>2, <2>5 DEF BreakerIInv, NotOpen
  <2> QED
    BY <2>2, <2>3, <2>4, <2>5 DEF BreakerIInv
<1>3. ASSUME NEW c \in BreakerCallers, BreakerSucceed(c) PROVE BreakerIInv'
  BY <1>3, <1>t DEF BreakerSucceed, BreakerIInv, BreakerTypeOK, NotOpen
<1>4. CASE BreakerTick
  BY <1>4, <1>t DEF BreakerTick, BreakerIInv, BreakerTypeOK, NotOpen
<1>5. CASE UNCHANGED breakerVars
  BY <1>5 DEF breakerVars, BreakerIInv, BreakerTypeOK
<1> QED
  BY <1>1, <1>2, <1>3, <1>4, <1>5 DEF BreakerNext

\* An outage of the provider costs at most one request per caller beyond the
\* threshold, for any number of callers (checkCircuit, recordFailure).
THEOREM OutagesAreCheap == BreakerSpec => []OutageCostsOneRequestEach
<1>1. BreakerIInv => OutageCostsOneRequestEach
  <2> SUFFICES ASSUME BreakerIInv PROVE OutageCostsOneRequestEach
    OBVIOUS
  <2>1. /\ breakerCalls \subseteq BreakerCallers /\ breakerFailures \in Nat
        /\ breakerOpen \in -1 .. BreakerCooldown
    BY DEF BreakerIInv, BreakerTypeOK, NotOpen
  <2>2. Cardinality(breakerCalls) \in Nat /\ Cardinality(BreakerCallers) \in Nat
    BY <2>1, CallersCounted
  <2> QED
    BY <2>1, <2>2, BreakerAssumption DEF OutageCostsOneRequestEach, BreakerIInv, NotOpen
<1> QED
  BY BreakerStart, BreakerKept, <1>1, PTL DEF BreakerSpec

-----------------------------------------------------------------------------
(* The request to the model provider *)

\* The parts that are counted, and the texts.
Counts == {"rollback", "verification", "categories", "evidence", "details", "summaries",
           "resources", "versions", "actions", "descriptions", "targets", "targetVersions",
           "labels"}
Texts == {"title", "blast", "advice", "rootCause", "id", "source", "planId", "findingId"}

\* Projections: no text is longer than 1055 runes (the longest limit is 900).
Prompts == {p \in [Counts \cup Texts -> Nat] : \A t \in Texts : p[t] <= 1055}

\* How often a text of n runes is cut at most: it is halved while it is longer
\* than 32 runes, and then cleared.
Rounds(n) == IF n = 0 THEN 0 ELSE IF n <= 32 THEN 1 ELSE IF n <= 65 THEN 2
             ELSE IF n <= 131 THEN 3 ELSE IF n <= 263 THEN 4 ELSE IF n <= 527 THEN 5 ELSE 6

\* How often a part of the projection p can still be cut.
Work(p, part) == IF part \in Texts THEN Rounds(p[part]) ELSE p[part]

\* The measure, summed by threes.
Three(p, a, b, c) == Work(p, a) + Work(p, b) + Work(p, c)

Rest(p) ==
    Three(p, "rollback", "verification", "categories")
    + Three(p, "evidence", "details", "summaries")
    + Three(p, "resources", "versions", "labels") + Three(p, "actions", "descriptions", "targets")
    + Three(p, "targetVersions", "title", "blast") + Three(p, "advice", "rootCause", "id")
    + Three(p, "source", "planId", "findingId")

\* q is left of p after something was dropped.
Below(q, p) ==
    /\ q \in Prompts
    /\ \A part \in Counts \cup Texts : Work(q, part) <= Work(p, part)
    /\ \E part \in Counts \cup Texts : Work(q, part) < Work(p, part)

-----------------------------------------------------------------------------
(* The measure *)

LEMMA WorkNat == ASSUME NEW p \in Prompts, NEW part \in Counts \cup Texts
                 PROVE  Work(p, part) \in Nat
BY DEF Work, Rounds, Prompts

LEMMA ThreeOrdered ==
    ASSUME NEW p \in Prompts, NEW q \in Prompts,
           NEW a \in Counts \cup Texts, NEW b \in Counts \cup Texts, NEW c \in Counts \cup Texts,
           \A part \in Counts \cup Texts : Work(q, part) <= Work(p, part),
           NEW part \in Counts \cup Texts, Work(q, part) < Work(p, part)
    PROVE  /\ Three(p, a, b, c) \in Nat /\ Three(q, a, b, c) \in Nat
           /\ Three(q, a, b, c) <= Three(p, a, b, c)
           /\ part \in {a, b, c} => Three(q, a, b, c) < Three(p, a, b, c)
<1>1. \A x \in Counts \cup Texts : Work(p, x) \in Nat /\ Work(q, x) \in Nat
  BY WorkNat
<1> QED
  BY <1>1 DEF Three

LEMMA BelowIsLess ==
    ASSUME NEW p \in Prompts, NEW q, Below(q, p)
    PROVE  Rest(q) \in Nat /\ Rest(p) \in Nat /\ Rest(q) < Rest(p)
<1>1. q \in Prompts /\ \A x \in Counts \cup Texts : Work(q, x) <= Work(p, x)
  BY DEF Below
<1>2. PICK part \in Counts \cup Texts : Work(q, part) < Work(p, part)
  BY DEF Below
<1> DEFINE Fewer(a, b, c) ==
      /\ Three(p, a, b, c) \in Nat /\ Three(q, a, b, c) \in Nat
      /\ Three(q, a, b, c) <= Three(p, a, b, c)
      /\ part \in {a, b, c} => Three(q, a, b, c) < Three(p, a, b, c)
<1>3. \A a, b, c \in Counts \cup Texts : Fewer(a, b, c)
  BY <1>1, <1>2, ThreeOrdered
<1> HIDE DEF Fewer
<1>4. /\ Fewer("rollback", "verification", "categories")
      /\ Fewer("evidence", "details", "summaries")
      /\ Fewer("resources", "versions", "labels")
      /\ Fewer("actions", "descriptions", "targets")
      /\ Fewer("targetVersions", "title", "blast")
      /\ Fewer("advice", "rootCause", "id")
      /\ Fewer("source", "planId", "findingId")
  BY <1>3, Zenon DEF Counts, Texts
<1>5. \/ part \in {"rollback", "verification", "categories"}
      \/ part \in {"evidence", "details", "summaries"}
      \/ part \in {"resources", "versions", "labels"}
      \/ part \in {"actions", "descriptions", "targets"}
      \/ part \in {"targetVersions", "title", "blast"}
      \/ part \in {"advice", "rootCause", "id"}
      \/ part \in {"source", "planId", "findingId"}
  BY <1>2, Zenon DEF Counts, Texts
<1> QED
  BY <1>4, <1>5 DEF Rest, Fewer

-----------------------------------------------------------------------------
(* Every rung of shrinkProjectedInput makes a projection smaller *)

\* Dropping one of what is counted.
LEMMA LessIsBelow ==
    ASSUME NEW p \in Prompts, NEW part \in Counts, Less(p, part).on
    PROVE  Below(Less(p, part).next, p)
<1> DEFINE q == [p EXCEPT ![part] = p[part] - 1]
<1>1. part \notin Texts /\ part \in DOMAIN p /\ p[part] \in Nat /\ p[part] > 0
  <2>1. part \notin Texts
    BY Zenon DEF Counts, Texts
  <2>2. part \in DOMAIN p /\ p[part] \in Nat
    BY DEF Prompts
  <2> QED
    BY <2>1, <2>2 DEF Less
<1>2. q \in Prompts
  BY <1>1 DEF Prompts
<1>3. \A x \in Counts \cup Texts : q[x] = IF x = part THEN p[part] - 1 ELSE p[x]
  BY <1>1 DEF Prompts
<1>4. Less(p, part).next = q
  BY <1>1 DEF Less
<1> HIDE DEF q
<1>5. Work(q, part) < Work(p, part)
  BY <1>1, <1>3 DEF Work
<1>6. \A x \in Counts \cup Texts : x # part => Work(q, x) = Work(p, x)
  BY <1>3 DEF Work
<1>7. \A x \in Counts \cup Texts : Work(q, x) \in Nat /\ Work(p, x) \in Nat
  BY <1>2, WorkNat
<1> QED
  BY <1>2, <1>4, <1>5, <1>6, <1>7 DEF Below

\* Cutting a text so that it needs fewer rounds.
LEMMA CutIsBelow ==
    ASSUME NEW p \in Prompts, NEW part \in Texts, NEW n \in Nat,
           n <= p[part], Rounds(n) < Rounds(p[part])
    PROVE  Below([p EXCEPT ![part] = n], p)
<1> DEFINE q == [p EXCEPT ![part] = n]
<1>1. part \in DOMAIN p /\ p[part] \in Nat /\ p[part] <= 1055
  BY DEF Prompts
<1>2. q \in Prompts
  BY <1>1 DEF Prompts
<1>3. \A x \in Counts \cup Texts : q[x] = IF x = part THEN n ELSE p[x]
  BY <1>1 DEF Prompts
<1> HIDE DEF q
<1>5. Work(q, part) < Work(p, part)
  BY <1>1, <1>3 DEF Work
<1>6. \A x \in Counts \cup Texts : x # part => Work(q, x) = Work(p, x)
  BY <1>3 DEF Work
<1>7. \A x \in Counts \cup Texts : Work(q, x) \in Nat /\ Work(p, x) \in Nat
  BY <1>2, WorkNat
<1>8. Below(q, p)
  BY <1>2, <1>5, <1>6, <1>7 DEF Below
<1> QED
  BY <1>8 DEF q

LEMMA HalveIsBelow ==
    ASSUME NEW p \in Prompts, NEW part \in Texts, NEW limit \in {32, 160},
           Halve(p, part, limit).on
    PROVE  Below(Halve(p, part, limit).next, p)
<1>1. part \in DOMAIN p /\ p[part] \in Nat /\ p[part] <= 1055 /\ p[part] > 32
  <2>1. part \in DOMAIN p /\ p[part] \in Nat /\ p[part] <= 1055
    BY DEF Prompts
  <2>2. p[part] > limit
    BY DEF Halve
  <2> QED
    BY <2>1, <2>2
<1> DEFINE n == p[part] \div 2
<1>2. n \in Nat /\ n <= p[part] /\ Rounds(n) < Rounds(p[part])
  BY <1>1 DEF Rounds
<1>3. Halve(p, part, limit).next = [p EXCEPT ![part] = n]
  BY <1>1 DEF Halve
<1> HIDE DEF n
<1> QED
  BY <1>2, <1>3, CutIsBelow

LEMMA ClearIsBelow ==
    ASSUME NEW p \in Prompts, NEW part \in Texts, Clear(p, part).on
    PROVE  Below(Clear(p, part).next, p)
<1>1. part \in DOMAIN p /\ p[part] \in Nat /\ p[part] > 0
  BY DEF Prompts, Clear
<1>2. Rounds(0) < Rounds(p[part])
  BY <1>1 DEF Rounds
<1>3. Clear(p, part).next = [p EXCEPT ![part] = 0]
  BY <1>1 DEF Clear
<1> QED
  BY <1>1, <1>2, <1>3, CutIsBelow

LEMMA CapIs ==
    ASSUME NEW n \in Nat, NEW limit \in Nat
    PROVE  Cap(n, limit) \in Nat /\ Cap(n, limit) <= n /\ Cap(n, limit) <= limit
<1>1. \E x \in {n, limit} : \A y \in {n, limit} : x <= y
  OBVIOUS
<1> QED
  BY <1>1 DEF Cap, Min

\* Dropping several of what is counted.
LEMMA FewerIsBelow ==
    ASSUME NEW p \in Prompts, NEW q \in [Counts \cup Texts -> Nat],
           \A x \in Texts : q[x] = p[x], \A x \in Counts : q[x] <= p[x],
           NEW part \in Counts, q[part] < p[part]
    PROVE  Below(q, p)
<1>1. q \in Prompts
  BY DEF Prompts
<1>2. \A x \in Texts : Work(q, x) = Work(p, x) /\ Work(q, x) \in Nat
  BY <1>1, WorkNat DEF Work
<1>3. \A x \in Counts : x \notin Texts
  BY Zenon DEF Counts, Texts
<1>4. \A x \in Counts : Work(q, x) <= Work(p, x)
  BY <1>3 DEF Work
<1>5. Work(q, part) < Work(p, part)
  BY <1>3 DEF Work
<1>6. \A x \in Texts : Work(q, x) <= Work(p, x)
  BY <1>2
<1> QED
  BY <1>1, <1>4, <1>5, <1>6, Zenon DEF Below

\* Dropping a list's last element, with what is left of its parts.
LEMMA DropsAreBelow ==
    ASSUME NEW p \in Prompts
    PROVE  /\ p.evidence > 0 => Below(DropEvidence(p), p)
           /\ p.resources > 0 => Below(DropResource(p), p)
           /\ p.actions > 0 => Below(DropAction(p), p)
           /\ p.actions > 0 => Below([p EXCEPT !.actions = 0], p)
<1>1. /\ p \in [Counts \cup Texts -> Nat]
      /\ p.evidence \in Nat /\ p.resources \in Nat /\ p.actions \in Nat
      /\ p.summaries \in Nat /\ p.versions \in Nat /\ p.targets \in Nat /\ p.targetVersions \in Nat
  BY DEF Prompts, Counts
<1>2. {"evidence", "summaries", "resources", "versions", "actions", "targets", "targetVersions"}
        \subseteq Counts /\ Counts \cap Texts = {}
  BY Zenon DEF Counts, Texts
<1>3. ASSUME p.evidence > 0 PROVE Below(DropEvidence(p), p)
  <2>1. PICK n \in Nat : n = p.evidence - 1
    BY <1>1, <1>3
  <2>2. PICK m \in Nat : m = Cap(p.summaries, n) /\ m <= p.summaries
    BY <1>1, CapIs
  <2> DEFINE q == [p EXCEPT !.evidence = n, !.summaries = m]
  <2>3. DropEvidence(p) = q
    BY <2>1, <2>2 DEF DropEvidence
  <2>4. q \in [Counts \cup Texts -> Nat]
    BY <1>1
  <2>5. \A x \in Counts \cup Texts :
           q[x] = IF x = "summaries" THEN m ELSE IF x = "evidence" THEN n ELSE p[x]
    BY <1>1, <1>2
  <2> HIDE DEF q
  <2>6. \A x \in Texts : q[x] = p[x]
    BY <2>5, <1>2
  <2>7. \A x \in Counts : q[x] <= p[x]
    BY <1>1, <2>1, <2>2, <2>5
  <2>8. q["evidence"] < p["evidence"]
    BY <1>1, <1>2, <2>1, <2>5
  <2> QED
    BY <1>2, <2>3, <2>4, <2>6, <2>7, <2>8, FewerIsBelow
<1>4. ASSUME p.resources > 0 PROVE Below(DropResource(p), p)
  <2>1. PICK n \in Nat : n = p.resources - 1
    BY <1>1, <1>4
  <2>2. PICK m \in Nat : m = Cap(p.versions, n) /\ m <= p.versions
    BY <1>1, CapIs
  <2> DEFINE q == [p EXCEPT !.resources = n, !.versions = m]
  <2>3. DropResource(p) = q
    BY <2>1, <2>2 DEF DropResource
  <2>4. q \in [Counts \cup Texts -> Nat]
    BY <1>1
  <2>5. \A x \in Counts \cup Texts :
           q[x] = IF x = "versions" THEN m ELSE IF x = "resources" THEN n ELSE p[x]
    BY <1>1, <1>2
  <2> HIDE DEF q
  <2>6. \A x \in Texts : q[x] = p[x]
    BY <2>5, <1>2
  <2>7. \A x \in Counts : q[x] <= p[x]
    BY <1>1, <2>1, <2>2, <2>5
  <2>8. q["resources"] < p["resources"]
    BY <1>1, <1>2, <2>1, <2>5
  <2> QED
    BY <1>2, <2>3, <2>4, <2>6, <2>7, <2>8, FewerIsBelow
<1>5. ASSUME p.actions > 0 PROVE Below(DropAction(p), p)
  <2>1. PICK n \in Nat : n = p.actions - 1
    BY <1>1, <1>5
  <2>2. PICK m \in Nat : m = Cap(p.targets, n) /\ m <= p.targets
    BY <1>1, CapIs
  <2>3. PICK k \in Nat : k = Cap(p.targetVersions, n) /\ k <= p.targetVersions
    BY <1>1, CapIs
  <2> DEFINE q == [p EXCEPT !.actions = n, !.targets = m, !.targetVersions = k]
  <2>4. DropAction(p) = q
    BY <2>1, <2>2, <2>3 DEF DropAction
  <2>5. q \in [Counts \cup Texts -> Nat]
    BY <1>1
  <2>6. \A x \in Counts \cup Texts :
           q[x] = IF x = "targetVersions" THEN k ELSE IF x = "targets" THEN m
                  ELSE IF x = "actions" THEN n ELSE p[x]
    BY <1>1, <1>2
  <2> HIDE DEF q
  <2>7. \A x \in Texts : q[x] = p[x]
    BY <2>6, <1>2
  <2>8. \A x \in Counts : q[x] <= p[x]
    BY <1>1, <2>1, <2>2, <2>3, <2>6
  <2>9. q["actions"] < p["actions"]
    BY <1>1, <1>2, <2>1, <2>6
  <2> QED
    BY <1>2, <2>4, <2>5, <2>7, <2>8, <2>9, FewerIsBelow
<1>6. ASSUME p.actions > 0 PROVE Below([p EXCEPT !.actions = 0], p)
  <2> DEFINE q == [p EXCEPT !.actions = 0]
  <2>1. q \in [Counts \cup Texts -> Nat]
    BY <1>1
  <2>2. \A x \in Counts \cup Texts : q[x] = IF x = "actions" THEN 0 ELSE p[x]
    BY <1>1, <1>2
  <2> HIDE DEF q
  <2>3. \A x \in Texts : q[x] = p[x]
    BY <2>2, <1>2
  <2>4. \A x \in Counts : q[x] <= p[x]
    BY <1>1, <2>2
  <2>5. q["actions"] < p["actions"]
    BY <1>1, <1>2, <1>6, <2>2
  <2>6. Below(q, p)
    BY <1>2, <2>1, <2>3, <2>4, <2>5, FewerIsBelow
  <2> QED
    BY <2>6 DEF q
<1> QED
  BY <1>3, <1>4, <1>5, <1>6

LEMMA RungsAreBelow ==
    ASSUME NEW p \in Prompts, NEW i \in Rungs(p)
    PROVE  Below(ShrinkLadder(p)[i].next, p)
<1> DEFINE Good(r) == r.on => Below(r.next, p)
<1>1. DOMAIN ShrinkLadder(p) = 1..34
  BY DEF ShrinkLadder
<1>2. \A part \in Counts : Good(Less(p, part))
  BY LessIsBelow
<1>3. \A part \in Texts : Good(Clear(p, part))
  BY ClearIsBelow
<1>4. \A part \in Texts : Good(Halve(p, part, 160)) /\ Good(Halve(p, part, 32))
  BY HalveIsBelow
<1> DEFINE L == ShrinkLadder(p)
<1> HIDE DEF L
<1>5. /\ L[1] = Less(p, "rollback") /\ L[2] = Less(p, "verification")
      /\ L[3] = Less(p, "categories") /\ L[4] = Less(p, "details")
      /\ L[5] = Less(p, "descriptions") /\ L[16] = Less(p, "summaries")
      /\ L[17] = Less(p, "versions") /\ L[18] = Less(p, "targetVersions")
      /\ L[21] = Less(p, "targets") /\ L[33] = Less(p, "labels")
  BY DEF L, ShrinkLadder
<1>6. /\ Good(L[1]) /\ Good(L[2]) /\ Good(L[3]) /\ Good(L[4]) /\ Good(L[5]) /\ Good(L[16])
      /\ Good(L[17]) /\ Good(L[18]) /\ Good(L[21]) /\ Good(L[33])
  BY <1>5, <1>2 DEF Counts
<1>7. /\ L[13] = Clear(p, "advice") /\ L[14] = Clear(p, "blast")
      /\ L[15] = Clear(p, "rootCause") /\ L[28] = Clear(p, "title")
      /\ L[29] = Clear(p, "source") /\ L[30] = Clear(p, "id") /\ L[31] = Clear(p, "findingId")
      /\ L[32] = Clear(p, "planId")
  BY DEF L, ShrinkLadder
<1>8. /\ Good(L[13]) /\ Good(L[14]) /\ Good(L[15]) /\ Good(L[28]) /\ Good(L[29])
      /\ Good(L[30]) /\ Good(L[31]) /\ Good(L[32])
  BY <1>7, <1>3 DEF Texts
<1>9. /\ L[9] = Halve(p, "title", 160) /\ L[10] = Halve(p, "blast", 160)
      /\ L[11] = Halve(p, "advice", 160) /\ L[12] = Halve(p, "rootCause", 160)
      /\ L[23] = Halve(p, "id", 32) /\ L[24] = Halve(p, "source", 32)
      /\ L[25] = Halve(p, "title", 32) /\ L[26] = Halve(p, "planId", 32)
      /\ L[27] = Halve(p, "findingId", 32)
  BY DEF L, ShrinkLadder
<1>10. /\ Good(L[9]) /\ Good(L[10]) /\ Good(L[11]) /\ Good(L[12]) /\ Good(L[23]) /\ Good(L[24])
      /\ Good(L[25]) /\ Good(L[26]) /\ Good(L[27])
  BY <1>9, <1>4 DEF Texts
<1>11. /\ L[6] = [on |-> p.resources > 8, next |-> DropResource(p)]
      /\ L[7] = [on |-> p.evidence > 4, next |-> DropEvidence(p)]
      /\ L[8] = [on |-> p.actions > 8, next |-> DropAction(p)]
      /\ L[19] = [on |-> p.resources > 0, next |-> DropResource(p)]
      /\ L[20] = [on |-> p.evidence > 0, next |-> DropEvidence(p)]
      /\ L[22] = [on |-> p.actions > 1, next |-> DropAction(p)]
      /\ L[34] = [on |-> p.actions > 0, next |-> [p EXCEPT !.actions = 0]]
  BY DEF L, ShrinkLadder
<1>12. /\ Good(L[6]) /\ Good(L[7]) /\ Good(L[8]) /\ Good(L[19]) /\ Good(L[20]) /\ Good(L[22])
      /\ Good(L[34])
  <2>1. p.resources \in Nat /\ p.evidence \in Nat /\ p.actions \in Nat
    BY DEF Prompts, Counts
  <2>2. /\ p.resources > 8 => p.resources > 0
        /\ p.evidence > 4 => p.evidence > 0
        /\ p.actions > 8 => p.actions > 0
        /\ p.actions > 1 => p.actions > 0
    BY <2>1
  <2>3. Good([on |-> p.resources > 8, next |-> DropResource(p)])
    BY <2>2, DropsAreBelow, Zenon
  <2>4. Good([on |-> p.evidence > 4, next |-> DropEvidence(p)])
    BY <2>2, DropsAreBelow, Zenon
  <2>5. Good([on |-> p.actions > 8, next |-> DropAction(p)])
    BY <2>2, DropsAreBelow, Zenon
  <2>6. Good([on |-> p.resources > 0, next |-> DropResource(p)])
    BY <2>2, DropsAreBelow, Zenon
  <2>7. Good([on |-> p.evidence > 0, next |-> DropEvidence(p)])
    BY <2>2, DropsAreBelow, Zenon
  <2>8. Good([on |-> p.actions > 1, next |-> DropAction(p)])
    BY <2>2, DropsAreBelow, Zenon
  <2>9. Good([on |-> p.actions > 0, next |-> [p EXCEPT !.actions = 0]])
    BY <2>2, DropsAreBelow, Zenon
  <2> HIDE DEF Good
  <2> QED
    BY <1>11, <2>3, <2>4, <2>5, <2>6, <2>7, <2>8, <2>9
<1> HIDE DEF Good
<1>13. \A k \in 1..34 : Good(L[k])
  BY <1>6, <1>8, <1>10, <1>12
<1>14. i \in 1..34 /\ L[i].on
  BY <1>1 DEF Rungs, L
<1> QED
  BY <1>13, <1>14 DEF Good, L

\* The first rung that applies is one of the ladder.
LEMMA FirstRung ==
    ASSUME NEW p \in Prompts, CanShrink(p)
    PROVE  Min(Rungs(p)) \in Rungs(p)
<1>1. Rungs(p) \subseteq Nat /\ Rungs(p) # {}
  <2>1. DOMAIN ShrinkLadder(p) = 1..34
    BY DEF ShrinkLadder
  <2> QED
    BY <2>1 DEF Rungs, CanShrink
<1>2. PICK x \in Rungs(p) : \A y \in Rungs(p) : ~ (<<y, x>> \in OpToRel(<, Nat))
  BY <1>1, WFMin, NatLessThanWellFounded
<1>3. \A y \in Rungs(p) : x <= y
  <2> SUFFICES ASSUME NEW y \in Rungs(p), y < x PROVE FALSE
    BY <1>1
  <2> QED
    BY <1>1, <1>2 DEF OpToRel
<1> QED
  BY <1>3 DEF Min

LEMMA ShrinkIsBelow ==
    ASSUME NEW p \in Prompts, CanShrink(p)
    PROVE  Shrink(p) \in Prompts /\ Rest(Shrink(p)) \in Nat /\ Rest(Shrink(p)) < Rest(p)
<1>1. Below(Shrink(p), p)
  BY FirstRung, RungsAreBelow DEF Shrink
<1> QED
  BY <1>1, BelowIsLess DEF Below

-----------------------------------------------------------------------------
(* The projection that buildRequestBody begins with *)

MostRest == 3 * MaxProjectedSteps + 3 * MaxProjectedEvidence + 2 * MaxProjectedResources
            + 4 * MaxProjectedActions + 41

LEMMA ProjectionFits ==
    ASSUME NEW s \in PromptSubjects
    PROVE  /\ ProjectAdvisorInput(s) \in Prompts
           /\ Rest(ProjectAdvisorInput(s)) \in Nat
           /\ Rest(ProjectAdvisorInput(s)) <= MostRest
<1> DEFINE q == ProjectAdvisorInput(s)
<1>1. /\ s.evidence \in Nat /\ s.resources \in Nat /\ s.actions \in Nat
      /\ s.steps \in Nat /\ s.text \in Nat
  BY PromptAssumption
<1>2. /\ MaxProjectedEvidence \in Nat /\ MaxProjectedResources \in Nat
      /\ MaxProjectedActions \in Nat /\ MaxProjectedSteps \in Nat
  BY PromptAssumption
<1>3. PICK e \in Nat : e = Cap(s.evidence, MaxProjectedEvidence) /\ e <= MaxProjectedEvidence
  BY <1>1, <1>2, CapIs
<1>4. PICK r \in Nat : r = Cap(s.resources, MaxProjectedResources) /\ r <= MaxProjectedResources
  BY <1>1, <1>2, CapIs
<1>5. PICK a \in Nat : a = Cap(s.actions, MaxProjectedActions) /\ a <= MaxProjectedActions
  BY <1>1, <1>2, CapIs
<1>6. PICK st \in Nat : st = Cap(s.steps, MaxProjectedSteps) /\ st <= MaxProjectedSteps
  BY <1>1, <1>2, CapIs
<1>7. \A n \in Nat : Cap(s.text, n) \in Nat /\ Cap(s.text, n) <= n
  BY <1>1, CapIs
<1>7a. PICK t5 \in Nat : t5 = Cap(s.text, 500) /\ t5 <= 500
  BY <1>7
<1>7b. PICK t7 \in Nat : t7 = Cap(s.text, 700) /\ t7 <= 700
  BY <1>7
<1>7c. PICK t9 \in Nat : t9 = Cap(s.text, 900) /\ t9 <= 900
  BY <1>7
<1>7d. PICK t2 \in Nat : t2 = Cap(s.text, 200) /\ t2 <= 200
  BY <1>7
<1>7e. PICK t1 \in Nat : t1 = Cap(s.text, 120) /\ t1 <= 120
  BY <1>7
<1>8. PICK l \in Nat : l = (IF s.text = 0 THEN 0 ELSE 3) /\ l <= 3
  BY <1>1
<1>9. q = [rollback |-> st, verification |-> st, categories |-> st,
           evidence |-> e, details |-> e, summaries |-> e, resources |-> r, versions |-> r,
           actions |-> a, descriptions |-> a, targets |-> a, targetVersions |-> a,
           title |-> t5, blast |-> t7, advice |-> t7, rootCause |-> t9,
           id |-> t2, source |-> t1, planId |-> t2, findingId |-> t2, labels |-> l]
  BY <1>3, <1>4, <1>5, <1>6, <1>7a, <1>7b, <1>7c, <1>7d, <1>7e, <1>8 DEF ProjectAdvisorInput
<1> HIDE DEF q
<1>10. q \in [Counts \cup Texts -> Nat]
  BY <1>9 DEF Counts, Texts
<1>11. \A t \in Texts : q[t] <= 1055
  BY <1>7a, <1>7b, <1>7c, <1>7d, <1>7e, <1>9 DEF Texts
<1>12. q \in Prompts
  BY <1>10, <1>11 DEF Prompts
<1>13. /\ Three(q, "rollback", "verification", "categories") = 3 * st
       /\ Three(q, "evidence", "details", "summaries") = 3 * e
       /\ Three(q, "resources", "versions", "labels") = 2 * r + l
       /\ Three(q, "actions", "descriptions", "targets") = 3 * a
  BY <1>9 DEF Three, Work, Texts
<1>14. PICK m1 \in 0..3, m2 \in 0..4, m5 \in 0..5, m7 \in 0..6, m9 \in 0..6 :
         /\ m1 = Rounds(t1) /\ m2 = Rounds(t2) /\ m5 = Rounds(t5)
         /\ m7 = Rounds(t7) /\ m9 = Rounds(t9)
  <2>1. /\ Rounds(t1) \in 0..3 /\ Rounds(t2) \in 0..4 /\ Rounds(t5) \in 0..5
        /\ Rounds(t7) \in 0..6 /\ Rounds(t9) \in 0..6
    BY <1>7a, <1>7b, <1>7c, <1>7d, <1>7e DEF Rounds
  <2> QED
    BY <2>1
<1>15. /\ Three(q, "targetVersions", "title", "blast") = a + m5 + m7
       /\ Three(q, "advice", "rootCause", "id") = m7 + m9 + m2
       /\ Three(q, "source", "planId", "findingId") = m1 + m2 + m2
  BY <1>9, <1>14 DEF Three, Work, Texts
<1>16. Rest(q) \in Nat /\ Rest(q) <= MostRest
  <2>1. Rest(q) = 3 * st + 3 * e + (2 * r + l) + 3 * a + (a + m5 + m7) + (m7 + m9 + m2)
                  + (m1 + m2 + m2)
    BY <1>13, <1>15 DEF Rest
  <2> QED
    BY <1>2, <1>3, <1>4, <1>5, <1>6, <1>8, <2>1 DEF MostRest
<1> QED
  BY <1>12, <1>16 DEF q

-----------------------------------------------------------------------------
(* The inductive invariant: what is left to drop fits the attempts that are left *)

PromptIInv ==
    /\ promptSubject \in PromptSubjects /\ prompt \in Prompts /\ promptAttempts \in Nat
    /\ Rest(prompt) \in Nat /\ Rest(prompt) + promptAttempts <= MaxAttempts
    /\ RefusedOnlyWhenEmpty

LEMMA PromptStart == PromptInit => PromptIInv
<1> SUFFICES ASSUME PromptInit PROVE PromptIInv
  OBVIOUS
<1>1. /\ prompt \in Prompts /\ Rest(prompt) \in Nat
      /\ MaxAttempts \in Nat /\ Rest(prompt) <= MaxAttempts
  BY ProjectionFits, PromptAssumption DEF PromptInit, MostRest
<1> QED
  BY <1>1 DEF PromptInit, PromptIInv, RefusedOnlyWhenEmpty

LEMMA PromptStep == PromptIInv /\ [PromptNext]_promptVars => PromptIInv'
<1> SUFFICES ASSUME PromptIInv, [PromptNext]_promptVars PROVE PromptIInv'
  OBVIOUS
<1> USE DEF PromptIInv
<1>1. MaxAttempts \in Nat
  BY PromptAssumption
<1>2. CASE PromptExclude
  BY <1>2 DEF PromptExclude, RefusedOnlyWhenEmpty
<1>3. CASE PromptFits
  BY <1>3 DEF PromptFits, RefusedOnlyWhenEmpty
<1>4. CASE PromptTooLarge
  <2>1. /\ Shrink(prompt) \in Prompts
        /\ Rest(Shrink(prompt)) \in Nat /\ Rest(Shrink(prompt)) < Rest(prompt)
    BY <1>4, ShrinkIsBelow DEF PromptTooLarge
  <2> QED
    BY <1>1, <1>4, <2>1 DEF PromptTooLarge, RefusedOnlyWhenEmpty
<1>5. CASE PromptRefuse
  <2>1. ~CanShrink(prompt)
    <3> SUFFICES ASSUME CanShrink(prompt) PROVE FALSE
      OBVIOUS
    <3>1. Rest(Shrink(prompt)) \in Nat /\ Rest(Shrink(prompt)) < Rest(prompt)
      BY ShrinkIsBelow
    <3>2. promptAttempts = MaxAttempts
      BY <1>5 DEF PromptRefuse
    <3> QED
      BY <1>1, <3>1, <3>2
  <2> QED
    BY <1>5, <2>1 DEF PromptRefuse, RefusedOnlyWhenEmpty, CanShrink
<1>6. ASSUME NEW a \in PromptAnswers, PromptAccept(a) PROVE PromptIInv'
  BY <1>6 DEF PromptAccept, RefusedOnlyWhenEmpty
<1>7. ASSUME NEW a \in PromptAnswers, PromptReject(a) PROVE PromptIInv'
  BY <1>7 DEF PromptReject, RefusedOnlyWhenEmpty
<1>8. CASE UNCHANGED promptVars
  BY <1>8 DEF promptVars, RefusedOnlyWhenEmpty, CanShrink
<1> QED
  BY <1>2, <1>3, <1>4, <1>5, <1>6, <1>7, <1>8 DEF PromptNext

\* Whatever the finding and the plan hold, and whichever attempts are too large,
\* buildRequestBody gives up only when shrinkProjectedInput has nothing left to drop.
THEOREM OnlyEmptyPromptsAreRefused == PromptSpec => []RefusedOnlyWhenEmpty
<1>1. PromptIInv => RefusedOnlyWhenEmpty
  BY DEF PromptIInv
<1> QED
  BY <1>1, PromptStart, PromptStep, PTL DEF PromptSpec

=============================================================================
