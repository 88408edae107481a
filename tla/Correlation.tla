----------------------------- MODULE Correlation -----------------------------
(***************************************************************************)
(* Correlation and risk scores of findings (findings/correlation.go).  For *)
(* each rule the findings are put into buckets by the rule's key, every    *)
(* bucket is sorted by time and cut into windows, and the findings of a    *)
(* window are joined in a union-find structure over all rules.  The        *)
(* buckets are a Go map, visited in any order, and the sort is not stable, *)
(* so that findings of the same time come in any order.                    *)
(*                                                                         *)
(* A finding is [time, source, keys] with a key per rule, "" for none; a   *)
(* group's identifier is the set of its members, from which it is hashed.  *)
(***************************************************************************)
EXTENDS Integers, Sequences, FiniteSets, SequencesExt, Relation

CONSTANTS
    CorrInputs,         \* lists of findings
    CorrWindows,        \* a window per rule, in the order of the rules
    CorrBase,           \* points for the severity and for several resources
    CorrPoints,         \* [sources, cap, keys]: points for sources and size, and for
                        \* the key of each rule
    CorrLatest          \* bound: the latest time

ASSUME CorrAssumption ==
    /\ CorrWindows \in Seq(Nat \ {0})
    /\ CorrBase \in 0 .. 100
    /\ \A input \in CorrInputs : \A i \in DOMAIN input : input[i].time \in 0 .. CorrLatest

VARIABLES
    corrInput, corrParents,
    corrRule,           \* the rule that is being applied
    corrTodo,           \* its keys whose buckets are still to be visited
    corrResult          \* group and score of each finding, or <<>>

corrVars == <<corrInput, corrParents, corrRule, corrTodo, corrResult>>

CorrIndices == DOMAIN corrInput
Bucket(r, k) == {i \in CorrIndices : corrInput[i].keys[r] = k}
\* The keys of rule r, none past the last rule.
CorrKeys(input, r) ==
    {input[i].keys[r] : i \in {j \in DOMAIN input : r \in DOMAIN CorrWindows}} \ {""}

\* find: follow the parents to the root.  Path compression does not change it.
Find(parents, i) ==
    LET up[n \in 0 .. Len(parents)] == IF n = 0 THEN i ELSE parents[up[n - 1]]
    IN up[Len(parents)]

\* A union that attaches the element instead of its root.
UnionOfElement(parents, left, right) == [parents EXCEPT ![right] = Find(parents, left)]

\* union
Union(parents, left, right) == [parents EXCEPT ![Find(parents, right)] = Find(parents, left)]

\* The orders in which sort.Slice may leave a bucket.
SortedByTime(bucket) ==
    {s \in [1 .. Cardinality(bucket) -> bucket] :
        \A i, j \in DOMAIN s : i < j => /\ s[i] # s[j]
                                        /\ corrInput[s[i]].time <= corrInput[s[j]].time}

\* The loop over a sorted bucket: a window begins with the first finding that is
\* too late for the one before.
JoinWindows(parents, sorted, window) ==
    FoldLeft(LAMBDA acc, i :
                IF acc.start # 0 /\ corrInput[i].time - corrInput[acc.start].time <= window
                THEN [acc EXCEPT !.parents = Union(acc.parents, acc.start, i)]
                ELSE [acc EXCEPT !.start = i],
             [parents |-> parents, start |-> 0], sorted).parents

\* score, of a finding in a group with these members.
Score(i, members) ==
    LET sources == {corrInput[j].source : j \in members}
        keys == {r \in DOMAIN CorrWindows : corrInput[i].keys[r] # ""}
        sum == CorrBase + (IF Cardinality(sources) > 1 THEN CorrPoints.sources ELSE 0)
                 + (IF Cardinality(members) - 1 < CorrPoints.cap THEN Cardinality(members) - 1
                    ELSE CorrPoints.cap)
                 + MapThenSumSet(LAMBDA r : CorrPoints.keys[r], keys)
    IN IF sum > 100 THEN 100 ELSE sum

CorrInit ==
    /\ corrInput \in CorrInputs
    /\ corrParents = [i \in CorrIndices |-> i]
    /\ corrRule = 1 /\ corrTodo = CorrKeys(corrInput, 1)
    /\ corrResult = <<>>

\* CorrelateWithConfig: one bucket of the current rule.
CorrBucket ==
    \E k \in corrTodo : \E sorted \in SortedByTime(Bucket(corrRule, k)) :
        /\ corrParents' = JoinWindows(corrParents, sorted, CorrWindows[corrRule])
        /\ corrTodo' = corrTodo \ {k}
        /\ UNCHANGED <<corrInput, corrRule, corrResult>>

CorrNextRule ==
    /\ corrTodo = {} /\ corrRule <= Len(CorrWindows)
    /\ corrRule' = corrRule + 1 /\ corrTodo' = CorrKeys(corrInput, corrRule + 1)
    /\ UNCHANGED <<corrInput, corrParents, corrResult>>

\* CorrelateWithConfig: groups are the findings with the same root.
CorrScore ==
    LET Members(i) == {j \in CorrIndices : Find(corrParents, j) = Find(corrParents, i)} IN
    /\ corrRule > Len(CorrWindows) /\ corrResult = <<>>
    /\ corrResult' = [i \in CorrIndices |->
                        [group |-> Members(i), score |-> Score(i, Members(i))]]
    /\ UNCHANGED <<corrInput, corrParents, corrRule, corrTodo>>

CorrNext == CorrBucket \/ CorrNextRule \/ CorrScore

CorrSpec == CorrInit /\ [][CorrNext]_corrVars

-----------------------------------------------------------------------------

\* The start of the window that the findings of a bucket at time t fall into.
WindowStart(r, k) ==
    LET start[t \in 0 .. CorrLatest] ==
          IF t > 0 /\ start[t - 1] >= 0 /\ t - start[t - 1] <= CorrWindows[r] THEN start[t - 1]
          ELSE IF \E i \in Bucket(r, k) : corrInput[i].time = t THEN t
          ELSE IF t > 0 THEN start[t - 1] ELSE -1
    IN start

\* Findings that a rule puts into one window.
SameWindow(i, j) ==
    \E r \in DOMAIN CorrWindows :
        LET k == corrInput[i].keys[r] IN
        /\ k # "" /\ corrInput[j].keys[r] = k
        /\ WindowStart(r, k)[corrInput[i].time] = WindowStart(r, k)[corrInput[j].time]

CorrTypeOK ==
    /\ corrParents \in [CorrIndices -> CorrIndices]
    /\ corrRule \in 1 .. Len(CorrWindows) + 1
    /\ corrTodo \subseteq STRING

\* The groups and the scores are a function of the findings: whatever order the
\* maps and the sort come in, a group is what SameWindow connects, over any
\* number of rules, and the score is that of this group (CorrelateWithConfig,
\* union).  docs/architecture.md:13 calls correlation and risk deterministic, and
\* exceptions name groups by their identifier.
CorrelationIsDeterministic ==
    corrResult # <<>> =>
        LET connected == TransitiveClosure(
                [p \in CorrIndices \X CorrIndices |-> SameWindow(p[1], p[2])], CorrIndices)
        IN \A i \in CorrIndices :
             LET group == {j \in CorrIndices : i = j \/ connected[i, j]} IN
             corrResult[i] = [group |-> group, score |-> Score(i, group)]

=============================================================================
