------------------------------- MODULE Listing -------------------------------
(***************************************************************************)
(* GET /api/findings page by page (httpapi/server.go, listFindings): every *)
(* page is a new query that merges the stored findings, the ones observed  *)
(* by the scan and the adapters, and the Finding objects of the cluster,   *)
(* sorts the result and cuts out what follows the finding that the cursor  *)
(* names.                                                                  *)
(*                                                                         *)
(* A finding has up to three copies.  A copy matches the filter of the     *)
(* walk or it does not.  The field that the findings are sorted by may be  *)
(* another one in every query: by default it is the risk, which Correlate- *)
(* WithConfig computes anew from all the findings of the result, and the   *)
(* time of the last update changes with every scan.  A field is a number,  *)
(* the descending order that of the negated numbers.                       *)
(***************************************************************************)
EXTENDS Integers, FiniteSets, Sequences

CONSTANTS
    ListIds,        \* the IDs of the findings, in their order
    ListFields,     \* the values of the sort field
    ListSpaces,     \* the namespaces of the resources of each; "" is the cluster
    ListPrincipals, \* [cluster, spaces]: what the caller may see
    ListLimits,     \* page sizes
    ListStarts,     \* the copies that a finding may have at first
    ListChanges     \* bound: changes of copies, and of sort fields, during a walk

ASSUME ListAssumption ==
    /\ ListIds \subseteq Nat \ {0} /\ IsFiniteSet(ListIds)
    /\ ListFields \subseteq Int
    /\ ListLimits \subseteq 1..200
    /\ ListChanges \in Nat

Copies == [stored : {"absent", "match", "other"},
           observed : {"absent", "match", "other"},
           object : {"absent", "match", "other"}]

VARIABLES
    copies,
    listPrincipal,
    listKeys,       \* the sort fields of the findings in the last query
    listCursor,     \* the last finding of the page before, 0 at first
    listReturned,   \* what the pages held so far
    listState,      \* "walking", "ended", or "failed"
    listAlways,     \* history: in the results of all the queries of the walk
    listMoved,      \* history: findings whose sort field changed between two queries
    listSteady,     \* history: no cursor's sort field changed before the cursor was used
    listBudget

listHistory == <<listAlways, listMoved, listSteady>>
listVars == <<copies, listPrincipal, listKeys, listCursor, listReturned, listState,
              listHistory, listBudget>>

-----------------------------------------------------------------------------

\* mergeObservedFinding, mergeWorkflowFindings: the last copy that could be read
\* decides.  live and crd say whether the snapshot and the objects can be read.
LastCopy(c, live, crd) ==
    IF crd /\ c.object # "absent" THEN c.object
    ELSE IF live /\ c.observed # "absent" THEN c.observed
    ELSE c.stored

\* findingAllowed
FindingAllowed(principal, f) ==
    \/ principal.cluster
    \/ /\ ListSpaces[f] # {}
       /\ \A ns \in ListSpaces[f] : ns # "" /\ ns \in principal.spaces

\* filterAuthorizedFindings
Authorized(found) == {f \in found : FindingAllowed(listPrincipal, f)}

\* sortFindings, ascending; equal fields are ordered by ID.
ListBefore(keys, f, g) == keys[f] < keys[g] \/ (keys[f] = keys[g] /\ f < g)

Ascending(keys, s, found) ==
    /\ \A i, j \in DOMAIN s : i < j => ListBefore(keys, s[i], s[j])
    /\ \A f \in found : \E i \in DOMAIN s : s[i] = f

SortFindings(keys, found) ==
    CHOOSE s \in [1 .. Cardinality(found) -> found] : Ascending(keys, s, found)

\* A cursor that is no longer found, taken for no cursor.
RestartingCursorStart(findings, cursor) ==
    LET at == {i \in DOMAIN findings : findings[i] = cursor} IN
    IF at = {} THEN 0 ELSE CHOOSE i \in at : TRUE

\* cursorStart; -1 is the error.
CursorStart(findings, cursor) ==
    LET at == {i \in DOMAIN findings : findings[i] = cursor} IN
    IF cursor = 0 THEN 0 ELSE IF at = {} THEN -1 ELSE CHOOSE i \in at : TRUE

-----------------------------------------------------------------------------

ListInit ==
    /\ copies \in [ListIds -> ListStarts]
    /\ listPrincipal \in ListPrincipals
    /\ listKeys = [f \in ListIds |-> 0]
    /\ listCursor = 0
    /\ listReturned = <<>>
    /\ listState = "walking"
    /\ listAlways = ListIds /\ listMoved = {} /\ listSteady = TRUE
    /\ listBudget = ListChanges

\* listFindings.  The copies that were read, and the merged result, are stored;
\* SyncFinding keeps the stored status of some (FindingRules), here of those in kept.
\* keys are the sort fields as this query finds or computes them.
ListPage(limit, live, crd, kept, keys) ==
    LET found == Authorized({f \in ListIds : LastCopy(copies[f], live, crd) = "match"})
        findings == SortFindings(keys, found)
        start == CursorStart(findings, listCursor)
        end == IF start + limit < Len(findings) THEN start + limit ELSE Len(findings)
        moved == IF listCursor = 0 THEN {} ELSE {f \in ListIds : keys[f] # listKeys[f]}
    IN
    /\ listState = "walking"
    /\ moved # {} => listBudget > 0
    /\ listBudget' = IF moved = {} THEN listBudget ELSE listBudget - 1
    /\ listKeys' = keys
    /\ copies' = [f \in ListIds |->
                    [copies[f] EXCEPT !.stored =
                        IF f \in kept THEN @ ELSE LastCopy(copies[f], live, crd)]]
    /\ listAlways' = listAlways \cap found
    /\ listMoved' = listMoved \cup moved
    /\ listSteady' = (listSteady /\ listCursor \notin moved)
    /\ listReturned' =
         IF start < 0 THEN listReturned ELSE listReturned \o SubSeq(findings, start + 1, end)
    /\ listState' =
         IF start < 0 THEN "failed" ELSE IF end < Len(findings) THEN "walking" ELSE "ended"
    /\ listCursor' = IF listState' = "walking" THEN findings[end] ELSE listCursor
    /\ UNCHANGED listPrincipal

\* Scans, controllers, expiry and other requests write a copy.
ListChange(f, copy, value) ==
    /\ listState = "walking"
    /\ listBudget > 0
    /\ copies[f][copy] # value
    /\ copy = "stored" => value # "absent"
    /\ copies' = [copies EXCEPT ![f][copy] = value]
    /\ listBudget' = listBudget - 1
    /\ UNCHANGED <<listPrincipal, listKeys, listCursor, listReturned, listState, listHistory>>

ListNext ==
    \/ \E limit \in ListLimits, live, crd \in BOOLEAN,
          kept \in SUBSET {f \in ListIds : copies[f].stored # "absent"},
          keys \in [ListIds -> ListFields] : ListPage(limit, live, crd, kept, keys)
    \/ \E f \in ListIds, copy \in {"stored", "observed", "object"},
          value \in {"absent", "match", "other"} : ListChange(f, copy, value)

ListSpec == ListInit /\ [][ListNext]_listVars

-----------------------------------------------------------------------------

ListTypeOK ==
    /\ copies \in [ListIds -> Copies]
    /\ listKeys \in [ListIds -> ListFields \cup {0}]
    /\ listCursor \in ListIds \cup {0}
    /\ listState \in {"walking", "ended", "failed"}
    /\ listAlways \subseteq ListIds /\ listMoved \subseteq ListIds /\ listSteady \in BOOLEAN
    /\ listBudget \in 0..ListChanges

\* Findings come and go between the pages of a walk, sources cannot be read for a
\* while, and the order changes with the sort fields.  As long as each cursor keeps its
\* field until the next page, whatever the others do, a finding whose field does not
\* change is not returned twice, and a walk that comes to its end returned it if it was
\* in the result of each query (cursorStart, sortFindings).  A finding whose field
\* changes, and after a cursor that moved any finding, may be repeated or left out.
WalkIsComplete ==
    listSteady =>
        /\ \A i, j \in DOMAIN listReturned :
             listReturned[i] = listReturned[j] => i = j \/ listReturned[i] \in listMoved
        /\ listState = "ended" =>
             \A f \in listAlways \ listMoved : \E i \in DOMAIN listReturned : listReturned[i] = f

=============================================================================
