---------------------------- MODULE AdapterCache ----------------------------
(***************************************************************************)
(* The report adapters and their cache (adapters/adapters.go).  Collect    *)
(* looks at the cache under the mutex, lets go of it, lets every adapter   *)
(* list its reports, and stores what they found.  Several requests may     *)
(* collect at the same time.                                               *)
(*                                                                         *)
(* A list of reports is absent (its API is not installed) or holds one     *)
(* report, a sequence of entries.  Its contents are replaced in steps, and *)
(* the time when each was replaced is kept.                                *)
(***************************************************************************)
EXTENDS Integers, FiniteSets, Sequences

CONSTANTS
    AdapterCallers,
    AdapterLists,   \* the lists of each adapter, in the order it reads them
    ReportContents, \* the contents of each list over time, [installed, entries, summary]
    AdapterTTL,     \* ttl
    CollectTime,    \* bound: the longest collection
    AdapterEnd      \* bound: the clock

VARIABLES
    adClock,
    adReplaced,     \* per list, when its contents were replaced
    adCache,        \* cached, with cachedAt; at = 0 means never
    adCall          \* the request of each caller

adapterVars == <<adClock, adReplaced, adCache, adCall>>

Adapters == DOMAIN AdapterLists
Lists == DOMAIN ReportContents

ASSUME AdapterAssumption ==
    /\ \A a \in Adapters : AdapterLists[a] \in Seq(Lists)
    /\ \A l \in Lists :
         /\ Len(ReportContents[l]) \in Nat \ {0}
         /\ DOMAIN ReportContents[l] = 1..Len(ReportContents[l])
    /\ AdapterTTL \in Nat \ {0} /\ CollectTime \in Nat /\ AdapterEnd \in Nat

-----------------------------------------------------------------------------
(* What an adapter makes of its reports *)

\* The lists whose findings carry the position of the entry in their ID.
Positional == {"secrets", "policies", "clusterPolicies", "controls", "summaries"}

\* The lists of Trivy that hold nothing but what it found.
OnlyFailures == {"vulnerabilities", "secrets"}

\* The lists of Kubescape, whose reports have a summary.
Summarised == {"controls", "summaries"}

\* normalizeTrivyVulnerabilities, normalizeTrivyChecks, normalizeTrivySecrets,
\* normalizePolicyReport, normalizeKubescapeSummary and newFinding: an entry that
\* did not pass is a finding; a summary counts only if there is none.
Normalize(list, content) ==
    LET failed == {i \in DOMAIN content.entries :
                      list \in OnlyFailures \/ content.entries[i].outcome # "pass"} IN
    IF failed # {}
    THEN {<<list, content.entries[i].key, IF list \in Positional THEN i ELSE 0>> : i \in failed}
    ELSE IF list \in Summarised /\ content.summary > 0 THEN {<<list, "summary", 0>>} ELSE {}

\* adapterResult
AdapterStatus(part) ==
    IF part.error = "denied" THEN "permission_denied"
    ELSE IF part.error = "error" THEN "error"
    ELSE IF part.available > 0 THEN "online" ELSE "not_configured"

\* What an adapter has when its collection begins.
NoPart == [next |-> 1, found |-> {}, available |-> 0, error |-> "none"]
NoParts == [a \in Adapters |-> NoPart]
NoCollection == [status |-> [a \in Adapters |-> "not_configured"],
                 found |-> [a \in Adapters |-> {}]]
NoCall == [pc |-> "idle", since |-> 0, parts |-> NoParts, answer |-> NoCollection]

Content(list) == ReportContents[list][Len(adReplaced[list]) + 1]

\* A collection as old as the TTL, served once more.
LateFresh == adCache.at # 0 /\ adClock - adCache.at <= AdapterTTL

\* Collect: the test of the cache
CacheFresh == adCache.at # 0 /\ adClock - adCache.at < AdapterTTL

-----------------------------------------------------------------------------

AdapterInit ==
    /\ adClock = 1
    /\ adReplaced = [l \in Lists |-> <<>>]
    /\ adCache = [body |-> NoCollection, at |-> 0]
    /\ adCall = [c \in AdapterCallers |-> NoCall]

Answered(c, body) ==
    adCall' = [adCall EXCEPT ![c] = [NoCall EXCEPT !.pc = "answered", !.answer = body]]

\* Collect, up to its first unlock
CollectCached(c) ==
    /\ adCall[c].pc # "collect"
    /\ CacheFresh
    /\ Answered(c, adCache.body)
    /\ UNCHANGED <<adClock, adReplaced, adCache>>

CollectBegin(c) ==
    /\ adCall[c].pc # "collect"
    /\ ~CacheFresh
    /\ adCall' = [adCall EXCEPT ![c] = [NoCall EXCEPT !.pc = "collect", !.since = adClock]]
    /\ UNCHANGED <<adClock, adReplaced, adCache>>

\* collectResources: one List call of one adapter, and how it ends
CollectList(c, a, outcome) ==
    LET part == adCall[c].parts[a]
        list == AdapterLists[a][part.next]
        content == Content(list)
        after == [part EXCEPT !.next = part.next + 1] IN
    /\ adCall[c].pc = "collect"
    /\ part.next <= Len(AdapterLists[a])
    /\ content.installed \/ outcome = "ok"
    /\ adCall' = [adCall EXCEPT ![c].parts[a] =
         IF ~content.installed THEN after
         ELSE IF outcome = "denied"
         THEN [after EXCEPT !.error = "denied"]
         ELSE IF outcome = "error"
         THEN [part EXCEPT !.next = Len(AdapterLists[a]) + 1, !.error = "error"]
         ELSE [after EXCEPT !.available = part.available + 1,
                            !.found = part.found \cup Normalize(list, content)]]
    /\ UNCHANGED <<adClock, adReplaced, adCache>>

\* Collect, when all adapters are done
CollectStore(c) ==
    LET parts == adCall[c].parts
        body == [status |-> [a \in Adapters |-> AdapterStatus(parts[a])],
                 found |-> [a \in Adapters |-> parts[a].found]] IN
    /\ adCall[c].pc = "collect"
    /\ \A a \in Adapters : parts[a].next > Len(AdapterLists[a])
    /\ adCache' = [body |-> body, at |-> adClock]
    /\ Answered(c, body)
    /\ UNCHANGED <<adClock, adReplaced>>

\* The scanners replace their reports.
ReportsChange(l) ==
    /\ Len(adReplaced[l]) + 1 < Len(ReportContents[l])
    /\ adReplaced' = [adReplaced EXCEPT ![l] = Append(@, adClock)]
    /\ UNCHANGED <<adClock, adCache, adCall>>

\* No collection takes longer.  The answers of the last moment are forgotten.
AdapterTick ==
    /\ adClock < AdapterEnd
    /\ \A c \in AdapterCallers :
         adCall[c].pc = "collect" => adClock < adCall[c].since + CollectTime
    /\ adClock' = adClock + 1
    /\ adCall' = [c \in AdapterCallers |-> IF adCall[c].pc = "collect" THEN adCall[c] ELSE NoCall]
    /\ UNCHANGED <<adReplaced, adCache>>

AdapterNext ==
    \/ \E c \in AdapterCallers :
         \/ CollectCached(c) \/ CollectBegin(c) \/ CollectStore(c)
         \/ \E a \in Adapters, outcome \in {"ok", "denied", "error"} : CollectList(c, a, outcome)
    \/ \E l \in Lists : ReportsChange(l)
    \/ AdapterTick

AdapterSpec == AdapterInit /\ [][AdapterNext]_adapterVars

-----------------------------------------------------------------------------

AdapterTypeOK ==
    /\ adClock \in 1..AdapterEnd
    /\ adCache.at \in 0..AdapterEnd
    /\ \A c \in AdapterCallers : adCall[c].pc \in {"idle", "collect", "answered"}

\* The contents that a list had at some moment of the last AdapterTTL + CollectTime.
RecentContents(list) ==
    {ReportContents[list][v] : v \in
        {w \in 1..Len(adReplaced[list]) + 1 :
            w <= Len(adReplaced[list]) => adClock - adReplaced[list][w] < AdapterTTL + CollectTime}}

\* Requests collect at the same time, lists fail half way, an older collection is
\* stored over a newer one.  A source that an answer calls online is still given
\* completely, and as its reports were at most one TTL and one collection ago
\* (Collect, collectResources, adapterResult).
OnlineIsFresh ==
    \A c \in AdapterCallers : adCall[c].pc = "answered" =>
        \A a \in Adapters : adCall[c].answer.status[a] = "online" =>
            \E pick \in [DOMAIN AdapterLists[a] -> UNION {RecentContents(l) : l \in Lists}] :
                /\ \A i \in DOMAIN pick : pick[i] \in RecentContents(AdapterLists[a][i])
                /\ adCall[c].answer.found[a] =
                     UNION {Normalize(AdapterLists[a][i], pick[i]) :
                            i \in {j \in DOMAIN pick : pick[j].installed}}

=============================================================================
