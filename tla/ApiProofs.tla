------------------------------ MODULE ApiProofs ------------------------------
(***************************************************************************)
(* What is proved about the API service.  First its state that requests    *)
(* share, for any number of requests at the same time: the cache of the    *)
(* signing keys, the exceptions in Postgres, the cache of the adapters and *)
(* the windows of the request limiter.  Then the scan of the cluster, the  *)
(* pages of the finding list and the plans, for any objects, findings and  *)
(* changes in between.                                                     *)
(***************************************************************************)
EXTENDS SigningKeys, PostgresFindings, AdapterCache, RequestLimiter, PostureScan, Listing,
        FiniteSetTheorems, WellFoundedInduction, TLAPS

-----------------------------------------------------------------------------
(* The signing keys *)

KeyCalls ==
    [pc : {"idle", "fetch", "store", "recheck", "accepted", "rejected"},
     token : Tokens \cup {NoToken}, document : SUBSET Keys, age : Nat, since : Nat]

KeysTypes ==
    /\ keyClock \in Nat
    /\ published \subseteq Keys /\ cachedKeys \subseteq Keys
    /\ withdrawnAt \in [Keys -> Nat]
    /\ keysUntil \in Nat
    /\ keyCall \in [KeyCallers -> KeyCalls]

\* A key that was withdrawn is never published again.
WithdrawnForGood == \A k \in published : withdrawnAt[k] = 0

\* A request waits no longer than a fetch may take, and what it has fetched was
\* published when it began or later.
FetchesRecent ==
    \A c \in KeyCallers :
        /\ Waiting(c) => keyCall[c].since <= keyClock /\ keyClock <= keyCall[c].since + FetchTime
        /\ keyCall[c].pc = "store" =>
             /\ keyCall[c].age <= MaxAgeLimit
             /\ \A k \in keyCall[c].document :
                  withdrawnAt[k] = 0 \/ keyCall[c].since <= withdrawnAt[k]

\* The cache was stored at the time s, with keys that were published at most one
\* fetch earlier.  A request that waits to look at it again began before.
StoredAt(s) ==
    /\ s <= keyClock /\ keysUntil <= s + MaxAgeLimit
    /\ \A k \in cachedKeys : withdrawnAt[k] = 0 \/ s <= withdrawnAt[k] + FetchTime
    /\ \A c \in KeyCallers : keyCall[c].pc = "recheck" => keyCall[c].since <= s

\* Only keys of the provider are accepted.
AcceptedKnown == \A c \in KeyCallers : keyCall[c].pc = "accepted" => keyCall[c].token.key \in Keys

KeysIInv ==
    /\ KeysTypes /\ WithdrawnForGood /\ FetchesRecent
    /\ \E s \in Nat : StoredAt(s)
    /\ AcceptedKnown /\ WithdrawnKeysDie

LEMMA EffectiveAgeBounded ==
    ASSUME NEW age \in MaxAges
    PROVE  EffectiveAge(age) \in Nat /\ EffectiveAge(age) <= MaxAgeLimit
BY KeysAssumption DEF EffectiveAge

LEMMA KeysStart == KeysInit => KeysIInv
<1> SUFFICES ASSUME KeysInit PROVE KeysIInv
  OBVIOUS
<1> USE DEF KeysInit
<1>1. PICK age \in MaxAges : keysUntil = 1 + EffectiveAge(age)
  OBVIOUS
<1>2. NoKeyCall \in KeyCalls
  BY DEF NoKeyCall, KeyCalls
<1>3. \A c \in KeyCallers : keyCall[c].pc = "idle"
  BY DEF NoKeyCall
<1>4. KeysTypes
  BY <1>1, <1>2, EffectiveAgeBounded DEF KeysTypes
<1>5. StoredAt(1)
  BY <1>1, <1>3, EffectiveAgeBounded, KeysAssumption DEF StoredAt
<1> QED
  BY <1>3, <1>4, <1>5 DEF KeysIInv, WithdrawnForGood, FetchesRecent, Waiting,
                           AcceptedKnown, WithdrawnKeysDie

\* A step that changes only what one request holds.
LEMMA OneCallChanges ==
    ASSUME KeysIInv, NEW c \in KeyCallers, NEW r \in KeyCalls,
           keyCall' = [keyCall EXCEPT ![c] = r],
           UNCHANGED <<keyClock, published, withdrawnAt, cachedKeys, keysUntil>>,
           r.pc \in {"fetch", "store"} => r.since <= keyClock /\ keyClock <= r.since + FetchTime,
           r.pc = "store" => /\ r.age <= MaxAgeLimit
                             /\ \A k \in r.document : withdrawnAt[k] = 0 \/ r.since <= withdrawnAt[k],
           r.pc # "recheck",
           r.pc = "accepted" => r.token.key \in Keys,
           r.pc = "accepted" =>
               \/ withdrawnAt[r.token.key] = 0
               \/ keyClock <= withdrawnAt[r.token.key] + FetchTime + MaxAgeLimit
    PROVE  KeysIInv'
<1>1. keyCall \in [KeyCallers -> KeyCalls]
  BY DEF KeysIInv, KeysTypes
<1>2. keyCall'[c] = r /\ \A d \in KeyCallers : d # c => keyCall'[d] = keyCall[d]
  BY <1>1
<1>3. KeysTypes'
  BY <1>1 DEF KeysIInv, KeysTypes
<1>4. FetchesRecent'
  <2> SUFFICES ASSUME NEW d \in KeyCallers
               PROVE  /\ Waiting(d)' => /\ keyCall'[d].since <= keyClock'
                                        /\ keyClock' <= keyCall'[d].since + FetchTime
                      /\ keyCall'[d].pc = "store" =>
                           /\ keyCall'[d].age <= MaxAgeLimit
                           /\ \A k \in keyCall'[d].document :
                                withdrawnAt'[k] = 0 \/ keyCall'[d].since <= withdrawnAt'[k]
    BY DEF FetchesRecent, Waiting
  <2>1. CASE d = c
    BY <1>2, <2>1 DEF Waiting
  <2>2. CASE d # c
    BY <1>2, <2>2 DEF Waiting, KeysIInv, FetchesRecent
  <2> QED
    BY <2>1, <2>2
<1>5. (\E s \in Nat : StoredAt(s))'
  <2>1. PICK s \in Nat : StoredAt(s)
    BY DEF KeysIInv
  <2>2. \A d \in KeyCallers : keyCall'[d].pc = "recheck" => keyCall'[d].since <= s
    BY <1>2, <2>1 DEF StoredAt
  <2> QED
    BY <2>1, <2>2 DEF StoredAt
<1>6. AcceptedKnown' /\ WithdrawnKeysDie'
  BY <1>2 DEF KeysIInv, AcceptedKnown, WithdrawnKeysDie
<1> QED
  BY <1>3, <1>4, <1>5, <1>6 DEF KeysIInv, WithdrawnForGood

\* The verdict on a token whose key the cache holds.
LEMMA VerdictIsTimely ==
    ASSUME KeysIInv, NEW c \in KeyCallers, NEW t \in Tokens \cup {NoToken},
           NEW verdict \in {"accepted", "rejected"},
           EndVerify(c, t, verdict),
           UNCHANGED <<keyClock, published, withdrawnAt, cachedKeys, keysUntil>>,
           verdict = "accepted" => t.key \in Keys,
           verdict = "accepted" =>
               \/ withdrawnAt[t.key] = 0
               \/ keyClock <= withdrawnAt[t.key] + FetchTime + MaxAgeLimit
    PROVE  KeysIInv'
<1> DEFINE r == [NoKeyCall EXCEPT !.pc = verdict,
                                  !.token = IF verdict = "accepted" THEN t ELSE NoToken]
<1>1. r \in KeyCalls /\ r.pc = verdict /\ r.token = IF verdict = "accepted" THEN t ELSE NoToken
  BY DEF NoKeyCall, KeyCalls
<1>2. keyCall' = [keyCall EXCEPT ![c] = r]
  BY DEF EndVerify
<1> HIDE DEF r
<1> QED
  BY <1>1, <1>2, OneCallChanges

LEMMA KeysKept == KeysIInv /\ [KeysNext]_keyVars => KeysIInv'
<1> SUFFICES ASSUME KeysIInv, [KeysNext]_keyVars PROVE KeysIInv'
  OBVIOUS
<1> USE KeysAssumption
<1>s. PICK s \in Nat : StoredAt(s)
  BY DEF KeysIInv
<1>t. KeysTypes
  BY DEF KeysIInv
<1>1. ASSUME NEW c \in KeyCallers, NEW t \in Tokens, VerifyCached(c, t)
      PROVE  KeysIInv'
  <2>1. /\ t.key \in Keys
        /\ withdrawnAt[t.key] = 0 \/ keyClock <= withdrawnAt[t.key] + FetchTime + MaxAgeLimit
    BY <1>1, <1>s, <1>t DEF VerifyCached, StoredAt, KeysTypes
  <2>2. Verdict(t) \in {"accepted", "rejected"}
    BY DEF Verdict
  <2> QED
    BY <1>1, <2>1, <2>2, VerdictIsTimely DEF VerifyCached
<1>2. ASSUME NEW c \in KeyCallers, NEW t \in Tokens, VerifyFetches(c, t)
      PROVE  KeysIInv'
  <2> DEFINE r == [NoKeyCall EXCEPT !.pc = "fetch", !.token = t, !.since = keyClock]
  <2>1. r \in KeyCalls /\ r.pc = "fetch" /\ r.since = keyClock
    BY <1>t DEF NoKeyCall, KeyCalls, KeysTypes
  <2>2. keyCall' = [keyCall EXCEPT ![c] = r]
    BY <1>2 DEF VerifyFetches
  <2> HIDE DEF r
  <2>3. r.since <= keyClock /\ keyClock <= r.since + FetchTime
    BY <1>t, <2>1 DEF KeysTypes
  <2> QED
    BY <1>2, <2>1, <2>2, <2>3, OneCallChanges DEF VerifyFetches
<1>3. ASSUME NEW c \in KeyCallers, NEW age \in MaxAges, FetchAnswered(c, age)
      PROVE  KeysIInv'
  <2> DEFINE r == [keyCall[c] EXCEPT !.pc = "store", !.document = published,
                                     !.age = EffectiveAge(age)]
  <2>1. /\ r \in KeyCalls /\ r.pc = "store" /\ r.document = published
        /\ r.since = keyCall[c].since /\ r.age <= MaxAgeLimit
    BY <1>t, EffectiveAgeBounded DEF KeyCalls, KeysTypes
  <2>2. keyCall' = [keyCall EXCEPT ![c] = r]
    BY <1>3, <1>t DEF FetchAnswered, KeysTypes
  <2>3. keyCall[c].since <= keyClock /\ keyClock <= keyCall[c].since + FetchTime
    BY <1>3 DEF FetchAnswered, KeysIInv, FetchesRecent, Waiting
  <2>4. \A k \in published : withdrawnAt[k] = 0
    BY DEF KeysIInv, WithdrawnForGood
  <2> HIDE DEF r
  <2> QED
    BY <1>3, <2>1, <2>2, <2>3, <2>4, OneCallChanges DEF FetchAnswered
<1>4. ASSUME NEW c \in KeyCallers, FetchFailed(c) PROVE KeysIInv'
  <2>1. keyCall[c].token \in Tokens \cup {NoToken}
    BY <1>t DEF KeysTypes, KeyCalls
  <2> QED
    BY <1>4, <2>1, VerdictIsTimely DEF FetchFailed
<1>5. ASSUME NEW c \in KeyCallers, StoreKeys(c) PROVE KeysIInv'
  <2> DEFINE r == [keyCall[c] EXCEPT !.pc = "recheck"]
  <2>1. /\ keyCall[c] \in KeyCalls /\ keyCall[c].pc = "store"
        /\ r \in KeyCalls /\ r.pc = "recheck" /\ r.since = keyCall[c].since
    BY <1>5, <1>t DEF StoreKeys, KeyCalls, KeysTypes
  <2>2. keyCall' = [keyCall EXCEPT ![c] = r]
    BY <1>5, <1>t DEF StoreKeys, KeysTypes
  <2>3. /\ keyCall'[c] = r /\ \A d \in KeyCallers : d # c => keyCall'[d] = keyCall[d]
        /\ keyCall' \in [KeyCallers -> KeyCalls]
    BY <1>t, <2>1, <2>2 DEF KeysTypes
  <2> HIDE DEF r
  <2>4. /\ keyCall[c].since <= keyClock /\ keyClock <= keyCall[c].since + FetchTime
        /\ keyCall[c].age <= MaxAgeLimit /\ keyCall[c].age \in Nat /\ keyCall[c].since \in Nat
        /\ \A k \in keyCall[c].document :
             withdrawnAt[k] = 0 \/ keyCall[c].since <= withdrawnAt[k]
        /\ keyCall[c].document \subseteq Keys
    BY <2>1 DEF KeysIInv, FetchesRecent, Waiting, KeyCalls
  <2>5. /\ UNCHANGED <<keyClock, published, withdrawnAt>>
        /\ cachedKeys' = keyCall[c].document
        /\ keysUntil' = keyClock + keyCall[c].age
    BY <1>5 DEF StoreKeys
  <2>6. KeysTypes'
    BY <1>t, <2>3, <2>4, <2>5 DEF KeysTypes
  <2>7. \A d \in KeyCallers : d # c => keyCall[d] \in KeyCalls
    BY <1>t DEF KeysTypes
  <2>8. FetchesRecent'
    <3>1. \A d \in KeyCallers \ {c} :
            /\ Waiting(d)' => /\ keyCall'[d].since <= keyClock'
                              /\ keyClock' <= keyCall'[d].since + FetchTime
            /\ keyCall'[d].pc = "store" =>
                 /\ keyCall'[d].age <= MaxAgeLimit
                 /\ \A k \in keyCall'[d].document :
                      withdrawnAt'[k] = 0 \/ keyCall'[d].since <= withdrawnAt'[k]
      BY <2>3, <2>5 DEF KeysIInv, FetchesRecent, Waiting
    <3>2. /\ keyCall'[c].since <= keyClock' /\ keyClock' <= keyCall'[c].since + FetchTime
          /\ keyCall'[c].pc # "store"
      BY <2>1, <2>3, <2>4, <2>5
    <3> QED
      BY <3>1, <3>2 DEF FetchesRecent, Waiting
  <2>9. StoredAt(keyClock)'
    <3>1. \A k \in keyCall[c].document :
            withdrawnAt[k] = 0 \/ keyClock <= withdrawnAt[k] + FetchTime
      BY <2>4, <1>t DEF KeysTypes
    <3>2. \A d \in KeyCallers : keyCall'[d].pc = "recheck" => keyCall'[d].since <= keyClock
      BY <2>1, <2>3, <2>4 DEF KeysIInv, FetchesRecent, Waiting
    <3>3. keyClock <= keyClock /\ keyClock + keyCall[c].age <= keyClock + MaxAgeLimit
      BY <2>4, <1>t DEF KeysTypes
    <3> QED
      BY <2>5, <3>1, <3>2, <3>3 DEF StoredAt
  <2>10. AcceptedKnown' /\ WithdrawnKeysDie'
    BY <2>1, <2>3, <2>5 DEF KeysIInv, AcceptedKnown, WithdrawnKeysDie
  <2> QED
    BY <1>t, <2>5, <2>6, <2>8, <2>9, <2>10 DEF KeysIInv, WithdrawnForGood, KeysTypes
<1>6. ASSUME NEW c \in KeyCallers, VerifyAfterFetch(c) PROVE KeysIInv'
  <2> DEFINE t == keyCall[c].token
             verdict == IF t.key \in cachedKeys THEN Verdict(t) ELSE "rejected"
  <2>1. t \in Tokens \cup {NoToken} /\ keyCall[c].since \in Nat
    BY <1>t DEF KeysTypes, KeyCalls
  <2>2. verdict \in {"accepted", "rejected"}
    BY DEF Verdict
  <2>3. keyClock <= keyCall[c].since + FetchTime /\ keyCall[c].since <= s
    BY <1>6, <1>s DEF VerifyAfterFetch, KeysIInv, FetchesRecent, Waiting, StoredAt
  <2>4. t.key \in cachedKeys =>
          withdrawnAt[t.key] = 0 \/ keyClock <= withdrawnAt[t.key] + FetchTime + MaxAgeLimit
    BY <1>s, <1>t, <2>1, <2>3 DEF StoredAt, KeysTypes
  <2>5. EndVerify(c, t, verdict)
    BY <1>6 DEF VerifyAfterFetch
  <2>6. verdict = "accepted" => t.key \in cachedKeys /\ t.key \in Keys
    BY <1>t DEF KeysTypes
  <2> HIDE DEF t, verdict
  <2> QED
    BY <1>6, <2>1, <2>2, <2>4, <2>5, <2>6, VerdictIsTimely DEF VerifyAfterFetch
<1>7. ASSUME NEW k \in Keys, PublishKey(k) PROVE KeysIInv'
  <2>1. KeysTypes' /\ WithdrawnForGood'
    BY <1>7, <1>t DEF PublishKey, KeysTypes, KeysIInv, WithdrawnForGood
  <2>2. FetchesRecent' /\ StoredAt(s)' /\ AcceptedKnown' /\ WithdrawnKeysDie'
    BY <1>7, <1>s DEF PublishKey, KeysIInv, FetchesRecent, Waiting, StoredAt, AcceptedKnown,
                      WithdrawnKeysDie
  <2> QED
    BY <2>1, <2>2 DEF KeysIInv
<1>8. ASSUME NEW k \in Keys, WithdrawKey(k) PROVE KeysIInv'
  <2>1. /\ withdrawnAt'[k] = keyClock /\ withdrawnAt' \in [Keys -> Nat]
        /\ \A j \in Keys : j # k => withdrawnAt'[j] = withdrawnAt[j]
    BY <1>8, <1>t DEF WithdrawKey, KeysTypes
  <2>2. /\ UNCHANGED <<keyClock, cachedKeys, keysUntil, keyCall>>
        /\ published' = published \ {k} /\ k \in published
    BY <1>8 DEF WithdrawKey
  <2>3. KeysTypes' /\ WithdrawnForGood'
    BY <1>t, <2>1, <2>2 DEF KeysTypes, KeysIInv, WithdrawnForGood
  <2>4. FetchesRecent'
    <3> SUFFICES ASSUME NEW c \in KeyCallers
                 PROVE  /\ Waiting(c) => /\ keyCall[c].since <= keyClock
                                         /\ keyClock <= keyCall[c].since + FetchTime
                        /\ keyCall[c].pc = "store" =>
                             /\ keyCall[c].age <= MaxAgeLimit
                             /\ \A j \in keyCall[c].document :
                                  withdrawnAt'[j] = 0 \/ keyCall[c].since <= withdrawnAt'[j]
      BY <2>2 DEF FetchesRecent, Waiting
    <3>1. keyCall[c].document \subseteq Keys
      BY <1>t DEF KeysTypes, KeyCalls
    <3> QED
      BY <2>1, <3>1 DEF KeysIInv, FetchesRecent, Waiting
  <2>5. StoredAt(s)'
    <3>1. \A j \in cachedKeys : withdrawnAt'[j] = 0 \/ s <= withdrawnAt'[j] + FetchTime
      BY <1>s, <1>t, <2>1 DEF StoredAt, KeysTypes
    <3> QED
      BY <1>s, <2>2, <3>1 DEF StoredAt
  <2>6. AcceptedKnown' /\ WithdrawnKeysDie'
    <3>1. keyClock <= keyClock + FetchTime + MaxAgeLimit
      BY <1>t DEF KeysTypes
    <3> QED
      BY <2>1, <2>2, <3>1 DEF KeysIInv, AcceptedKnown, WithdrawnKeysDie
  <2> QED
    BY <2>3, <2>4, <2>5, <2>6 DEF KeysIInv
<1>9. CASE KeysTick
  <2> DEFINE after == [c \in KeyCallers |-> IF Waiting(c) THEN keyCall[c] ELSE NoKeyCall]
  <2>1. NoKeyCall \in KeyCalls /\ NoKeyCall.pc = "idle"
    BY DEF NoKeyCall, KeyCalls
  <2>2. /\ keyCall' \in [KeyCallers -> KeyCalls]
        /\ \A c \in KeyCallers : /\ Waiting(c) => keyCall'[c] = keyCall[c]
                                 /\ ~Waiting(c) => keyCall'[c].pc = "idle"
    BY <1>9, <1>t, <2>1 DEF KeysTick, KeysTypes
  <2>3. KeysTypes' /\ WithdrawnForGood'
    BY <1>9, <1>t, <2>2 DEF KeysTick, KeysTypes, KeysIInv, WithdrawnForGood
  <2>4. FetchesRecent'
    <3> SUFFICES ASSUME NEW c \in KeyCallers
                 PROVE  /\ Waiting(c)' => /\ keyCall'[c].since <= keyClock'
                                          /\ keyClock' <= keyCall'[c].since + FetchTime
                        /\ keyCall'[c].pc = "store" =>
                             /\ keyCall'[c].age <= MaxAgeLimit
                             /\ \A k \in keyCall'[c].document :
                                  withdrawnAt'[k] = 0 \/ keyCall'[c].since <= withdrawnAt'[k]
      BY DEF FetchesRecent, Waiting
    <3>1. CASE Waiting(c)
      <4>1. keyCall[c].since \in Nat
        BY <1>t DEF KeysTypes, KeyCalls
      <4>2. keyCall'[c] = keyCall[c] /\ keyClock' = keyClock + 1
            /\ keyClock < keyCall[c].since + FetchTime /\ withdrawnAt' = withdrawnAt
        BY <1>9, <2>2, <3>1 DEF KeysTick
      <4> QED
        BY <1>t, <3>1, <4>1, <4>2 DEF KeysIInv, FetchesRecent, KeysTypes
    <3>2. CASE ~Waiting(c)
      BY <2>2, <3>2 DEF Waiting
    <3> QED
      BY <3>1, <3>2
  <2>5. StoredAt(s)'
    <3>1. \A c \in KeyCallers : keyCall'[c].pc = "recheck" => keyCall'[c].since <= s
      BY <1>s, <2>2 DEF StoredAt, Waiting
    <3> QED
      BY <1>9, <1>s, <1>t, <3>1 DEF KeysTick, StoredAt, KeysTypes
  <2>6. AcceptedKnown' /\ WithdrawnKeysDie'
    BY <2>2 DEF AcceptedKnown, WithdrawnKeysDie, Waiting
  <2> QED
    BY <2>3, <2>4, <2>5, <2>6 DEF KeysIInv
<1>10. CASE UNCHANGED keyVars
  BY <1>10, <1>s DEF keyVars, KeysIInv, KeysTypes, WithdrawnForGood, FetchesRecent, Waiting,
                     StoredAt, AcceptedKnown, WithdrawnKeysDie
<1> QED
  BY <1>1, <1>2, <1>3, <1>4, <1>5, <1>6, <1>7, <1>8, <1>9, <1>10 DEF KeysNext

\* No token is accepted later than one fetch and one maximal age after its key was
\* withdrawn, however many requests fetch, and in whatever order they store what
\* they fetched (Verify, key, refreshKeys, cacheMaxAge).
THEOREM WithdrawnKeysAreRefused == KeysSpec => []WithdrawnKeysDie
<1>1. KeysIInv => WithdrawnKeysDie
  BY DEF KeysIInv
<1> QED
  BY KeysStart, KeysKept, <1>1, PTL DEF KeysSpec

-----------------------------------------------------------------------------
(* The exceptions in Postgres *)

PgFindingRows == [PgFindingIds -> FindingRows \cup {Absent}]
PgExceptionRows == [PgExceptionIds -> ExceptionRows \cup {Absent, Gone}]

\* Findings that were listed, as they were then.
PgListed == {<<>>} \cup UNION {[S -> FindingRows] : S \in SUBSET PgFindingIds}

PgJobs ==
    [op : {"none", "sync", "list", "delete", "create", "expire"},
     step : {"idle", "list", "mark", "reload", "reopen", "finish", "commit"},
     subject : PgFindingIds \cup PgExceptionIds \cup {"none"},
     copy : FindingRows \cup {Absent},
     early : PgFindingRows \cup {<<>>},
     seen : PgExceptionRows \cup {<<>>},
     ran : SUBSET PgExceptionIds,
     reopen : PgListed]

PgTypes ==
    /\ pgFindings \in PgFindingRows /\ pgExceptions \in PgExceptionRows
    /\ pgJob \in [PgWorkers -> PgJobs]

\* A request holds what its next write needs; what ListExceptions is about to mark
\* it marks as expired.
Prepared(job) ==
    /\ job.op = "sync" => job.subject \in PgFindingIds /\ job.copy \in FindingRows
    /\ job.op \in {"create", "delete"} =>
         job.subject \in PgExceptionIds /\ job.early \in PgFindingRows
    /\ job.step = "mark" =>
         job.seen \in PgExceptionRows /\ \A e \in job.ran : job.seen[e].status = "expired"

\* A row that is being created does not exist yet, and has one creator.
CreatesNew ==
    \A w \in PgWorkers : pgJob[w].op = "create" =>
        /\ pgExceptions[pgJob[w].subject] = Absent
        /\ \A v \in PgWorkers \ {w} : pgJob[v].op = "create" => pgJob[v].subject # pgJob[w].subject

\* A row that is being deleted exists or existed.
DeletesOld ==
    \A w \in PgWorkers : pgJob[w].op = "delete" => pgExceptions[pgJob[w].subject] # Absent

PgIInv ==
    /\ PgTypes
    /\ \A w \in PgWorkers : Prepared(pgJob[w])
    /\ CreatesNew /\ DeletesOld

LEMMA RowsDiffer ==
    /\ Absent # Gone
    /\ \A row \in ExceptionRows : row # Absent /\ row # Gone
    /\ \A row \in FindingRows : row # Absent
<1>1. DOMAIN Absent = {"absent"} /\ DOMAIN Gone = {"gone"}
  BY DEF Absent, Gone
<1>2. \A row \in ExceptionRows : DOMAIN row = {"scope", "status", "left"}
  BY DEF ExceptionRows
<1>3. \A row \in FindingRows : DOMAIN row = {"status", "group", "stale"}
  BY DEF FindingRows
<1>4. "absent" # "gone" /\ "scope" # "absent" /\ "scope" # "gone" /\ "status" # "absent"
  OBVIOUS
<1> QED
  BY <1>1, <1>2, <1>3, <1>4

LEMMA IdleIsJob == Idle \in PgJobs /\ Idle.op = "none" /\ Idle.step = "idle" /\ Prepared(Idle)
<1>1. <<>> \in PgListed /\ <<>> \in PgFindingRows \cup {<<>>} /\ <<>> \in PgExceptionRows \cup {<<>>}
  BY DEF PgListed
<1>2. Idle \in PgJobs
  BY <1>1 DEF Idle, PgJobs
<1>3. Idle.op = "none" /\ Idle.step = "idle"
  BY DEF Idle
<1> QED
  BY <1>2, <1>3 DEF Prepared

LEMMA PgStartHolds == PgInit => PgIInv
<1> SUFFICES ASSUME PgInit PROVE PgIInv
  OBVIOUS
<1>1. PgTypes
  BY IdleIsJob DEF PgInit, PgTypes, PgFindingRows, PgExceptionRows
<1>2. \A w \in PgWorkers : pgJob[w] = Idle
  BY DEF PgInit
<1> QED
  BY <1>1, <1>2, IdleIsJob DEF PgIInv, CreatesNew, DeletesOld

\* A step that replaces what one request holds.  Rows may be created, but not those
\* that another request is creating, and no row ceases to be known.
LEMMA OneJobChanges ==
    ASSUME PgIInv, NEW w \in PgWorkers, NEW job \in PgJobs,
           pgJob' = [pgJob EXCEPT ![w] = job], Prepared(job),
           pgFindings' \in PgFindingRows, pgExceptions' \in PgExceptionRows,
           \A e \in PgExceptionIds : pgExceptions[e] # Absent => pgExceptions'[e] # Absent,
           \A v \in PgWorkers \ {w} :
               pgJob[v].op = "create" => pgExceptions'[pgJob[v].subject] = Absent,
           job.op = "create" =>
               /\ pgExceptions'[job.subject] = Absent
               /\ \A v \in PgWorkers \ {w} : pgJob[v].op = "create" => pgJob[v].subject # job.subject,
           job.op = "delete" => pgExceptions'[job.subject] # Absent
    PROVE  PgIInv'
<1>1. /\ pgJob' \in [PgWorkers -> PgJobs] /\ pgJob'[w] = job
      /\ \A v \in PgWorkers \ {w} : pgJob'[v] = pgJob[v]
  BY DEF PgIInv, PgTypes
<1>2. PgTypes'
  BY <1>1 DEF PgTypes
<1>3. \A v \in PgWorkers : Prepared(pgJob'[v])
  BY <1>1 DEF PgIInv
<1>4. CreatesNew'
  BY <1>1 DEF PgIInv, CreatesNew
<1>5. DeletesOld'
  <2>1. \A v \in PgWorkers : pgJob[v].op = "delete" => pgJob[v].subject \in PgExceptionIds
    BY DEF PgIInv, Prepared
  <2> QED
    BY <1>1, <2>1 DEF PgIInv, DeletesOld
<1> QED
  BY <1>2, <1>3, <1>4, <1>5 DEF PgIInv

\* A request reads, or writes findings only, and neither creates nor deletes.
LEMMA ExceptionsUntouched ==
    ASSUME PgIInv, NEW w \in PgWorkers, NEW job \in PgJobs,
           pgJob' = [pgJob EXCEPT ![w] = job], Prepared(job),
           pgFindings' \in PgFindingRows, UNCHANGED pgExceptions,
           job.op \in {"create", "delete"} =>
               pgJob[w].op = job.op /\ pgJob[w].subject = job.subject
    PROVE  PgIInv'
<1>1. \A v \in PgWorkers :
        /\ pgJob[v].op = "create" =>
             /\ pgExceptions'[pgJob[v].subject] = Absent
             /\ \A u \in PgWorkers \ {v} :
                  pgJob[u].op = "create" => pgJob[u].subject # pgJob[v].subject
        /\ pgJob[v].op = "delete" => pgExceptions'[pgJob[v].subject] # Absent
  BY DEF PgIInv, CreatesNew, DeletesOld
<1>2. pgExceptions' \in PgExceptionRows
  BY DEF PgIInv, PgTypes
<1> QED
  BY <1>1, <1>2, OneJobChanges

LEMMA ListedRows ==
    ASSUME NEW listed \in PgListed, NEW f \in DOMAIN listed
    PROVE  /\ f \in PgFindingIds /\ listed[f] \in FindingRows
           /\ [g \in DOMAIN listed \ {f} |-> listed[g]] \in PgListed
<1>1. listed # <<>>
  <2> SUFFICES ASSUME listed = <<>> PROVE FALSE
    OBVIOUS
  <2>1. DOMAIN listed = {}
    OBVIOUS
  <2> QED
    BY <2>1
<1>2. PICK S \in SUBSET PgFindingIds : listed \in [S -> FindingRows]
  BY <1>1 DEF PgListed
<1>3. /\ DOMAIN listed \ {f} \in SUBSET PgFindingIds
      /\ [g \in DOMAIN listed \ {f} |-> listed[g]] \in [DOMAIN listed \ {f} -> FindingRows]
  BY <1>2
<1> QED
  BY <1>2, <1>3, Zenon DEF PgListed

LEMMA ListedNow ==
    ASSUME PgTypes, NEW S \in SUBSET PgFindingIds, \A f \in S : pgFindings[f] # Absent
    PROVE  [f \in S |-> pgFindings[f]] \in PgListed
<1>1. [f \in S |-> pgFindings[f]] \in [S -> FindingRows]
  BY DEF PgTypes, PgFindingRows
<1> QED
  BY <1>1, Zenon DEF PgListed

LEMMA StatusReplaced ==
    ASSUME NEW row \in FindingRows, NEW status \in Statuses
    PROVE  [row EXCEPT !.status = status] \in FindingRows
BY DEF FindingRows

\* The steps that read, and those that write findings only.
LEMMA PgReads ==
    ASSUME PgIInv, NEW w \in PgWorkers,
           \/ PgObserve(w) \/ PgListRequest(w) \/ PgExpireRead(w)
           \/ \E e \in PgExceptionIds : PgDeleteRead(w, e) \/ PgCreateRead(w, e)
    PROVE  PgIInv' /\ UNCHANGED pgExceptions
<1>t. /\ PgTypes /\ pgFindings \in PgFindingRows /\ pgExceptions \in PgExceptionRows
      /\ pgJob \in [PgWorkers -> PgJobs]
  BY DEF PgIInv, PgTypes
<1>1. CASE PgObserve(w)
  <2>1. PICK f \in PgFindingIds, s \in PgReported, g \in PgGroups, old \in BOOLEAN :
          PgSyncRead(w, f, s, g, old)
    BY <1>1 DEF PgObserve
  <2>2. PICK copy : copy = [status |-> Observed(pgFindings[f], s), group |-> g, stale |-> old]
    OBVIOUS
  <2>3. Observed(pgFindings[f], s) \in Statuses
    BY FindingAssumption, PgAssumption, <1>t DEF Observed, PgFindingRows, FindingRows, Statuses
  <2>4. copy \in FindingRows
    BY <2>2, <2>3, PgAssumption DEF FindingRows
  <2> DEFINE job == [Idle EXCEPT !.op = "sync", !.step = "list", !.subject = f, !.copy = copy]
  <2>5. job \in PgJobs /\ job.op = "sync" /\ job.step = "list" /\ job.subject = f /\ job.copy = copy
    BY <2>4, IdleIsJob DEF PgJobs
  <2>6. pgJob' = [pgJob EXCEPT ![w] = job] /\ UNCHANGED <<pgFindings, pgExceptions>>
    BY <2>1, <2>2 DEF PgSyncRead, PgStart
  <2> HIDE DEF job
  <2>7. Prepared(job)
    BY <2>4, <2>5 DEF Prepared
  <2> QED
    BY <1>t, <2>5, <2>6, <2>7, ExceptionsUntouched
<1>2. CASE PgListRequest(w)
  <2> DEFINE job == [Idle EXCEPT !.op = "list", !.step = "list"]
  <2>1. job \in PgJobs /\ job.op = "list" /\ job.step = "list"
    BY IdleIsJob DEF PgJobs
  <2>2. pgJob' = [pgJob EXCEPT ![w] = job] /\ UNCHANGED <<pgFindings, pgExceptions>>
    BY <1>2 DEF PgListRequest, PgStart
  <2> HIDE DEF job
  <2> QED
    BY <1>t, <2>1, <2>2, ExceptionsUntouched DEF Prepared
<1>3. CASE PgExpireRead(w)
  <2> DEFINE S == {g \in PgFindingIds : pgFindings[g] # Absent /\ EvidenceExpires(pgFindings[g])}
             listed == [f \in S |-> pgFindings[f]]
             job == [Idle EXCEPT !.op = "expire", !.step = "commit", !.reopen = listed]
  <2>1. listed \in PgListed
    BY <1>t, ListedNow
  <2>2. pgJob' = [pgJob EXCEPT ![w] = job] /\ UNCHANGED <<pgFindings, pgExceptions>>
    BY <1>3 DEF PgExpireRead, PgStart
  <2> HIDE DEF listed
  <2>3. job \in PgJobs /\ job.op = "expire" /\ job.step = "commit"
    BY <2>1, IdleIsJob DEF PgJobs
  <2> HIDE DEF job
  <2> QED
    BY <1>t, <2>2, <2>3, ExceptionsUntouched DEF Prepared
<1>4. ASSUME NEW e \in PgExceptionIds, PgDeleteRead(w, e) PROVE PgIInv' /\ UNCHANGED pgExceptions
  <2> DEFINE early == [f \in PgFindingIds |->
                         IF Suppressed(pgFindings[f])
                            /\ ExceptionMatches(pgExceptions[e], f, pgFindings[f].group)
                         THEN pgFindings[f] ELSE Absent]
             job == [Idle EXCEPT !.op = "delete", !.step = "list", !.subject = e, !.early = early]
  <2>1. early \in PgFindingRows
    BY <1>t DEF PgFindingRows
  <2>2. /\ pgJob' = [pgJob EXCEPT ![w] = job] /\ UNCHANGED <<pgFindings, pgExceptions>>
        /\ pgExceptions[e] # Absent
    BY <1>4 DEF PgDeleteRead, PgStart, IsException
  <2> HIDE DEF early
  <2>3. /\ job \in PgJobs /\ job.op = "delete" /\ job.step = "list"
        /\ job.subject = e /\ job.early = early
    BY <2>1, IdleIsJob DEF PgJobs
  <2> HIDE DEF job
  <2>4. Prepared(job)
    BY <2>1, <2>3 DEF Prepared
  <2>5. \A v \in PgWorkers : pgJob[v].op = "create" => pgExceptions'[pgJob[v].subject] = Absent
    BY <2>2 DEF PgIInv, CreatesNew
  <2> QED
    BY <1>t, <2>2, <2>3, <2>4, <2>5, OneJobChanges
<1>5. ASSUME NEW e \in PgExceptionIds, PgCreateRead(w, e) PROVE PgIInv' /\ UNCHANGED pgExceptions
  <2> DEFINE job == [Idle EXCEPT !.op = "create", !.step = "commit", !.subject = e,
                                 !.early = pgFindings]
  <2>2. /\ pgJob' = [pgJob EXCEPT ![w] = job] /\ UNCHANGED <<pgFindings, pgExceptions>>
        /\ pgExceptions[e] = Absent
        /\ \A v \in PgWorkers : pgJob[v].op # "create" \/ pgJob[v].subject # e
    BY <1>5 DEF PgCreateRead, PgStart
  <2>3. /\ job \in PgJobs /\ job.op = "create" /\ job.step = "commit"
        /\ job.subject = e /\ job.early = pgFindings
    BY <1>t, IdleIsJob DEF PgJobs
  <2> HIDE DEF job
  <2>4. Prepared(job)
    BY <1>t, <2>3 DEF Prepared
  <2>5. \A v \in PgWorkers : pgJob[v].op = "create" => pgExceptions'[pgJob[v].subject] = Absent
    BY <2>2 DEF PgIInv, CreatesNew
  <2> QED
    BY <1>t, <2>2, <2>3, <2>4, <2>5, OneJobChanges
<1> QED
  BY <1>1, <1>2, <1>3, <1>4, <1>5

\* What ListExceptions remembers of the rows.
LEMMA RememberedRows ==
    ASSUME NEW row \in ExceptionRows \cup {Absent, Gone}
    PROVE  /\ Remembered(row) \in ExceptionRows \cup {Absent, Gone}
           /\ IsException(row) =>
                /\ [Remembered(row) EXCEPT !.status = "expired"] \in ExceptionRows
                /\ [Remembered(row) EXCEPT !.status = "expired"].status = "expired"
<1>1. ASSUME IsException(row)
      PROVE  Remembered(row) \in ExceptionRows
  <2>1. row \in ExceptionRows /\ Remembered(row) = [row EXCEPT !.left = 0]
    BY <1>1 DEF IsException, Remembered
  <2> QED
    BY <2>1, FindingAssumption DEF ExceptionRows
<1>2. \A r \in ExceptionRows : /\ [r EXCEPT !.status = "expired"] \in ExceptionRows
                               /\ [r EXCEPT !.status = "expired"].status = "expired"
  BY DEF ExceptionRows
<1>3. CASE IsException(row)
  BY <1>1, <1>2, <1>3
<1>4. CASE ~IsException(row)
  BY <1>4 DEF Remembered
<1> QED
  BY <1>3, <1>4

LEMMA PgListReads ==
    ASSUME PgIInv, NEW w \in PgWorkers, PgListFails(w) \/ PgListRead(w) \/ PgReload(w)
    PROVE  PgIInv' /\ UNCHANGED pgExceptions
<1>t. /\ PgTypes /\ pgFindings \in PgFindingRows /\ pgExceptions \in PgExceptionRows
      /\ pgJob \in [PgWorkers -> PgJobs] /\ pgJob[w] \in PgJobs /\ Prepared(pgJob[w])
  BY DEF PgIInv, PgTypes
<1>1. CASE PgListFails(w)
  <2>1. PICK seen \in PgExceptionRows : seen = [e \in PgExceptionIds |-> Absent]
    BY DEF PgExceptionRows
  <2> DEFINE job == [pgJob[w] EXCEPT !.step = "finish", !.seen = seen]
  <2>2. pgJob' = [pgJob EXCEPT ![w] = job] /\ UNCHANGED <<pgFindings, pgExceptions>>
    BY <1>1, <1>t, <2>1 DEF PgListFails
  <2>3. /\ job \in PgJobs /\ job.op = pgJob[w].op /\ job.step = "finish"
        /\ job.subject = pgJob[w].subject /\ job.early = pgJob[w].early
        /\ job.copy = pgJob[w].copy
    BY <1>t, <2>1 DEF PgJobs
  <2> HIDE DEF job
  <2>4. Prepared(job)
    BY <1>t, <2>3 DEF Prepared
  <2> QED
    BY <1>t, <2>2, <2>3, <2>4, ExceptionsUntouched
<1>2. CASE PgListRead(w)
  <2> DEFINE ran == {e \in PgExceptionIds : /\ IsException(pgExceptions[e])
                                            /\ pgExceptions[e].status = "active"
                                            /\ pgExceptions[e].left = 0}
             seen == [e \in PgExceptionIds |->
                        IF e \in ran
                        THEN [Remembered(pgExceptions[e]) EXCEPT !.status = "expired"]
                        ELSE Remembered(pgExceptions[e])]
             step == IF ran = {} THEN "finish" ELSE "mark"
             job == [pgJob[w] EXCEPT !.step = step, !.ran = ran, !.seen = seen]
  <2>1. ran \in SUBSET PgExceptionIds /\ \A e \in ran : IsException(pgExceptions[e])
    OBVIOUS
  <2>2. pgJob' = [pgJob EXCEPT ![w] = job] /\ UNCHANGED <<pgFindings, pgExceptions>>
    BY <1>2, <1>t DEF PgListRead
  <2>3. step \in {"finish", "mark"}
    OBVIOUS
  <2> HIDE DEF ran, step
  <2>4. seen \in PgExceptionRows /\ \A e \in ran : seen[e].status = "expired"
    <3>1. \A e \in PgExceptionIds : pgExceptions[e] \in ExceptionRows \cup {Absent, Gone}
      BY <1>t DEF PgExceptionRows
    <3>2. \A e \in PgExceptionIds : Remembered(pgExceptions[e]) \in ExceptionRows \cup {Absent, Gone}
      BY <3>1, RememberedRows
    <3>3. \A e \in ran :
            /\ [Remembered(pgExceptions[e]) EXCEPT !.status = "expired"] \in ExceptionRows
            /\ [Remembered(pgExceptions[e]) EXCEPT !.status = "expired"].status = "expired"
      BY <2>1, <3>1, RememberedRows
    <3> QED
      BY <2>1, <3>2, <3>3 DEF PgExceptionRows
  <2> HIDE DEF seen
  <2>5. /\ job \in PgJobs /\ job.op = pgJob[w].op /\ job.step = step
        /\ job.subject = pgJob[w].subject /\ job.early = pgJob[w].early
        /\ job.copy = pgJob[w].copy /\ job.ran = ran /\ job.seen = seen
    BY <1>t, <2>1, <2>3, <2>4 DEF PgJobs
  <2> HIDE DEF job
  <2>6. Prepared(job)
    BY <1>t, <2>4, <2>5 DEF Prepared
  <2> QED
    BY <1>t, <2>2, <2>5, <2>6, ExceptionsUntouched
<1>3. CASE PgReload(w)
  <2> DEFINE suppressed == {f \in PgFindingIds : Suppressed(pgFindings[f])}
             listed == [f \in suppressed |-> pgFindings[f]]
             step == IF suppressed = {} THEN "finish" ELSE "reopen"
             job == [pgJob[w] EXCEPT !.step = step, !.reopen = listed]
  <2>1. listed \in PgListed
    BY <1>t, ListedNow DEF Suppressed
  <2>2. pgJob' = [pgJob EXCEPT ![w] = job] /\ UNCHANGED <<pgFindings, pgExceptions>>
    BY <1>3, <1>t DEF PgReload
  <2>3. step \in {"finish", "reopen"}
    OBVIOUS
  <2> HIDE DEF listed, step
  <2>4. /\ job \in PgJobs /\ job.op = pgJob[w].op /\ job.step = step
        /\ job.subject = pgJob[w].subject /\ job.early = pgJob[w].early
        /\ job.copy = pgJob[w].copy
    BY <1>t, <2>1, <2>3 DEF PgJobs
  <2> HIDE DEF job
  <2>5. Prepared(job)
    BY <1>t, <2>3, <2>4 DEF Prepared
  <2> QED
    BY <1>t, <2>2, <2>4, <2>5, ExceptionsUntouched
<1> QED
  BY <1>1, <1>2, <1>3

LEMMA PgFindingWrites ==
    ASSUME PgIInv, NEW w \in PgWorkers,
           PgReopen(w) \/ PgSyncSave(w) \/ PgListReply(w) \/ PgExpireCommit(w) \/ PgCrash(w)
    PROVE  PgIInv' /\ UNCHANGED pgExceptions
<1>t. /\ PgTypes /\ pgFindings \in PgFindingRows /\ pgExceptions \in PgExceptionRows
      /\ pgJob \in [PgWorkers -> PgJobs] /\ pgJob[w] \in PgJobs /\ Prepared(pgJob[w])
  BY DEF PgIInv, PgTypes
<1>s. \A s \in {"open", "suppressed", "expired"} : s \in Statuses
  BY DEF Statuses
<1>w. ASSUME NEW f \in PgFindingIds, NEW row \in FindingRows
      PROVE  [pgFindings EXCEPT ![f] = row] \in PgFindingRows
  BY <1>t DEF PgFindingRows
<1>l. pgJob[w].reopen \in PgListed
  BY <1>t DEF PgJobs
<1>1. CASE PgReopen(w)
  <2>1. PICK f \in DOMAIN pgJob[w].reopen :
          LET row == pgJob[w].reopen[f]
              rest == DOMAIN pgJob[w].reopen \ {f}
          IN /\ pgFindings' = IF PgCovered(f, row.group, pgJob[w].seen, {}) THEN pgFindings
                              ELSE [pgFindings EXCEPT ![f] = [row EXCEPT !.status = "open"]]
             /\ pgJob' = [pgJob EXCEPT
                  ![w].reopen = IF rest = {} THEN <<>> ELSE [g \in rest |-> pgJob[w].reopen[g]],
                  ![w].step = IF rest = {} THEN "finish" ELSE "reopen"]
    BY <1>1 DEF PgReopen
  <2> DEFINE rest == DOMAIN pgJob[w].reopen \ {f}
             left == IF rest = {} THEN <<>> ELSE [g \in rest |-> pgJob[w].reopen[g]]
             step == IF rest = {} THEN "finish" ELSE "reopen"
             job == [pgJob[w] EXCEPT !.reopen = left, !.step = step]
  <2>2. /\ f \in PgFindingIds /\ pgJob[w].reopen[f] \in FindingRows
        /\ [g \in rest |-> pgJob[w].reopen[g]] \in PgListed /\ <<>> \in PgListed
    BY <1>l, ListedRows DEF PgListed
  <2>3. left \in PgListed /\ step \in {"finish", "reopen"}
    BY <2>2
  <2>4. pgFindings' \in PgFindingRows
    BY <1>t, <1>s, <1>w, <2>1, <2>2, StatusReplaced
  <2>5. pgJob' = [pgJob EXCEPT ![w] = job] /\ UNCHANGED pgExceptions
    BY <1>1, <1>t, <2>1 DEF PgReopen
  <2> HIDE DEF left, step
  <2>6. /\ job \in PgJobs /\ job.op = pgJob[w].op /\ job.step = step
        /\ job.subject = pgJob[w].subject /\ job.early = pgJob[w].early
        /\ job.copy = pgJob[w].copy
    BY <1>t, <2>3 DEF PgJobs
  <2> HIDE DEF job
  <2>7. Prepared(job)
    BY <1>t, <2>3, <2>6 DEF Prepared
  <2> QED
    BY <2>4, <2>5, <2>6, <2>7, ExceptionsUntouched
<1>2. CASE PgSyncSave(w)
  <2>1. pgJob[w].subject \in PgFindingIds /\ pgJob[w].copy \in FindingRows
    BY <1>2, <1>t DEF PgSyncSave, Prepared
  <2>2. pgFindings' \in PgFindingRows
    BY <1>2, <1>s, <1>w, <2>1, StatusReplaced DEF PgSyncSave
  <2> QED
    BY <1>2, <2>2, IdleIsJob, ExceptionsUntouched DEF PgSyncSave, PgDone
<1>3. CASE PgListReply(w) \/ PgCrash(w)
  BY <1>3, <1>t, IdleIsJob, ExceptionsUntouched DEF PgListReply, PgCrash, PgDone
<1>4. CASE PgExpireCommit(w)
  <2>1. PICK f \in DOMAIN pgJob[w].reopen :
          LET rest == DOMAIN pgJob[w].reopen \ {f} IN
          /\ pgFindings' = [pgFindings EXCEPT ![f] =
               [pgJob[w].reopen[f] EXCEPT !.status = "expired"]]
          /\ pgJob' = [pgJob EXCEPT ![w] = IF rest = {} THEN Idle ELSE
               [@ EXCEPT !.reopen = [g \in rest |-> pgJob[w].reopen[g]]]]
    BY <1>4 DEF PgExpireCommit
  <2> DEFINE rest == DOMAIN pgJob[w].reopen \ {f}
             left == [g \in rest |-> pgJob[w].reopen[g]]
             later == [pgJob[w] EXCEPT !.reopen = left]
             job == IF rest = {} THEN Idle ELSE later
  <2>2. f \in PgFindingIds /\ pgJob[w].reopen[f] \in FindingRows /\ left \in PgListed
    BY <1>l, ListedRows
  <2>3. pgFindings' \in PgFindingRows
    BY <1>s, <1>w, <2>1, <2>2, StatusReplaced
  <2>4. pgJob' = [pgJob EXCEPT ![w] = job] /\ UNCHANGED pgExceptions
    BY <1>4, <1>t, <2>1 DEF PgExpireCommit
  <2> HIDE DEF left
  <2>5. /\ later \in PgJobs /\ later.op = pgJob[w].op /\ later.step = pgJob[w].step
        /\ later.subject = pgJob[w].subject /\ later.early = pgJob[w].early
        /\ later.copy = pgJob[w].copy /\ later.ran = pgJob[w].ran /\ later.seen = pgJob[w].seen
    BY <1>t, <2>2 DEF PgJobs
  <2> HIDE DEF later
  <2>6. /\ job \in PgJobs /\ Prepared(job)
        /\ job.op \in {"create", "delete"} => pgJob[w].op = job.op /\ pgJob[w].subject = job.subject
    BY <1>t, <2>5, IdleIsJob DEF Prepared
  <2> HIDE DEF job
  <2> QED
    BY <2>3, <2>4, <2>6, ExceptionsUntouched
<1> QED
  BY <1>1, <1>2, <1>3, <1>4

\* What a step may do to the rows: one that is deleted stays so, and one that has
\* expired stays so until it is deleted.
OnlyAge ==
    \A e \in PgExceptionIds :
        /\ pgExceptions[e] = Gone => pgExceptions'[e] = Gone
        /\ IsException(pgExceptions[e]) /\ pgExceptions[e].status = "expired" =>
             pgExceptions'[e] = Gone \/ pgExceptions'[e].status = "expired"

LEMMA PgMarks == ASSUME PgIInv, NEW w \in PgWorkers, PgMark(w) PROVE PgIInv' /\ OnlyAge
<1>t. /\ pgFindings \in PgFindingRows /\ pgExceptions \in PgExceptionRows
      /\ pgJob \in [PgWorkers -> PgJobs] /\ pgJob[w] \in PgJobs /\ Prepared(pgJob[w])
  BY DEF PgIInv, PgTypes
<1>1. PICK e \in pgJob[w].ran :
        /\ pgExceptions' \in {SaveException(pgExceptions, e, pgJob[w].seen[e]), pgExceptions}
        /\ pgJob' = [pgJob EXCEPT ![w].ran = @ \ {e},
             ![w].step = IF pgJob[w].ran = {e} THEN "reload" ELSE "mark"]
  BY DEF PgMark
<1>2. /\ e \in PgExceptionIds /\ pgJob[w].ran \in SUBSET PgExceptionIds
      /\ pgJob[w].seen[e].status = "expired" /\ pgJob[w].seen \in PgExceptionRows
  BY <1>t DEF PgMark, PgJobs, Prepared
<1>3. PICK ran \in SUBSET PgExceptionIds : ran = pgJob[w].ran \ {e}
  BY <1>2
<1>4. PICK step \in {"reload", "mark"} : step = IF pgJob[w].ran = {e} THEN "reload" ELSE "mark"
  OBVIOUS
<1> DEFINE job == [pgJob[w] EXCEPT !.ran = ran, !.step = step]
<1>5. pgJob' = [pgJob EXCEPT ![w] = job]
  BY <1>1, <1>3, <1>4, <1>t
<1>6. /\ job \in PgJobs /\ job.op = pgJob[w].op /\ job.subject = pgJob[w].subject
      /\ job.early = pgJob[w].early /\ job.copy = pgJob[w].copy
      /\ job.seen = pgJob[w].seen /\ job.ran = ran
  BY <1>t, <1>3, <1>4 DEF PgJobs
<1> HIDE DEF job
<1>7. Prepared(job)
  BY <1>t, <1>2, <1>3, <1>6 DEF Prepared, PgMark
<1>8. CASE IsException(pgExceptions[e]) /\ pgExceptions' # pgExceptions
  <2>1. pgExceptions[e] \in ExceptionRows
    BY <1>8, <1>t, <1>2 DEF IsException, PgExceptionRows
  <2> DEFINE row == [pgExceptions[e] EXCEPT !.status = "expired"]
  <2>2. row \in ExceptionRows /\ row.status = "expired"
    BY <2>1 DEF ExceptionRows
  <2>3. pgExceptions' = [pgExceptions EXCEPT ![e] = row]
    BY <1>8, <1>1, <1>2, <1>t DEF SaveException, PgExceptionRows
  <2> HIDE DEF row
  <2>4. /\ pgExceptions' \in PgExceptionRows /\ pgExceptions'[e] = row
        /\ \A d \in PgExceptionIds \ {e} : pgExceptions'[d] = pgExceptions[d]
    BY <1>t, <1>2, <2>2, <2>3 DEF PgExceptionRows
  <2>5. /\ pgExceptions'[e] # Absent /\ pgExceptions[e] # Absent /\ pgExceptions[e] # Gone
    BY <1>8, <2>2, <2>4, RowsDiffer DEF IsException
  <2>6. \A d \in PgExceptionIds : pgExceptions[d] # Absent <=> pgExceptions'[d] # Absent
    BY <2>4, <2>5
  <2>7. \A v \in PgWorkers :
          /\ pgJob[v].op = "create" =>
               /\ pgExceptions'[pgJob[v].subject] = Absent
               /\ \A u \in PgWorkers \ {v} :
                    pgJob[u].op = "create" => pgJob[u].subject # pgJob[v].subject
          /\ pgJob[v].op = "delete" => pgExceptions'[pgJob[v].subject] # Absent
    <3>1. \A v \in PgWorkers : pgJob[v].op \in {"create", "delete"} => pgJob[v].subject \in PgExceptionIds
      BY DEF PgIInv, Prepared
    <3> QED
      BY <2>6, <3>1 DEF PgIInv, CreatesNew, DeletesOld
  <2>8. pgFindings' \in PgFindingRows
    BY <1>t DEF PgMark
  <2>9. PgIInv'
    <3>1. /\ job.op = "create" =>
               /\ pgExceptions'[job.subject] = Absent
               /\ \A v \in PgWorkers \ {w} :
                    pgJob[v].op = "create" => pgJob[v].subject # job.subject
          /\ job.op = "delete" => pgExceptions'[job.subject] # Absent
      BY <1>6, <2>7
    <3>2. \A v \in PgWorkers \ {w} :
            pgJob[v].op = "create" => pgExceptions'[pgJob[v].subject] = Absent
      BY <2>7
    <3> QED
      BY <1>5, <1>6, <1>7, <2>4, <2>6, <2>8, <3>1, <3>2, OneJobChanges
  <2>10. OnlyAge
    BY <2>2, <2>4, <2>5 DEF OnlyAge
  <2> QED
    BY <2>9, <2>10
<1>9. CASE ~IsException(pgExceptions[e]) \/ pgExceptions' = pgExceptions
  <2>1. UNCHANGED <<pgFindings, pgExceptions>>
    BY <1>9, <1>1 DEF SaveException, PgMark
  <2>2. PgIInv'
    BY <1>t, <1>5, <1>6, <1>7, <2>1, ExceptionsUntouched
  <2> QED
    BY <2>1, <2>2 DEF OnlyAge
<1> QED
  BY <1>8, <1>9

LEMMA PgDeletes == ASSUME PgIInv, NEW w \in PgWorkers, PgDeleteCommit(w) PROVE PgIInv' /\ OnlyAge
<1>t. /\ pgFindings \in PgFindingRows /\ pgExceptions \in PgExceptionRows
      /\ pgJob \in [PgWorkers -> PgJobs] /\ pgJob[w] \in PgJobs /\ Prepared(pgJob[w])
  BY DEF PgIInv, PgTypes
<1> DEFINE e == pgJob[w].subject
<1>1. e \in PgExceptionIds /\ pgJob[w].early \in PgFindingRows /\ pgExceptions[e] # Absent
  BY <1>t DEF PgDeleteCommit, Prepared, PgIInv, DeletesOld
<1>2. /\ pgExceptions' = [pgExceptions EXCEPT ![e] = Gone] /\ pgJob' = [pgJob EXCEPT ![w] = Idle]
      /\ pgFindings' = [f \in PgFindingIds |->
            IF /\ pgJob[w].early[f] # Absent
               /\ ~PgCovered(f, pgJob[w].early[f].group, pgJob[w].seen, {e})
            THEN [pgJob[w].early[f] EXCEPT !.status = "open"] ELSE pgFindings[f]]
  BY DEF PgDeleteCommit, PgDone
<1> HIDE DEF e
<1>3. pgFindings' \in PgFindingRows
  <2>1. \A f \in PgFindingIds : pgJob[w].early[f] # Absent =>
          [pgJob[w].early[f] EXCEPT !.status = "open"] \in FindingRows
    BY <1>1, StatusReplaced DEF PgFindingRows, Statuses
  <2> QED
    BY <1>t, <1>2, <2>1 DEF PgFindingRows
<1>4. /\ pgExceptions' \in PgExceptionRows /\ pgExceptions'[e] = Gone
      /\ \A d \in PgExceptionIds \ {e} : pgExceptions'[d] = pgExceptions[d]
  BY <1>t, <1>1, <1>2 DEF PgExceptionRows
<1>5. \A d \in PgExceptionIds : pgExceptions[d] # Absent <=> pgExceptions'[d] # Absent
  BY <1>1, <1>4, RowsDiffer
<1>6. \A v \in PgWorkers : pgJob[v].op = "create" => pgExceptions'[pgJob[v].subject] = Absent
  <2>1. \A v \in PgWorkers : pgJob[v].op = "create" => pgJob[v].subject \in PgExceptionIds
    BY DEF PgIInv, Prepared
  <2> QED
    BY <1>5, <2>1 DEF PgIInv, CreatesNew
<1>7. PgIInv'
  BY <1>2, <1>3, <1>4, <1>5, <1>6, IdleIsJob, OneJobChanges
<1>8. OnlyAge
  BY <1>4 DEF OnlyAge
<1> QED
  BY <1>7, <1>8

LEMMA PgCreates ==
    ASSUME PgIInv, NEW w \in PgWorkers, NEW s \in PgScopes, NEW n \in 1 .. MaxLifetime,
           PgCreateCommit(w, s, n)
    PROVE  PgIInv' /\ OnlyAge
<1>t. /\ pgFindings \in PgFindingRows /\ pgExceptions \in PgExceptionRows
      /\ pgJob \in [PgWorkers -> PgJobs] /\ pgJob[w] \in PgJobs /\ Prepared(pgJob[w])
  BY DEF PgIInv, PgTypes
<1> DEFINE e == pgJob[w].subject
           row == [scope |-> s, status |-> "active", left |-> n]
<1>0. row \in ExceptionRows
  BY FindingAssumption, PgAssumption DEF ExceptionRows
<1>1. /\ e \in PgExceptionIds /\ pgJob[w].early \in PgFindingRows /\ pgExceptions[e] = Absent
      /\ \A v \in PgWorkers \ {w} : pgJob[v].op = "create" => pgJob[v].subject # e
  BY <1>t DEF PgCreateCommit, Prepared, PgIInv, CreatesNew
<1>2. /\ pgExceptions' = [pgExceptions EXCEPT ![e] = row] /\ pgJob' = [pgJob EXCEPT ![w] = Idle]
      /\ pgFindings' = [f \in PgFindingIds |->
            IF pgJob[w].early[f] # Absent /\ ExceptionMatches(row, f, pgJob[w].early[f].group)
            THEN [pgJob[w].early[f] EXCEPT !.status = "suppressed"] ELSE pgFindings[f]]
  BY DEF PgCreateCommit, PgDone
<1> HIDE DEF e, row
<1>3. pgFindings' \in PgFindingRows
  <2>1. \A f \in PgFindingIds : pgJob[w].early[f] # Absent =>
          [pgJob[w].early[f] EXCEPT !.status = "suppressed"] \in FindingRows
    BY <1>1, StatusReplaced DEF PgFindingRows, Statuses
  <2> QED
    BY <1>t, <1>2, <2>1 DEF PgFindingRows
<1>4. /\ pgExceptions' \in PgExceptionRows /\ pgExceptions'[e] = row
      /\ \A d \in PgExceptionIds \ {e} : pgExceptions'[d] = pgExceptions[d]
  BY <1>t, <1>0, <1>1, <1>2 DEF PgExceptionRows
<1>5. \A d \in PgExceptionIds : pgExceptions[d] # Absent => pgExceptions'[d] # Absent
  BY <1>1, <1>4
<1>6. \A v \in PgWorkers \ {w} : pgJob[v].op = "create" => pgExceptions'[pgJob[v].subject] = Absent
  <2>1. \A v \in PgWorkers : pgJob[v].op = "create" => pgJob[v].subject \in PgExceptionIds
    BY DEF PgIInv, Prepared
  <2> QED
    BY <1>1, <1>4, <2>1 DEF PgIInv, CreatesNew
<1>7. PgIInv'
  BY <1>2, <1>3, <1>4, <1>5, <1>6, IdleIsJob, OneJobChanges
<1>8. OnlyAge
  BY <1>1, <1>4, RowsDiffer DEF OnlyAge, IsException
<1> QED
  BY <1>7, <1>8

\* Requests in progress are left alone, and no row comes or goes.
LEMMA JobsUntouched ==
    ASSUME PgIInv, UNCHANGED pgJob, pgFindings' \in PgFindingRows, pgExceptions' \in PgExceptionRows,
           \A e \in PgExceptionIds : pgExceptions[e] = Absent <=> pgExceptions'[e] = Absent
    PROVE  PgIInv'
<1>1. PgTypes'
  BY DEF PgIInv, PgTypes
<1>2. \A w \in PgWorkers : Prepared(pgJob'[w])
  BY DEF PgIInv
<1>3. \A v \in PgWorkers : pgJob[v].op \in {"create", "delete"} => pgJob[v].subject \in PgExceptionIds
  BY DEF PgIInv, Prepared
<1>4. CreatesNew' /\ DeletesOld'
  BY <1>3 DEF PgIInv, CreatesNew, DeletesOld
<1> QED
  BY <1>1, <1>2, <1>4 DEF PgIInv

LEMMA PgOthers ==
    ASSUME PgIInv,
           \/ PgTick \/ UNCHANGED pgVars
           \/ \E f \in PgFindingIds, s \in ManualStatuses : PgUpdateStatus(f, s)
    PROVE  PgIInv' /\ OnlyAge
<1>t. /\ pgFindings \in PgFindingRows /\ pgExceptions \in PgExceptionRows
  BY DEF PgIInv, PgTypes
<1>1. CASE PgTick
  <2> DEFINE older(e) == [pgExceptions[e] EXCEPT !.left = @ - 1]
  <2>1. ASSUME NEW e \in PgExceptionIds, IsException(pgExceptions[e]), pgExceptions[e].left > 0
        PROVE  older(e) \in ExceptionRows /\ older(e).status = pgExceptions[e].status
    <3>1. pgExceptions[e] \in ExceptionRows
      BY <1>t, <2>1 DEF IsException, PgExceptionRows
    <3>2. PICK n \in 0 .. MaxLifetime : n = pgExceptions[e].left - 1
      BY <2>1, <3>1, FindingAssumption DEF ExceptionRows
    <3>3. older(e) = [pgExceptions[e] EXCEPT !.left = n]
      BY <3>2
    <3> QED
      BY <3>1, <3>3 DEF ExceptionRows
  <2>2. pgExceptions' = [e \in PgExceptionIds |->
          IF IsException(pgExceptions[e]) /\ pgExceptions[e].left > 0
          THEN older(e) ELSE pgExceptions[e]]
    BY <1>1 DEF PgTick
  <2> HIDE DEF older
  <2>3. pgExceptions' \in PgExceptionRows
    BY <1>t, <2>1, <2>2 DEF PgExceptionRows
  <2>4. \A e \in PgExceptionIds :
          \/ pgExceptions'[e] = pgExceptions[e]
          \/ /\ IsException(pgExceptions[e]) /\ pgExceptions'[e] \in ExceptionRows
             /\ pgExceptions'[e].status = pgExceptions[e].status
    BY <2>1, <2>2
  <2>5. \A e \in PgExceptionIds : pgExceptions[e] = Absent <=> pgExceptions'[e] = Absent
    BY <2>4, RowsDiffer DEF IsException
  <2>6. OnlyAge
    BY <2>4 DEF OnlyAge, IsException
  <2> QED
    BY <1>1, <1>t, <2>3, <2>5, <2>6, JobsUntouched DEF PgTick
<1>2. CASE UNCHANGED pgVars
  BY <1>2, <1>t, JobsUntouched DEF pgVars, OnlyAge
<1>3. ASSUME NEW f \in PgFindingIds, NEW s \in ManualStatuses, PgUpdateStatus(f, s)
      PROVE  PgIInv' /\ OnlyAge
  <2> DEFINE row == [pgFindings[f] EXCEPT !.status = s]
  <2>1. row \in FindingRows
    BY <1>3, <1>t, StatusReplaced DEF PgUpdateStatus, PgFindingRows, ManualStatuses, Statuses
  <2>2. pgFindings' = [pgFindings EXCEPT ![f] = row]
    BY <1>3, <1>t DEF PgUpdateStatus, PgFindingRows
  <2> HIDE DEF row
  <2>3. pgFindings' \in PgFindingRows
    BY <1>t, <2>1, <2>2 DEF PgFindingRows
  <2> QED
    BY <1>3, <1>t, <2>3, JobsUntouched DEF PgUpdateStatus, OnlyAge
<1> QED
  BY <1>1, <1>2, <1>3

LEMMA PgKept == PgIInv /\ [PgNext]_pgVars => PgIInv' /\ OnlyAge
<1> SUFFICES ASSUME PgIInv, [PgNext]_pgVars PROVE PgIInv' /\ OnlyAge
  OBVIOUS
<1>1. ASSUME UNCHANGED pgExceptions PROVE OnlyAge
  BY <1>1 DEF OnlyAge
<1>2. ASSUME NEW w \in PgWorkers,
             \/ PgObserve(w) \/ PgListRequest(w) \/ PgExpireRead(w)
             \/ \E e \in PgExceptionIds : PgDeleteRead(w, e) \/ PgCreateRead(w, e)
             \/ PgStep(w) \/ PgListFails(w) \/ PgCrash(w)
      PROVE  PgIInv' /\ OnlyAge
  BY <1>1, <1>2, PgReads, PgListReads, PgFindingWrites, PgMarks, PgDeletes, PgCreates DEF PgStep
<1> QED
  BY <1>2, PgOthers DEF PgNext

\* However many requests interleave, in however many replicas, and wherever they
\* are cut off: an exception that has expired is never active again, and one that
\* was deleted never returns (saveException, CreateException, DeleteException).
THEOREM ExceptionsNeverReturn == PgSpec => ExceptionsOnlyAge
<1>1. PgIInv /\ [PgNext]_pgVars => [OnlyAge]_pgVars
  BY PgKept
<1>2. ExceptionsOnlyAge <=> [][OnlyAge]_pgVars
  BY DEF ExceptionsOnlyAge, OnlyAge
<1> QED
  BY PgStartHolds, PgKept, <1>1, <1>2, PTL DEF PgSpec

-----------------------------------------------------------------------------
(* The cache of the adapters *)

\* What the lists hold over time, and what is found in it.
SeenContents == UNION {{ReportContents[l][v] : v \in DOMAIN ReportContents[l]} : l \in Lists}
ReportFindings == UNION {UNION {Normalize(l, x) : x \in SeenContents} : l \in Lists}

Collections == [status : [Adapters -> {"permission_denied", "error", "online", "not_configured"}],
                found : [Adapters -> SUBSET ReportFindings]]
ListParts == [next : Nat \ {0}, found : SUBSET ReportFindings, available : Nat,
              error : {"none", "denied", "error"}]
AdapterCalls == [pc : {"idle", "collect", "answered"}, since : Nat,
                 parts : [Adapters -> ListParts], answer : Collections]

AdapterTypes ==
    /\ adClock \in Nat
    /\ adReplaced \in [Lists -> Seq(Nat)]
    /\ \A l \in Lists : Len(adReplaced[l]) + 1 <= Len(ReportContents[l])
    /\ adCache \in [body : Collections, at : Nat]
    /\ adCall \in [AdapterCallers -> AdapterCalls]

\* The contents that the list l had at the time t or later.
Since(l, t) ==
    {ReportContents[l][v] : v \in
        {w \in 1..Len(adReplaced[l]) + 1 : w <= Len(adReplaced[l]) => t <= adReplaced[l][w]}}

\* What is found in the first n lists of the adapter a, each as it was at t or later.
Covers(a, n, found, t) ==
    \E pick \in [1..n -> SeenContents] :
        /\ \A i \in 1..n : pick[i] \in Since(AdapterLists[a][i], t)
        /\ found = UNION {Normalize(AdapterLists[a][i], pick[i]) : i \in {j \in 1..n : pick[j].installed}}

\* Every online source of a collection is complete, and no older than t.
CollectedSince(body, t) ==
    \A a \in Adapters : body.status[a] = "online" =>
        Covers(a, Len(AdapterLists[a]), body.found[a], t)

\* A request that collects has read its first lists completely, unless it knows
\* of an error, and has not collected for longer than CollectTime.
CollectionHonest(c) ==
    adCall[c].pc = "collect" =>
        /\ adCall[c].since <= adClock /\ adClock <= adCall[c].since + CollectTime
        /\ \A a \in Adapters :
             /\ adCall[c].parts[a].next <= Len(AdapterLists[a]) + 1
             /\ adCall[c].parts[a].error = "none" =>
                  Covers(a, adCall[c].parts[a].next - 1, adCall[c].parts[a].found, adCall[c].since)

\* The cache was collected between a time t and adCache.at.
CacheHonest ==
    adCache.at # 0 =>
        /\ adCache.at <= adClock
        /\ \E t \in Nat : /\ t <= adClock /\ adCache.at <= t + CollectTime
                          /\ CollectedSince(adCache.body, t)

\* What a request was answered was collected at most a TTL and a collection ago.
AnswerHonest(c) ==
    adCall[c].pc = "answered" =>
        \E t \in Nat : /\ t <= adClock /\ adClock < t + AdapterTTL + CollectTime
                       /\ CollectedSince(adCall[c].answer, t)

AdapterIInv ==
    /\ AdapterTypes /\ CacheHonest
    /\ \A c \in AdapterCallers : CollectionHonest(c) /\ AnswerHonest(c)

\* What a list holds now counts as its contents since any time.
LEMMA ContentKnown ==
    ASSUME AdapterTypes, NEW l \in Lists
    PROVE  Content(l) \in SeenContents /\ \A t \in Nat : Content(l) \in Since(l, t)
<1>1. Len(adReplaced[l]) \in Nat
  BY DEF AdapterTypes
<1>2. Len(adReplaced[l]) + 1 \in DOMAIN ReportContents[l]
  BY <1>1, AdapterAssumption DEF AdapterTypes
<1>3. Content(l) \in SeenContents
  BY <1>2 DEF Content, SeenContents
<1>4. ASSUME NEW t \in Nat PROVE Content(l) \in Since(l, t)
  BY <1>1 DEF Since, Content
<1> QED
  BY <1>3, <1>4

LEMMA NothingCovered == ASSUME NEW a \in Adapters, NEW t \in Nat PROVE Covers(a, 0, {}, t)
<1> DEFINE pick == [i \in 1..0 |-> CHOOSE x \in SeenContents : TRUE]
<1>1. pick \in [1..0 -> SeenContents]
  OBVIOUS
<1>2. \A i \in 1..0 : pick[i] \in Since(AdapterLists[a][i], t)
  OBVIOUS
<1>3. {} = UNION {Normalize(AdapterLists[a][i], pick[i]) : i \in {j \in 1..0 : pick[j].installed}}
  OBVIOUS
<1> QED
  BY <1>1, <1>2, <1>3 DEF Covers

\* One more list is read.
LEMMA OneMoreCovered ==
    ASSUME AdapterTypes, NEW a \in Adapters, NEW n \in Nat, n + 1 <= Len(AdapterLists[a]),
           NEW t \in Nat, NEW found, NEW more, Covers(a, n, found, t),
           more = IF Content(AdapterLists[a][n + 1]).installed
                  THEN found \cup Normalize(AdapterLists[a][n + 1], Content(AdapterLists[a][n + 1]))
                  ELSE found
    PROVE  Covers(a, n + 1, more, t)
<1>1. PICK pick \in [1..n -> SeenContents] :
        /\ \A i \in 1..n : pick[i] \in Since(AdapterLists[a][i], t)
        /\ found = UNION {Normalize(AdapterLists[a][i], pick[i]) : i \in {j \in 1..n : pick[j].installed}}
  BY DEF Covers
<1>2. AdapterLists[a][n + 1] \in Lists
  BY AdapterAssumption
<1>3. PICK x \in SeenContents : x = Content(AdapterLists[a][n + 1]) /\ x \in Since(AdapterLists[a][n + 1], t)
  BY <1>2, ContentKnown
<1> DEFINE q == [i \in 1..(n + 1) |-> IF i = n + 1 THEN x ELSE pick[i]]
<1>4. q \in [1..(n + 1) -> SeenContents]
  OBVIOUS
<1>5. q[n + 1] = x /\ \A i \in 1..n : q[i] = pick[i] /\ i \in 1..(n + 1)
  OBVIOUS
<1>5a. n + 1 \in 1..(n + 1) /\ \A i \in 1..(n + 1) : i = n + 1 \/ i \in 1..n
  OBVIOUS
<1> HIDE DEF q
<1>6. \A i \in 1..(n + 1) : q[i] \in Since(AdapterLists[a][i], t)
  BY <1>1, <1>3, <1>5, <1>5a
<1> DEFINE new == UNION {Normalize(AdapterLists[a][i], q[i]) : i \in {j \in 1..(n + 1) : q[j].installed}}
<1>7. ASSUME NEW f PROVE f \in more <=> f \in new
  <2>1. f \in found <=> \E i \in 1..n : pick[i].installed /\ f \in Normalize(AdapterLists[a][i], pick[i])
    BY <1>1
  <2>2. f \in new <=> \E i \in 1..(n + 1) : q[i].installed /\ f \in Normalize(AdapterLists[a][i], q[i])
    OBVIOUS
  <2>3. f \in more <=> f \in found \/ (x.installed /\ f \in Normalize(AdapterLists[a][n + 1], x))
    BY <1>3
  <2> QED
    BY <1>5, <1>5a, <2>1, <2>2, <2>3
<1>8. more = new
  BY <1>7
<1> QED
  BY <1>4, <1>6, <1>8 DEF Covers

\* When a report is replaced, its old contents were there until now.
LEMMA SinceGrows ==
    ASSUME AdapterTypes, NEW l \in Lists, ReportsChange(l), NEW m \in Lists, NEW t \in Nat, t <= adClock
    PROVE  Since(m, t) \subseteq Since(m, t)'
<1>1. adReplaced \in [Lists -> Seq(Nat)] /\ adClock \in Nat
  BY DEF AdapterTypes
<1>2. CASE m # l
  <2>1. adReplaced'[m] = adReplaced[m]
    BY <1>1, <1>2 DEF ReportsChange
  <2> QED
    BY <2>1 DEF Since
<1>3. CASE m = l
  <2> DEFINE n == Len(adReplaced[l])
  <2>1. adReplaced'[l] = Append(adReplaced[l], adClock) /\ adReplaced[l] \in Seq(Nat)
    BY <1>1 DEF ReportsChange
  <2>2. /\ n \in Nat /\ Len(adReplaced'[l]) = n + 1
        /\ adReplaced'[l][n + 1] = adClock
        /\ \A w \in 1..n : adReplaced'[l][w] = adReplaced[l][w]
    BY <1>1, <2>1
  <2>3. ASSUME NEW v \in 1..(n + 1), v <= n => t <= adReplaced[l][v]
        PROVE  v \in 1..(n + 1) + 1 /\ t <= adReplaced'[l][v]
    <3>1. v \in 1..n \/ v = n + 1
      BY <2>2
    <3> QED
      BY <2>2, <2>3, <3>1
  <2> HIDE DEF n
  <2> QED
    BY <1>3, <2>2, <2>3 DEF Since, n
<1> QED
  BY <1>2, <1>3

LEMMA CoversGrows ==
    ASSUME NEW a \in Adapters, NEW n \in Nat, n <= Len(AdapterLists[a]), NEW found, NEW t,
           \A l \in Lists : Since(l, t) \subseteq Since(l, t)', Covers(a, n, found, t)
    PROVE  Covers(a, n, found, t)'
<1>1. \A i \in 1..n : AdapterLists[a][i] \in Lists
  BY AdapterAssumption
<1> QED
  BY <1>1 DEF Covers

LEMMA CollectedGrows ==
    ASSUME NEW body, NEW t, \A l \in Lists : Since(l, t) \subseteq Since(l, t)',
           CollectedSince(body, t)
    PROVE  CollectedSince(body, t)'
<1>1. \A a \in Adapters : Len(AdapterLists[a]) \in Nat
  BY AdapterAssumption
<1> QED
  BY <1>1, CoversGrows DEF CollectedSince

LEMMA AdapterStart == AdapterInit => AdapterIInv
<1> SUFFICES ASSUME AdapterInit PROVE AdapterIInv
  OBVIOUS
<1>1. NoCollection \in Collections /\ NoCall \in AdapterCalls
  BY DEF NoCollection, NoCall, NoParts, NoPart, Collections, AdapterCalls, ListParts
<1>2. \A l \in Lists : Len(<<>>) + 1 <= Len(ReportContents[l])
  BY AdapterAssumption
<1>3. AdapterTypes
  BY <1>1, <1>2 DEF AdapterInit, AdapterTypes
<1>4. \A c \in AdapterCallers : adCall[c].pc = "idle"
  BY DEF AdapterInit, NoCall
<1>5. adCache.at = 0
  BY DEF AdapterInit
<1> QED
  BY <1>3, <1>4, <1>5 DEF AdapterIInv, CollectionHonest, CacheHonest, AnswerHonest

\* Where no report changes, what is covered stays.
LEMMA ReportsStay ==
    ASSUME UNCHANGED adReplaced
    PROVE  /\ \A l, t : Since(l, t)' = Since(l, t)
           /\ \A a, n, found, t : Covers(a, n, found, t)' = Covers(a, n, found, t)
           /\ \A body, t : CollectedSince(body, t)' = CollectedSince(body, t)
<1>1. \A l, t : Since(l, t)' = Since(l, t)
  BY DEF Since
<1>2. \A a, n, found, t : Covers(a, n, found, t)' = Covers(a, n, found, t)
  BY <1>1, Zenon DEF Covers
<1>3. \A body, t : CollectedSince(body, t)' = CollectedSince(body, t)
  BY <1>2, Zenon DEF CollectedSince
<1> QED
  BY <1>1, <1>2, <1>3

\* A request that takes no part in a step keeps what holds of it.
LEMMA CallerStays ==
    ASSUME UNCHANGED <<adClock, adReplaced>>, NEW c \in AdapterCallers, adCall'[c] = adCall[c],
           CollectionHonest(c), AnswerHonest(c)
    PROVE  CollectionHonest(c)' /\ AnswerHonest(c)'
<1>1. /\ \A a, n, found, t : Covers(a, n, found, t)' = Covers(a, n, found, t)
      /\ \A body, t : CollectedSince(body, t)' = CollectedSince(body, t)
  BY ReportsStay
<1> QED
  BY <1>1 DEF CollectionHonest, AnswerHonest

LEMMA AnsweredCall ==
    ASSUME AdapterTypes, NEW c \in AdapterCallers, NEW body \in Collections, Answered(c, body)
    PROVE  /\ adCall' \in [AdapterCallers -> AdapterCalls]
           /\ adCall'[c].pc = "answered" /\ adCall'[c].answer = body
           /\ \A d \in AdapterCallers \ {c} : adCall'[d] = adCall[d]
<1> DEFINE r == [NoCall EXCEPT !.pc = "answered", !.answer = body]
<1>1. NoCall \in AdapterCalls
  BY DEF NoCollection, NoCall, NoParts, NoPart, Collections, AdapterCalls, ListParts
<1>2. r \in AdapterCalls /\ r.pc = "answered" /\ r.answer = body
  BY <1>1 DEF AdapterCalls
<1>3. adCall' = [adCall EXCEPT ![c] = r]
  BY DEF Answered
<1> HIDE DEF r
<1> QED
  BY <1>2, <1>3 DEF AdapterTypes

LEMMA CachedStep ==
    ASSUME AdapterIInv, NEW c \in AdapterCallers, CollectCached(c)
    PROVE  AdapterIInv'
<1>1. PICK body \in Collections : body = adCache.body
  BY DEF AdapterIInv, AdapterTypes
<1>2. /\ adCall' \in [AdapterCallers -> AdapterCalls]
      /\ adCall'[c].pc = "answered" /\ adCall'[c].answer = body
      /\ \A d \in AdapterCallers \ {c} : adCall'[d] = adCall[d]
  BY <1>1, AnsweredCall DEF AdapterIInv, CollectCached
<1>3. UNCHANGED <<adClock, adReplaced, adCache>>
  BY DEF CollectCached
<1>4. /\ \A b, t : CollectedSince(b, t)' = CollectedSince(b, t)
  BY <1>3, ReportsStay
<1>5. AdapterTypes'
  BY <1>2, <1>3 DEF AdapterIInv, AdapterTypes
<1>6. CacheHonest'
  BY <1>3, <1>4 DEF AdapterIInv, CacheHonest
<1>7. CollectionHonest(c)' /\ AnswerHonest(c)'
  <2>1. adCache.at # 0 /\ adClock - adCache.at < AdapterTTL
    BY DEF CollectCached, CacheFresh
  <2>2. PICK t \in Nat : /\ t <= adClock /\ adCache.at <= t + CollectTime
                         /\ CollectedSince(body, t)
    BY <1>1, <2>1 DEF AdapterIInv, CacheHonest
  <2>3. adClock < t + AdapterTTL + CollectTime
    BY <2>1, <2>2, AdapterAssumption DEF AdapterIInv, AdapterTypes
  <2> QED
    BY <1>2, <1>3, <1>4, <2>2, <2>3 DEF CollectionHonest, AnswerHonest
<1>8. \A d \in AdapterCallers \ {c} : CollectionHonest(d)' /\ AnswerHonest(d)'
  BY <1>2, <1>3, CallerStays DEF AdapterIInv
<1> QED
  BY <1>5, <1>6, <1>7, <1>8 DEF AdapterIInv

LEMMA BeginStep ==
    ASSUME AdapterIInv, NEW c \in AdapterCallers, CollectBegin(c)
    PROVE  AdapterIInv'
<1> DEFINE r == [NoCall EXCEPT !.pc = "collect", !.since = adClock]
<1>1. NoCall \in AdapterCalls /\ NoCall.parts = NoParts
  BY DEF NoCollection, NoCall, NoParts, NoPart, Collections, AdapterCalls, ListParts
<1>2. r \in AdapterCalls /\ r.pc = "collect" /\ r.since = adClock /\ r.parts = NoParts
  BY <1>1 DEF AdapterCalls, AdapterIInv, AdapterTypes
<1>3. adCall' = [adCall EXCEPT ![c] = r] /\ UNCHANGED <<adClock, adReplaced, adCache>>
  BY DEF CollectBegin
<1> HIDE DEF r
<1>4. /\ \A a, n, found, t : Covers(a, n, found, t)' = Covers(a, n, found, t)
      /\ \A b, t : CollectedSince(b, t)' = CollectedSince(b, t)
  BY <1>3, ReportsStay
<1>5. /\ AdapterTypes' /\ adCall'[c] = r
      /\ \A d \in AdapterCallers \ {c} : adCall'[d] = adCall[d]
  BY <1>2, <1>3 DEF AdapterIInv, AdapterTypes
<1>6. CacheHonest'
  BY <1>3, <1>4 DEF AdapterIInv, CacheHonest
<1>7. CollectionHonest(c)' /\ AnswerHonest(c)'
  <2>1. adClock \in Nat /\ CollectTime \in Nat
    BY AdapterAssumption DEF AdapterIInv, AdapterTypes
  <2>2. ASSUME NEW a \in Adapters
        PROVE  /\ r.parts[a].next <= Len(AdapterLists[a]) + 1
               /\ Covers(a, r.parts[a].next - 1, r.parts[a].found, adClock)
    <3>1. r.parts[a].next = 1 /\ r.parts[a].found = {}
      BY <1>2 DEF NoParts, NoPart
    <3>2. Len(AdapterLists[a]) \in Nat
      BY AdapterAssumption
    <3>3. PICK t \in Nat : t = adClock
      BY <2>1
    <3>4. Covers(a, 0, {}, t)
      BY NothingCovered
    <3> QED
      BY <3>1, <3>2, <3>3, <3>4
  <2> QED
    BY <1>2, <1>3, <1>4, <1>5, <2>1, <2>2 DEF CollectionHonest, AnswerHonest
<1>8. \A d \in AdapterCallers \ {c} : CollectionHonest(d)' /\ AnswerHonest(d)'
  BY <1>3, <1>5, CallerStays DEF AdapterIInv
<1> QED
  BY <1>5, <1>6, <1>7, <1>8 DEF AdapterIInv

LEMMA ListStep ==
    ASSUME AdapterIInv, NEW c \in AdapterCallers, NEW a \in Adapters,
           NEW outcome \in {"ok", "denied", "error"}, CollectList(c, a, outcome)
    PROVE  AdapterIInv'
<1>1. PICK part \in ListParts : part = adCall[c].parts[a]
  BY DEF AdapterIInv, AdapterTypes, AdapterCalls
<1>2. PICK list \in Lists : list = AdapterLists[a][part.next]
  <2>1. part.next \in 1..Len(AdapterLists[a])
    BY <1>1, AdapterAssumption DEF CollectList, ListParts
  <2> QED
    BY <2>1, AdapterAssumption
<1>3. PICK content \in SeenContents : content = Content(list)
  BY ContentKnown DEF AdapterIInv
<1>4. PICK k \in Nat : part.next = k + 1 /\ k + 1 <= Len(AdapterLists[a])
  <2>1. part.next \in Nat \ {0} /\ part.next <= Len(AdapterLists[a])
    BY <1>1 DEF CollectList, ListParts
  <2>2. part.next - 1 \in Nat /\ part.next = (part.next - 1) + 1
    BY <2>1
  <2> QED
    BY <2>1, <2>2
<1> DEFINE next == IF ~content.installed THEN [part EXCEPT !.next = part.next + 1]
                   ELSE IF outcome = "denied"
                   THEN [[part EXCEPT !.next = part.next + 1] EXCEPT !.error = "denied"]
                   ELSE IF outcome = "error"
                   THEN [part EXCEPT !.next = Len(AdapterLists[a]) + 1, !.error = "error"]
                   ELSE [[part EXCEPT !.next = part.next + 1] EXCEPT
                           !.available = part.available + 1,
                           !.found = part.found \cup Normalize(list, content)]
<1>5. adCall' = [adCall EXCEPT ![c].parts[a] = next] /\ UNCHANGED <<adClock, adReplaced, adCache>>
  BY <1>1, <1>2, <1>3 DEF CollectList
<1>6. Normalize(list, content) \subseteq ReportFindings
  BY DEF ReportFindings
<1>7. Len(AdapterLists[a]) \in Nat
  BY AdapterAssumption
<1>8. /\ next \in ListParts /\ next.next <= Len(AdapterLists[a]) + 1
      /\ next.error = "none" =>
           /\ part.error = "none" /\ next.next = k + 2
           /\ next.found = IF content.installed THEN part.found \cup Normalize(list, content)
                           ELSE part.found
  <2>1. part.next \in Nat \ {0} /\ part.available \in Nat /\ part.found \in SUBSET ReportFindings
    BY DEF ListParts
  <2>2. PICK n1 \in Nat \ {0} : n1 = part.next + 1 /\ n1 = k + 2
    BY <1>4, <2>1
  <2>3. PICK n2 \in Nat : n2 = part.available + 1
    BY <2>1
  <2>4. PICK n3 \in Nat \ {0} : n3 = Len(AdapterLists[a]) + 1
    BY <1>7
  <2>5. PICK all \in SUBSET ReportFindings : all = part.found \cup Normalize(list, content)
    BY <1>6, <2>1
  <2>6. n1 <= Len(AdapterLists[a]) + 1
    BY <1>4, <1>7, <2>2
  <2>7. CASE ~content.installed
    <3>1. next = [part EXCEPT !.next = n1]
      BY <2>2, <2>7
    <3> QED
      BY <2>2, <2>6, <2>7, <3>1 DEF ListParts
  <2>8. CASE content.installed /\ outcome = "denied"
    <3>1. next = [part EXCEPT !.next = n1, !.error = "denied"]
      BY <2>2, <2>8
    <3> QED
      BY <2>2, <2>6, <2>8, <3>1 DEF ListParts
  <2>9. CASE content.installed /\ outcome = "error"
    <3>1. next = [part EXCEPT !.next = n3, !.error = "error"]
      BY <2>4, <2>9
    <3>2. next \in ListParts /\ next.next = n3 /\ next.error = "error"
      BY <3>1 DEF ListParts
    <3> HIDE DEF next
    <3> QED
      BY <1>7, <2>4, <3>2
  <2>10. CASE content.installed /\ outcome = "ok"
    <3>1. next = [part EXCEPT !.next = n1, !.available = n2, !.found = all]
      BY <2>2, <2>3, <2>5, <2>10
    <3> QED
      BY <2>2, <2>3, <2>5, <2>6, <2>10, <3>1 DEF ListParts
  <2> QED
    BY <2>7, <2>8, <2>9, <2>10
<1> HIDE DEF next
<1>9. adCall[c] \in AdapterCalls /\ adCall[c].parts \in [Adapters -> ListParts]
  BY DEF AdapterIInv, AdapterTypes, AdapterCalls
<1>10. /\ AdapterTypes'
       /\ adCall'[c].pc = adCall[c].pc /\ adCall'[c].since = adCall[c].since
       /\ adCall'[c].parts = [adCall[c].parts EXCEPT ![a] = next]
       /\ \A d \in AdapterCallers \ {c} : adCall'[d] = adCall[d]
  <2> DEFINE r == [adCall[c] EXCEPT !.parts = [adCall[c].parts EXCEPT ![a] = next]]
  <2>1. adCall' = [adCall EXCEPT ![c] = r]
    BY <1>5
  <2>2. [adCall[c].parts EXCEPT ![a] = next] \in [Adapters -> ListParts]
    BY <1>8, <1>9
  <2>3. /\ r \in AdapterCalls /\ r.pc = adCall[c].pc /\ r.since = adCall[c].since
        /\ r.parts = [adCall[c].parts EXCEPT ![a] = next]
    BY <1>9, <2>2 DEF AdapterCalls
  <2> HIDE DEF r
  <2> QED
    BY <1>5, <2>1, <2>3 DEF AdapterIInv, AdapterTypes
<1>11. /\ \A b, n, found, t : Covers(b, n, found, t)' = Covers(b, n, found, t)
       /\ \A b, t : CollectedSince(b, t)' = CollectedSince(b, t)
  BY <1>5, ReportsStay
<1>12. CacheHonest'
  BY <1>5, <1>11 DEF AdapterIInv, CacheHonest
<1>13. PICK t \in Nat : t = adCall[c].since
  BY <1>9 DEF AdapterCalls
<1>14. CollectionHonest(c)' /\ AnswerHonest(c)'
  <2>1. adCall[c].pc = "collect"
    BY DEF CollectList
  <2>2. next.error = "none" => Covers(a, k + 1, next.found, t)
    <3> SUFFICES ASSUME next.error = "none" PROVE Covers(a, k + 1, next.found, t)
      OBVIOUS
    <3>1. Covers(a, part.next - 1, part.found, t)
      BY <1>1, <1>8, <1>13, <2>1 DEF AdapterIInv, CollectionHonest
    <3>2. part.next - 1 = k
      BY <1>4
    <3>3. Covers(a, k, part.found, t)
      BY <3>1, <3>2
    <3>4. list = AdapterLists[a][k + 1]
      BY <1>2, <1>4
    <3>5. PICK more : more = IF content.installed
                             THEN part.found \cup Normalize(list, content) ELSE part.found
      OBVIOUS
    <3>6. Covers(a, k + 1, more, t)
      BY <1>3, <1>4, <3>3, <3>4, <3>5, OneMoreCovered DEF AdapterIInv
    <3> QED
      BY <1>8, <3>5, <3>6
  <2>3. next.error = "none" => next.next - 1 = k + 1
    BY <1>8
  <2>4. ASSUME NEW b \in Adapters
        PROVE  /\ adCall'[c].parts[b].next <= Len(AdapterLists[b]) + 1
               /\ adCall'[c].parts[b].error = "none" =>
                    Covers(b, adCall'[c].parts[b].next - 1, adCall'[c].parts[b].found, t)
    <3>1. CASE b = a
      BY <1>8, <1>9, <1>10, <2>2, <2>3, <3>1
    <3>2. CASE b # a
      <4>1. adCall'[c].parts[b] = adCall[c].parts[b]
        BY <1>9, <1>10, <3>2
      <4> QED
        BY <1>13, <2>1, <4>1 DEF AdapterIInv, CollectionHonest
    <3> QED
      BY <3>1, <3>2
  <2>5. t <= adClock /\ adClock <= t + CollectTime
    BY <1>13, <2>1 DEF AdapterIInv, CollectionHonest
  <2> QED
    BY <1>5, <1>10, <1>11, <1>13, <2>1, <2>4, <2>5 DEF CollectionHonest, AnswerHonest
<1>15. \A d \in AdapterCallers \ {c} : CollectionHonest(d)' /\ AnswerHonest(d)'
  BY <1>5, <1>10, CallerStays DEF AdapterIInv
<1> QED
  BY <1>10, <1>12, <1>14, <1>15 DEF AdapterIInv

LEMMA StoreStep ==
    ASSUME AdapterIInv, NEW c \in AdapterCallers, CollectStore(c)
    PROVE  AdapterIInv'
<1>1. PICK parts \in [Adapters -> ListParts] : parts = adCall[c].parts
  BY DEF AdapterIInv, AdapterTypes, AdapterCalls
<1>2. PICK body \in Collections :
        body = [status |-> [a \in Adapters |-> AdapterStatus(parts[a])],
                found |-> [a \in Adapters |-> parts[a].found]]
  BY DEF AdapterStatus, Collections, ListParts
<1>3. /\ adCache' = [body |-> body, at |-> adClock] /\ Answered(c, body)
      /\ UNCHANGED <<adClock, adReplaced>> /\ adCall[c].pc = "collect"
      /\ \A a \in Adapters : parts[a].next > Len(AdapterLists[a])
  BY <1>1, <1>2 DEF CollectStore
<1>4. /\ adCall' \in [AdapterCallers -> AdapterCalls]
      /\ adCall'[c].pc = "answered" /\ adCall'[c].answer = body
      /\ \A d \in AdapterCallers \ {c} : adCall'[d] = adCall[d]
  BY <1>3, AnsweredCall DEF AdapterIInv
<1>5. AdapterTypes'
  BY <1>3, <1>4 DEF AdapterIInv, AdapterTypes
<1>6. PICK t \in Nat : t = adCall[c].since /\ t <= adClock /\ adClock <= t + CollectTime
  BY <1>3 DEF AdapterIInv, AdapterTypes, AdapterCalls, CollectionHonest
<1>7. CollectedSince(body, t)
  <2> SUFFICES ASSUME NEW a \in Adapters, body.status[a] = "online"
               PROVE  Covers(a, Len(AdapterLists[a]), body.found[a], t)
    BY DEF CollectedSince
  <2>1. parts[a].error = "none" /\ body.found[a] = parts[a].found
    BY <1>2 DEF AdapterStatus, ListParts
  <2>2. parts[a].next - 1 = Len(AdapterLists[a])
    <3>1. parts[a].next <= Len(AdapterLists[a]) + 1 /\ parts[a].next \in Nat
      BY <1>1, <1>3 DEF AdapterIInv, CollectionHonest, ListParts
    <3>2. Len(AdapterLists[a]) \in Nat
      BY AdapterAssumption
    <3> QED
      BY <1>3, <3>1, <3>2
  <2>3. Covers(a, parts[a].next - 1, parts[a].found, t)
    BY <1>1, <1>3, <1>6, <2>1 DEF AdapterIInv, CollectionHonest
  <2> QED
    BY <2>1, <2>2, <2>3
<1>8. CollectedSince(body, t)'
  BY <1>3, <1>7, ReportsStay
<1>9. CacheHonest'
  BY <1>3, <1>6, <1>8 DEF CacheHonest, AdapterIInv, AdapterTypes
<1>10. CollectionHonest(c)' /\ AnswerHonest(c)'
  <2>1. adClock < t + AdapterTTL + CollectTime
    BY <1>6, AdapterAssumption DEF AdapterIInv, AdapterTypes
  <2> QED
    BY <1>3, <1>4, <1>6, <1>8, <2>1 DEF CollectionHonest, AnswerHonest
<1>11. \A d \in AdapterCallers \ {c} : CollectionHonest(d)' /\ AnswerHonest(d)'
  BY <1>3, <1>4, CallerStays DEF AdapterIInv
<1> QED
  BY <1>5, <1>9, <1>10, <1>11 DEF AdapterIInv

LEMMA ReportsStep ==
    ASSUME AdapterIInv, NEW l \in Lists, ReportsChange(l)
    PROVE  AdapterIInv'
<1>1. UNCHANGED <<adClock, adCache, adCall>>
  BY DEF ReportsChange
<1>2. AdapterTypes'
  <2>1. adReplaced \in [Lists -> Seq(Nat)] /\ adClock \in Nat
    BY DEF AdapterIInv, AdapterTypes
  <2>2. PICK q \in Seq(Nat) : q = Append(adReplaced[l], adClock) /\ Len(q) = Len(adReplaced[l]) + 1
    <3>1. adReplaced[l] \in Seq(Nat)
      BY <2>1
    <3>2. /\ Append(adReplaced[l], adClock) \in Seq(Nat)
          /\ Len(Append(adReplaced[l], adClock)) = Len(adReplaced[l]) + 1
      BY <2>1, <3>1
    <3> QED
      BY <3>2
  <2>3. adReplaced' = [adReplaced EXCEPT ![l] = q]
    BY <2>2 DEF ReportsChange
  <2>4. Len(q) + 1 <= Len(ReportContents[l])
    BY <2>1, <2>2, AdapterAssumption DEF ReportsChange
  <2> QED
    BY <1>1, <2>1, <2>3, <2>4 DEF AdapterIInv, AdapterTypes
<1>3. \A t \in Nat : t <= adClock => \A m \in Lists : Since(m, t) \subseteq Since(m, t)'
  BY SinceGrows DEF AdapterIInv
<1>4. CacheHonest'
  <2> SUFFICES ASSUME adCache.at # 0 PROVE CacheHonest'
    BY <1>1 DEF CacheHonest
  <2>1. PICK body : body = adCache.body
    OBVIOUS
  <2>2. PICK t \in Nat : t <= adClock /\ adCache.at <= t + CollectTime /\ CollectedSince(body, t)
    BY <2>1 DEF AdapterIInv, CacheHonest
  <2>3. CollectedSince(body, t)'
    BY <1>3, <2>2, CollectedGrows
  <2> QED
    BY <1>1, <2>1, <2>2, <2>3 DEF AdapterIInv, CacheHonest
<1>5. ASSUME NEW c \in AdapterCallers PROVE CollectionHonest(c)' /\ AnswerHonest(c)'
  <2>1. CollectionHonest(c)'
    <3> SUFFICES ASSUME adCall[c].pc = "collect" PROVE CollectionHonest(c)'
      BY <1>1 DEF CollectionHonest
    <3>1. PICK t \in Nat : t = adCall[c].since /\ t <= adClock /\ adClock <= t + CollectTime
      BY DEF AdapterIInv, AdapterTypes, AdapterCalls, CollectionHonest
    <3>2. ASSUME NEW a \in Adapters, adCall[c].parts[a].error = "none"
          PROVE  Covers(a, adCall[c].parts[a].next - 1, adCall[c].parts[a].found, t)'
      <4>1. PICK found : found = adCall[c].parts[a].found
        OBVIOUS
      <4>2. PICK n \in Nat : n = adCall[c].parts[a].next - 1 /\ n <= Len(AdapterLists[a])
        <5>1. /\ adCall[c].parts[a].next \in Nat \ {0} /\ Len(AdapterLists[a]) \in Nat
              /\ adCall[c].parts[a].next <= Len(AdapterLists[a]) + 1
          BY AdapterAssumption DEF AdapterIInv, AdapterTypes, AdapterCalls, ListParts, CollectionHonest
        <5> QED
          BY <5>1
      <4>3. Covers(a, n, found, t)
        BY <3>1, <3>2, <4>1, <4>2 DEF AdapterIInv, CollectionHonest
      <4>4. Covers(a, n, found, t)'
        BY <1>3, <3>1, <4>2, <4>3, CoversGrows
      <4> QED
        BY <1>1, <4>1, <4>2, <4>4
    <3> QED
      BY <1>1, <3>1, <3>2 DEF AdapterIInv, CollectionHonest
  <2>2. AnswerHonest(c)'
    <3> SUFFICES ASSUME adCall[c].pc = "answered" PROVE AnswerHonest(c)'
      BY <1>1 DEF AnswerHonest
    <3>1. PICK body : body = adCall[c].answer
      OBVIOUS
    <3>2. PICK t \in Nat : /\ t <= adClock /\ adClock < t + AdapterTTL + CollectTime
                           /\ CollectedSince(body, t)
      BY <3>1 DEF AdapterIInv, AnswerHonest
    <3>3. CollectedSince(body, t)'
      BY <1>3, <3>2, CollectedGrows
    <3> QED
      BY <1>1, <3>1, <3>2, <3>3 DEF AnswerHonest
  <2> QED
    BY <2>1, <2>2
<1> QED
  BY <1>2, <1>4, <1>5 DEF AdapterIInv

LEMMA TickStep == ASSUME AdapterIInv, AdapterTick PROVE AdapterIInv'
<1>1. adClock \in Nat /\ adClock' = adClock + 1 /\ UNCHANGED <<adReplaced, adCache>>
  BY DEF AdapterTick, AdapterIInv, AdapterTypes
<1>2. \A c \in AdapterCallers :
         adCall'[c] = IF adCall[c].pc = "collect" THEN adCall[c] ELSE NoCall
  BY DEF AdapterTick
<1>3. NoCall \in AdapterCalls /\ NoCall.pc = "idle"
  BY DEF NoCollection, NoCall, NoParts, NoPart, Collections, AdapterCalls, ListParts
<1>4. AdapterTypes'
  <2>1. adCall' \in [AdapterCallers -> AdapterCalls]
    BY <1>3 DEF AdapterTick, AdapterIInv, AdapterTypes
  <2> QED
    BY <1>1, <2>1 DEF AdapterIInv, AdapterTypes
<1>5. /\ \A a, n, found, t : Covers(a, n, found, t)' = Covers(a, n, found, t)
      /\ \A b, t : CollectedSince(b, t)' = CollectedSince(b, t)
  BY <1>1, ReportsStay
<1>6. CacheHonest'
  <2>1. adCache.at \in Nat
    BY DEF AdapterIInv, AdapterTypes
  <2> QED
    BY <1>1, <1>5, <2>1 DEF AdapterIInv, CacheHonest
<1>7. ASSUME NEW c \in AdapterCallers PROVE CollectionHonest(c)' /\ AnswerHonest(c)'
  <2>1. CASE adCall[c].pc = "collect"
    <3>1. adCall'[c] = adCall[c] /\ adClock < adCall[c].since + CollectTime
      BY <1>2, <2>1 DEF AdapterTick
    <3>2. adCall[c].since \in Nat /\ CollectTime \in Nat
      BY AdapterAssumption DEF AdapterIInv, AdapterTypes, AdapterCalls
    <3>3. adCall[c].since <= adClock + 1 /\ adClock + 1 <= adCall[c].since + CollectTime
      BY <1>1, <2>1, <3>1, <3>2 DEF AdapterIInv, CollectionHonest
    <3> QED
      BY <1>1, <1>5, <2>1, <3>1, <3>3 DEF AdapterIInv, CollectionHonest, AnswerHonest
  <2>2. CASE adCall[c].pc # "collect"
    BY <1>2, <1>3, <2>2 DEF CollectionHonest, AnswerHonest
  <2> QED
    BY <2>1, <2>2
<1> QED
  BY <1>4, <1>6, <1>7 DEF AdapterIInv

LEMMA AdapterStep == AdapterIInv /\ [AdapterNext]_adapterVars => AdapterIInv'
<1> SUFFICES ASSUME AdapterIInv, [AdapterNext]_adapterVars PROVE AdapterIInv'
  OBVIOUS
<1>1. CASE UNCHANGED adapterVars
  <2>1. UNCHANGED <<adClock, adReplaced, adCache, adCall>>
    BY <1>1 DEF adapterVars
  <2>2. \A b, t : CollectedSince(b, t)' = CollectedSince(b, t)
    BY <2>1, ReportsStay
  <2>3. AdapterTypes' /\ CacheHonest'
    BY <2>1, <2>2 DEF AdapterIInv, AdapterTypes, CacheHonest
  <2> QED
    BY <2>1, <2>3, CallerStays DEF AdapterIInv
<1>2. CASE AdapterNext
  BY <1>2, CachedStep, BeginStep, ListStep, StoreStep, ReportsStep, TickStep DEF AdapterNext
<1> QED
  BY <1>1, <1>2

LEMMA AnswersFresh == AdapterIInv => OnlineIsFresh
<1> SUFFICES ASSUME AdapterIInv, NEW c \in AdapterCallers, adCall[c].pc = "answered",
                    NEW a \in Adapters, adCall[c].answer.status[a] = "online"
             PROVE  \E pick \in [DOMAIN AdapterLists[a] -> UNION {RecentContents(l) : l \in Lists}] :
                      /\ \A i \in DOMAIN pick : pick[i] \in RecentContents(AdapterLists[a][i])
                      /\ adCall[c].answer.found[a] =
                           UNION {Normalize(AdapterLists[a][i], pick[i]) :
                                  i \in {j \in DOMAIN pick : pick[j].installed}}
  BY DEF OnlineIsFresh
<1>1. PICK t \in Nat : /\ t <= adClock /\ adClock < t + AdapterTTL + CollectTime
                       /\ CollectedSince(adCall[c].answer, t)
  BY DEF AdapterIInv, AnswerHonest
<1> DEFINE n == Len(AdapterLists[a])
<1>2. n \in Nat /\ DOMAIN AdapterLists[a] = 1..n /\ \A i \in 1..n : AdapterLists[a][i] \in Lists
  BY AdapterAssumption
<1>3. PICK pick \in [1..n -> SeenContents] :
        /\ \A i \in 1..n : pick[i] \in Since(AdapterLists[a][i], t)
        /\ adCall[c].answer.found[a] =
             UNION {Normalize(AdapterLists[a][i], pick[i]) : i \in {j \in 1..n : pick[j].installed}}
  BY <1>1 DEF CollectedSince, Covers
<1>4. \A l \in Lists : Since(l, t) \subseteq RecentContents(l)
  <2> SUFFICES ASSUME NEW l \in Lists, NEW w \in 1..Len(adReplaced[l]) + 1,
                      w <= Len(adReplaced[l]), t <= adReplaced[l][w]
               PROVE  adClock - adReplaced[l][w] < AdapterTTL + CollectTime
    BY DEF Since, RecentContents
  <2>1. adReplaced[l] \in Seq(Nat) /\ adClock \in Nat
    BY DEF AdapterIInv, AdapterTypes
  <2>2. adReplaced[l][w] \in Nat
    BY <2>1
  <2> QED
    BY <1>1, <2>1, <2>2, AdapterAssumption
<1>5. \A i \in 1..n : pick[i] \in RecentContents(AdapterLists[a][i])
  BY <1>2, <1>3, <1>4
<1>6. pick \in [1..n -> UNION {RecentContents(l) : l \in Lists}]
  BY <1>2, <1>5
<1>7. DOMAIN pick = 1..n
  OBVIOUS
<1> HIDE DEF n
<1> QED
  BY <1>2, <1>3, <1>5, <1>6, <1>7

\* For any adapters, lists, callers and TTL: however requests collect at the same
\* time and however their lists fail, a source that an answer calls online is given
\* completely and no older than one TTL and one collection (Collect, collectResources).
THEOREM OnlineSourcesAreFresh == AdapterSpec => []OnlineIsFresh
BY AdapterStart, AdapterStep, AnswersFresh, PTL DEF AdapterSpec

-----------------------------------------------------------------------------
(* The request limiter *)

\* The requests of the current window that were accepted.
AcceptedNow(window) == IF window.count < LimiterLimit THEN window.count ELSE LimiterLimit

\* The history is in the order of time.
HistorySorted ==
    \A k \in LimiterKeys : \A i, j \in 1 .. LimiterMemory :
        i <= j => limiterAccepted[k][i] <= limiterAccepted[k][j]

\* What a window knows of the history past of its caller: before the requests that
\* it counted come those of the window before, which began an interval earlier;
\* nothing was accepted while it was idle; and nothing since it has run out.
Accounts(window, past) ==
    LET n == AcceptedNow(window) IN
    /\ past[n + 1] > window.age \/ past[n + 1] >= OldAge
    /\ past[n + LimiterLimit + 1] >= OldAge
    /\ past[1] >= window.idle \/ past[1] >= OldAge
    /\ window.age >= OldAge => past[1] >= 1

\* A caller without a window has no recent request.
LimiterIInv ==
    /\ LimiterTypeOK /\ HistorySorted
    /\ \A k \in LimiterKeys :
         /\ k \in DOMAIN limiterWindows => Accounts(limiterWindows[k], limiterAccepted[k])
         /\ k \notin DOMAIN limiterWindows => limiterAccepted[k][1] >= OldAge

LimiterRecord == [age : 0 .. OldAge, count : 1 .. LimiterLimit + 1, idle : 0 .. IdleAge]

History == [1 .. LimiterMemory -> 0 .. OldAge]

LEMMA LimiterNumbers ==
    /\ OldAge \in Nat /\ OldAge >= 1 /\ LimiterLimit \in Nat /\ LimiterLimit >= 1
    /\ LimiterMemory \in Nat /\ LimiterMemory = 2 * LimiterLimit + 1
    /\ IdleAge \in Nat /\ IdleAge > OldAge
<1>1. LimiterIdle \in Nat /\ LimiterIdle >= 1 /\ LimiterInterval \in Nat /\ LimiterInterval >= 1
  BY LimiterAssumption
<1>2. LimiterIdle * LimiterInterval >= LimiterInterval
  BY <1>1
<1>. QED
  BY <1>1, <1>2, LimiterAssumption DEF OldAge, LimiterMemory, IdleAge

LEMMA LeastOfTwo ==
    ASSUME NEW a \in Int, NEW b \in Int
    PROVE  Min({a, b}) = IF a <= b THEN a ELSE b
<1>1. \E x \in {a, b} : \A y \in {a, b} : x <= y
  OBVIOUS
<1>2. Min({a, b}) \in {a, b} /\ \A y \in {a, b} : Min({a, b}) <= y
  BY <1>1 DEF Min
<1>. QED
  BY <1>2

\* What an entry of the history becomes when time passes.
Older(n) == IF n + 1 <= OldAge THEN n + 1 ELSE OldAge

LEMMA LimiterStart == LimiterInit => LimiterIInv
<1>. SUFFICES ASSUME LimiterInit PROVE LimiterIInv
  OBVIOUS
<1>1. DOMAIN limiterWindows = {}
  BY DEF LimiterInit
<1>2. limiterAccepted \in [LimiterKeys -> History] /\
      \A k \in LimiterKeys : \A i \in 1 .. LimiterMemory : limiterAccepted[k][i] = OldAge
  BY LimiterNumbers DEF LimiterInit, History
<1>. QED
  BY <1>1, <1>2, LimiterNumbers DEF LimiterIInv, LimiterTypeOK, HistorySorted, History

\* One more request is accepted.
Pushed(past) == [i \in 1 .. LimiterMemory |-> IF i = 1 THEN 0 ELSE past[i - 1]]

LEMMA PushedHistory ==
    ASSUME NEW past \in History, \A i, j \in 1 .. LimiterMemory : i <= j => past[i] <= past[j]
    PROVE  /\ Pushed(past) \in History
           /\ \A i, j \in 1 .. LimiterMemory : i <= j => Pushed(past)[i] <= Pushed(past)[j]
           /\ Pushed(past)[1] = 0
           /\ \A i \in 1 .. LimiterMemory - 1 : Pushed(past)[i + 1] = past[i]
<1>1. \A i \in 1 .. LimiterMemory : Pushed(past)[i] = IF i = 1 THEN 0 ELSE past[i - 1]
  BY DEF Pushed
<1>2. \A i \in 1 .. LimiterMemory : i # 1 => i - 1 \in 1 .. LimiterMemory
  BY LimiterNumbers
<1>3. \A i \in 1 .. LimiterMemory : past[i] \in 0 .. OldAge
  BY DEF History
<1>4. Pushed(past) \in History
  BY <1>1, <1>2, <1>3, LimiterNumbers DEF Pushed, History
<1>5. ASSUME NEW i \in 1 .. LimiterMemory, NEW j \in 1 .. LimiterMemory, i <= j
      PROVE  Pushed(past)[i] <= Pushed(past)[j]
  <2>1. CASE i = 1
    BY <1>1, <1>4, <2>1, LimiterNumbers DEF History
  <2>2. CASE i # 1
    BY <1>1, <1>2, <1>5, <2>2, LimiterNumbers
  <2>. QED
    BY <2>1, <2>2
<1>6. Pushed(past)[1] = 0
  BY <1>1, LimiterNumbers
<1>7. \A i \in 1 .. LimiterMemory - 1 : Pushed(past)[i + 1] = past[i]
  BY <1>1, LimiterNumbers
<1>. QED
  BY <1>4, <1>5, <1>6, <1>7

\* The window in which a request is counted, and the history after it.
LEMMA CountedRequest ==
    ASSUME LimiterIInv, NEW k \in LimiterKeys,
           NEW past, past = IF LimiterWindow(k).count > LimiterLimit THEN limiterAccepted[k]
                            ELSE Pushed(limiterAccepted[k])
    PROVE  /\ LimiterWindow(k) \in LimiterRecord /\ LimiterWindow(k).idle = 0
           /\ past \in History /\ Accounts(LimiterWindow(k), past)
           /\ \A i, j \in 1 .. LimiterMemory : i <= j => past[i] <= past[j]
<1>. DEFINE before == limiterAccepted[k]
            old == limiterWindows[k]
<1>0. OldAge = LimiterInterval
  BY DEF OldAge
<1>1. before \in History /\ \A i, j \in 1 .. LimiterMemory : i <= j => before[i] <= before[j]
  BY DEF LimiterIInv, LimiterTypeOK, HistorySorted, History
<1>2. \A i \in 1 .. LimiterMemory : before[i] \in Nat
  BY <1>1, LimiterNumbers DEF History
<1>. HIDE DEF before
<1>3. CASE k \in DOMAIN limiterWindows /\ old.age < LimiterInterval
  <2>1. old \in LimiterRecord /\ Accounts(old, before)
    BY <1>3 DEF LimiterIInv, LimiterTypeOK, LimiterRecord, before
  <2>2. PICK age, n : /\ age = old.age /\ age \in Nat /\ age < OldAge
                      /\ n = old.count /\ n \in Nat /\ n >= 1 /\ n <= LimiterLimit + 1
    BY <1>0, <1>3, <2>1, LimiterNumbers DEF LimiterRecord
  <2>3. PICK m : m = IF n + 1 <= LimiterLimit + 1 THEN n + 1 ELSE LimiterLimit + 1
    OBVIOUS
  <2>4. LimiterWindow(k) = [age |-> age, count |-> m, idle |-> 0]
    BY <1>3, <2>2, <2>3, LeastOfTwo, LimiterNumbers DEF LimiterWindow
  <2>. HIDE DEF old
  <2>5. PICK c : c = (IF n < LimiterLimit THEN n ELSE LimiterLimit) /\ c \in Nat /\ c >= 1 /\ c <= LimiterLimit
    BY <2>2, LimiterNumbers
  <2>6. before[c + 1] > age \/ before[c + 1] >= OldAge
    BY <2>1, <2>2, <2>5 DEF Accounts, AcceptedNow
  <2>7. before[c + LimiterLimit + 1] >= OldAge
    BY <2>1, <2>2, <2>5 DEF Accounts, AcceptedNow
  <2>8. CASE m > LimiterLimit
    <3>1. past = before /\ c = LimiterLimit
      BY <2>2, <2>3, <2>4, <2>5, <2>8, LimiterNumbers DEF before
    <3>2. before[1] >= 0
      BY <1>2, LimiterNumbers
    <3>. QED
      BY <1>1, <2>2, <2>3, <2>4, <2>6, <2>7, <2>8, <3>1, <3>2, LimiterNumbers
         DEF Accounts, AcceptedNow, LimiterRecord
  <2>9. CASE m <= LimiterLimit
    <3>1. past = Pushed(before) /\ m = n + 1 /\ c = n
      BY <2>2, <2>3, <2>4, <2>5, <2>9, LimiterNumbers DEF before
    <3>2. past[m + 1] = before[c + 1] /\ past[m + LimiterLimit + 1] = before[c + LimiterLimit + 1]
      <4>1. m \in 1 .. LimiterMemory - 1 /\ m + LimiterLimit \in 1 .. LimiterMemory - 1
        BY <2>2, <2>9, <3>1, LimiterNumbers
      <4>2. past[m + 1] = before[m] /\ past[m + LimiterLimit + 1] = before[m + LimiterLimit]
        BY <1>1, <3>1, <4>1, PushedHistory
      <4>. QED
        BY <2>2, <3>1, <4>2, LimiterNumbers
    <3>3. past[1] = 0 /\ past \in History
          /\ \A i, j \in 1 .. LimiterMemory : i <= j => past[i] <= past[j]
      BY <1>1, <3>1, PushedHistory
    <3>4. AcceptedNow(LimiterWindow(k)) = m
      BY <2>2, <2>4, <2>9, <3>1, LimiterNumbers DEF AcceptedNow
    <3>. QED
      BY <2>2, <2>4, <2>6, <2>7, <2>9, <3>1, <3>2, <3>3, <3>4, LimiterNumbers
         DEF Accounts, LimiterRecord
  <2>. QED
    BY <2>2, <2>3, <2>8, <2>9, LimiterNumbers
<1>4. CASE ~(k \in DOMAIN limiterWindows /\ old.age < LimiterInterval)
  <2>1. LimiterWindow(k) = [age |-> 0, count |-> 1, idle |-> 0]
    BY <1>4 DEF LimiterWindow
  <2>2. past = Pushed(before)
    BY <2>1, LimiterNumbers DEF before
  <2>3. before[1] >= 1 /\ before[LimiterLimit + 1] >= OldAge
    <3>1. CASE k \notin DOMAIN limiterWindows
      <4>1. before[1] >= OldAge
        BY <3>1 DEF LimiterIInv, before
      <4>. QED
        BY <1>1, <1>2, <4>1, LimiterNumbers
    <3>2. CASE k \in DOMAIN limiterWindows /\ old.age >= OldAge
      <4>1. old \in LimiterRecord /\ Accounts(old, before)
        BY <3>2 DEF LimiterIInv, LimiterTypeOK, LimiterRecord, before
      <4>2. PICK c : c = AcceptedNow(old) /\ c \in Nat /\ c >= 1 /\ c <= LimiterLimit
        BY <4>1, LimiterNumbers DEF AcceptedNow, LimiterRecord
      <4>3. before[c + 1] >= OldAge /\ before[1] >= 1
        <5>1. before[c + 1] > old.age \/ before[c + 1] >= OldAge
          BY <4>1, <4>2 DEF Accounts
        <5>2. before[c + 1] \in Nat /\ old.age \in Nat
          BY <1>2, <4>1, <4>2, LimiterNumbers DEF LimiterRecord
        <5>. QED
          BY <3>2, <4>1, <5>1, <5>2, LimiterNumbers DEF Accounts
      <4>. QED
        BY <1>1, <1>2, <4>2, <4>3, LimiterNumbers
    <3>3. k \in DOMAIN limiterWindows => old.age \in Nat
      BY LimiterNumbers DEF LimiterIInv, LimiterTypeOK
    <3>. QED
      BY <1>0, <1>4, <3>1, <3>2, <3>3, LimiterNumbers
  <2>4. past[2] = before[1] /\ past[LimiterLimit + 2] = before[LimiterLimit + 1]
        /\ past[1] = 0 /\ past \in History
        /\ \A i, j \in 1 .. LimiterMemory : i <= j => past[i] <= past[j]
    <3>1. 1 \in 1 .. LimiterMemory - 1 /\ LimiterLimit + 1 \in 1 .. LimiterMemory - 1
      BY LimiterNumbers
    <3>2. past[1 + 1] = before[1] /\ past[LimiterLimit + 1 + 1] = before[LimiterLimit + 1]
      BY <1>1, <2>2, <3>1, PushedHistory
    <3>3. 1 + 1 = 2 /\ LimiterLimit + 1 + 1 = LimiterLimit + 2
      BY LimiterNumbers
    <3>. QED
      BY <1>1, <2>2, <3>2, <3>3, PushedHistory
  <2>5. AcceptedNow(LimiterWindow(k)) = 1
    BY <2>1, LimiterNumbers DEF AcceptedNow
  <2>6. LimiterWindow(k) \in LimiterRecord
    BY <2>1, LimiterNumbers DEF LimiterRecord
  <2>7. 1 + LimiterLimit + 1 = LimiterLimit + 2 /\ 1 + 1 = 2
    BY LimiterNumbers
  <2>8. past[2] > 0 /\ past[LimiterLimit + 2] >= OldAge /\ past[1] >= 0
    BY <1>2, <2>3, <2>4, LimiterNumbers
  <2>9. LimiterWindow(k).age = 0 /\ LimiterWindow(k).idle = 0
    BY <2>1
  <2>10. Accounts(LimiterWindow(k), past)
    BY <2>5, <2>7, <2>8, <2>9, LimiterNumbers DEF Accounts
  <2>. QED
    BY <2>4, <2>6, <2>9, <2>10
<1>. QED
  BY <1>3, <1>4

LEMMA AllowStep ==
    ASSUME LimiterIInv, NEW k \in LimiterKeys, LimiterAllow(k)
    PROVE  LimiterIInv'
<1>. DEFINE window == LimiterWindow(k)
            windows == [j \in DOMAIN limiterWindows \cup {k} |->
                          IF j = k THEN window ELSE limiterWindows[j]]
            past == IF window.count > LimiterLimit THEN limiterAccepted[k]
                    ELSE Pushed(limiterAccepted[k])
<1>0. /\ DOMAIN limiterWindows \subseteq LimiterKeys
      /\ limiterAccepted \in [LimiterKeys -> History]
      /\ \A j \in DOMAIN limiterWindows : limiterWindows[j] \in LimiterRecord
  BY DEF LimiterIInv, LimiterTypeOK, History, LimiterRecord
<1>1. /\ window \in LimiterRecord /\ window.idle = 0
      /\ past \in History /\ Accounts(window, past)
      /\ \A i, j \in 1 .. LimiterMemory : i <= j => past[i] <= past[j]
  BY CountedRequest
<1>2. limiterAccepted' = [limiterAccepted EXCEPT ![k] = past]
  BY <1>0 DEF LimiterAllow, Pushed
<1>3. limiterWindows' = [j \in LimiterKept(windows) |-> windows[j]]
  BY DEF LimiterAllow
<1>. HIDE DEF past, window
<1>4. /\ DOMAIN windows = DOMAIN limiterWindows \cup {k} /\ windows[k] = window
      /\ \A j \in DOMAIN limiterWindows : j # k => windows[j] = limiterWindows[j]
  OBVIOUS
<1>. HIDE DEF windows
<1>5. /\ LimiterKept(windows) \subseteq DOMAIN windows
      /\ \A j \in DOMAIN windows \ LimiterKept(windows) : ~(windows[j].idle < IdleAge)
  BY DEF LimiterKept
<1>6. DOMAIN limiterWindows' = LimiterKept(windows)
      /\ \A j \in LimiterKept(windows) : limiterWindows'[j] = windows[j]
  BY <1>3
<1>7. k \in LimiterKept(windows)
  BY <1>1, <1>4, <1>5, LimiterNumbers
<1>8. limiterAccepted'[k] = past /\ \A j \in LimiterKeys \ {k} : limiterAccepted'[j] = limiterAccepted[j]
  BY <1>0, <1>2
<1>9. LimiterTypeOK'
  <2>1. limiterAccepted' \in [LimiterKeys -> History]
    BY <1>0, <1>1, <1>2
  <2>2. \A j \in DOMAIN limiterWindows' : limiterWindows'[j] \in LimiterRecord
    BY <1>0, <1>1, <1>4, <1>5, <1>6
  <2>3. DOMAIN limiterWindows' \subseteq LimiterKeys
    BY <1>0, <1>4, <1>5, <1>6
  <2>. QED
    BY <2>1, <2>2, <2>3 DEF LimiterTypeOK, LimiterRecord, History
<1>10. HistorySorted'
  BY <1>1, <1>8 DEF LimiterIInv, HistorySorted
<1>11. ASSUME NEW j \in LimiterKeys
       PROVE  /\ j \in DOMAIN limiterWindows' => Accounts(limiterWindows'[j], limiterAccepted'[j])
              /\ j \notin DOMAIN limiterWindows' => limiterAccepted'[j][1] >= OldAge
  <2>1. CASE j = k
    BY <1>1, <1>4, <1>6, <1>7, <1>8, <2>1
  <2>2. CASE j # k /\ j \in LimiterKept(windows)
    BY <1>4, <1>5, <1>6, <1>8, <2>2 DEF LimiterIInv
  <2>3. CASE j # k /\ j \notin LimiterKept(windows) /\ j \in DOMAIN limiterWindows
    <3>1. limiterWindows[j] \in LimiterRecord /\ ~(limiterWindows[j].idle < IdleAge)
          /\ Accounts(limiterWindows[j], limiterAccepted[j])
      BY <1>0, <1>4, <1>5, <2>3 DEF LimiterIInv
    <3>2. limiterAccepted[j][1] \in Nat /\ limiterWindows[j].idle \in Nat
      <4>1. limiterWindows[j].idle \in 0 .. IdleAge
        BY <3>1 DEF LimiterRecord
      <4>2. limiterAccepted[j] \in History /\ 1 \in 1 .. LimiterMemory
        BY <1>0, LimiterNumbers
      <4>3. limiterAccepted[j][1] \in 0 .. OldAge
        BY <4>2 DEF History
      <4>. QED
        BY <4>1, <4>3, LimiterNumbers
    <3>3. limiterAccepted[j][1] >= OldAge
      <4>1. \/ limiterAccepted[j][1] >= limiterWindows[j].idle
            \/ limiterAccepted[j][1] >= OldAge
        BY <3>1 DEF Accounts
      <4>2. PICK last \in Nat, idle \in Nat :
              last = limiterAccepted[j][1] /\ idle = limiterWindows[j].idle
        BY <3>2
      <4>3. OldAge \in Nat /\ IdleAge \in Nat /\ IdleAge > OldAge /\ ~(idle < IdleAge)
        BY <3>1, <4>2, LimiterNumbers
      <4>4. last >= OldAge
        BY <4>1, <4>2, <4>3
      <4>. QED
        BY <4>2, <4>4
    <3>. QED
      BY <1>6, <1>8, <2>3, <3>3
  <2>4. CASE j # k /\ j \notin DOMAIN limiterWindows
    BY <1>4, <1>5, <1>6, <1>8, <2>4 DEF LimiterIInv
  <2>. QED
    BY <2>1, <2>2, <2>3, <2>4
<1>. QED
  BY <1>9, <1>10, <1>11 DEF LimiterIInv

LEMMA LimiterTickStep ==
    ASSUME LimiterIInv, LimiterTick
    PROVE  LimiterIInv'
<1>0. /\ DOMAIN limiterWindows \subseteq LimiterKeys
      /\ limiterAccepted \in [LimiterKeys -> History]
      /\ \A k \in DOMAIN limiterWindows : limiterWindows[k] \in LimiterRecord
  BY DEF LimiterIInv, LimiterTypeOK, History, LimiterRecord
<1>1. ASSUME NEW k \in LimiterKeys, NEW i \in 1 .. LimiterMemory
      PROVE  /\ limiterAccepted'[k][i] = Older(limiterAccepted[k][i])
             /\ limiterAccepted[k][i] \in Nat /\ limiterAccepted[k][i] <= OldAge
  <2>1. limiterAccepted[k][i] \in 0 .. OldAge
    BY <1>0 DEF History
  <2>2. limiterAccepted'[k][i] = Min({limiterAccepted[k][i] + 1, OldAge})
    BY DEF LimiterTick
  <2>3. /\ limiterAccepted[k][i] \in Nat /\ limiterAccepted[k][i] <= OldAge
        /\ limiterAccepted[k][i] + 1 \in Nat
    BY <2>1, LimiterNumbers
  <2>4. Min({limiterAccepted[k][i] + 1, OldAge}) = Older(limiterAccepted[k][i])
    BY <2>3, LeastOfTwo, LimiterNumbers DEF Older
  <2>. QED
    BY <2>2, <2>3, <2>4
<1>2. limiterAccepted' \in [LimiterKeys -> History]
  <2>1. \A k \in LimiterKeys : \A i \in 1 .. LimiterMemory : limiterAccepted'[k][i] \in 0 .. OldAge
    BY <1>1, LimiterNumbers DEF Older
  <2>. QED
    BY <2>1 DEF LimiterTick, History
<1>3. HistorySorted'
  BY <1>1, LimiterNumbers DEF LimiterIInv, HistorySorted, Older
<1>4. DOMAIN limiterWindows' = DOMAIN limiterWindows
  BY DEF LimiterTick
<1>5. ASSUME NEW k \in DOMAIN limiterWindows
      PROVE  /\ limiterWindows'[k] \in LimiterRecord
             /\ Accounts(limiterWindows'[k], limiterAccepted'[k])
  <2>. DEFINE old == limiterWindows[k]
              new == limiterWindows'[k]
              was == limiterAccepted[k]
              past == limiterAccepted'[k]
  <2>1. old \in LimiterRecord /\ Accounts(old, was) /\ k \in LimiterKeys
    BY <1>0, <1>5 DEF LimiterIInv
  <2>2. PICK age, count, idle : /\ age = old.age /\ count = old.count /\ idle = old.idle
                                /\ age \in Nat /\ age <= OldAge
                                /\ count \in Nat /\ 1 <= count /\ count <= LimiterLimit + 1
                                /\ idle \in Nat /\ idle <= IdleAge
    BY <2>1, LimiterNumbers DEF LimiterRecord
  <2>3. PICK aged, idler : /\ aged = Min({age + 1, OldAge}) /\ idler = Min({idle + 1, IdleAge})
    OBVIOUS
  <2>4. new = [limiterWindows[k] EXCEPT !.age = aged, !.idle = idler]
    BY <1>5, <2>2, <2>3 DEF LimiterTick
  <2>5. new.age = aged /\ new.count = count /\ new.idle = idler
        /\ new = [age |-> aged, count |-> count, idle |-> idler]
    BY <2>1, <2>2, <2>4 DEF LimiterRecord
  <2>6. /\ aged = IF age + 1 <= OldAge THEN age + 1 ELSE OldAge
        /\ idler = IF idle + 1 <= IdleAge THEN idle + 1 ELSE IdleAge
    <3>1. age + 1 \in Int /\ idle + 1 \in Int /\ OldAge \in Int /\ IdleAge \in Int
      BY <2>2, LimiterNumbers
    <3>2. Min({age + 1, OldAge}) = IF age + 1 <= OldAge THEN age + 1 ELSE OldAge
      BY <3>1, LeastOfTwo
    <3>3. Min({idle + 1, IdleAge}) = IF idle + 1 <= IdleAge THEN idle + 1 ELSE IdleAge
      BY <3>1, LeastOfTwo
    <3>. QED
      BY <2>3, <3>2, <3>3
  <2>7. new \in LimiterRecord
    BY <2>2, <2>5, <2>6, LimiterNumbers DEF LimiterRecord
  <2>8. PICK n : n = AcceptedNow(old) /\ n = AcceptedNow(new) /\ n \in Nat /\ n >= 1 /\ n <= LimiterLimit
    BY <2>2, <2>5, LimiterNumbers DEF AcceptedNow
  <2>9. /\ n + 1 \in 1 .. LimiterMemory /\ n + LimiterLimit + 1 \in 1 .. LimiterMemory
        /\ 1 \in 1 .. LimiterMemory
    BY <2>8, LimiterNumbers
  <2>10. \A i \in 1 .. LimiterMemory : past[i] = Older(was[i]) /\ was[i] \in Nat /\ was[i] <= OldAge
    BY <1>1, <2>1
  <2>11. /\ was[n + 1] > age \/ was[n + 1] >= OldAge
         /\ was[n + LimiterLimit + 1] >= OldAge
         /\ was[1] >= idle \/ was[1] >= OldAge
    BY <2>1, <2>2, <2>8 DEF Accounts
  <2>. HIDE DEF old, new, was, past
  <2>12. past[n + 1] > aged \/ past[n + 1] >= OldAge
    BY <2>2, <2>6, <2>9, <2>10, <2>11, LimiterNumbers DEF Older
  <2>13. past[n + LimiterLimit + 1] >= OldAge
    BY <2>9, <2>10, <2>11, LimiterNumbers DEF Older
  <2>14. past[1] >= 1 /\ (past[1] >= idler \/ past[1] >= OldAge)
    BY <2>2, <2>6, <2>9, <2>10, <2>11, LimiterNumbers DEF Older
  <2>15. Accounts(new, past)
    BY <2>5, <2>8, <2>12, <2>13, <2>14 DEF Accounts
  <2>. QED
    BY <2>7, <2>15 DEF new, past
<1>6. LimiterTypeOK'
  BY <1>0, <1>2, <1>4, <1>5 DEF LimiterTypeOK, LimiterRecord, History
<1>7. ASSUME NEW k \in LimiterKeys, k \notin DOMAIN limiterWindows
      PROVE  limiterAccepted'[k][1] >= OldAge
  <2>1. limiterAccepted[k][1] >= OldAge
    BY <1>7 DEF LimiterIInv
  <2>. QED
    BY <1>1, <2>1, LimiterNumbers DEF Older
<1>. QED
  BY <1>3, <1>4, <1>5, <1>6, <1>7 DEF LimiterIInv

\* However requests, time and sweeps alternate, no caller gets a second budget
\* within one interval (requestLimiter.allow): for every limit, interval, table
\* size and number of callers.
THEOREM BudgetsAreKept == LimiterSpec => []NoSecondBudget
<1>1. LimiterIInv /\ [LimiterNext]_limiterVars => LimiterIInv'
  <2>. SUFFICES ASSUME LimiterIInv, [LimiterNext]_limiterVars PROVE LimiterIInv'
    OBVIOUS
  <2>1. CASE UNCHANGED limiterVars
    BY <2>1 DEF limiterVars, LimiterIInv, LimiterTypeOK, HistorySorted
  <2>. QED
    BY <2>1, AllowStep, LimiterTickStep DEF LimiterNext
<1>2. LimiterIInv => NoSecondBudget
  <2>. SUFFICES ASSUME LimiterIInv, NEW k \in LimiterKeys
                PROVE  /\ limiterAccepted[k][2 * LimiterLimit + 1] >= OldAge
                       /\ k \in DOMAIN limiterWindows =>
                            \/ limiterAccepted[k][LimiterLimit + 1] > limiterWindows[k].age
                            \/ limiterAccepted[k][LimiterLimit + 1] >= OldAge
    BY DEF NoSecondBudget
  <2>. DEFINE past == limiterAccepted[k]
  <2>1. past \in History /\ \A i, j \in 1 .. LimiterMemory : i <= j => past[i] <= past[j]
    BY DEF LimiterIInv, LimiterTypeOK, HistorySorted, History
  <2>2. \A i \in 1 .. LimiterMemory : past[i] \in Nat
    BY <2>1, LimiterNumbers DEF History
  <2>3. CASE k \notin DOMAIN limiterWindows
    <3>1. past[1] >= OldAge
      BY <2>3 DEF LimiterIInv
    <3>. HIDE DEF past
    <3>2. past[2 * LimiterLimit + 1] >= OldAge
      BY <2>1, <2>2, <3>1, LimiterNumbers
    <3>. QED
      BY <2>3, <3>2 DEF past
  <2>4. CASE k \in DOMAIN limiterWindows
    <3>1. limiterWindows[k] \in LimiterRecord /\ Accounts(limiterWindows[k], past)
      BY <2>4 DEF LimiterIInv, LimiterTypeOK, LimiterRecord
    <3>2. PICK n : n = AcceptedNow(limiterWindows[k]) /\ n \in Nat /\ n >= 1 /\ n <= LimiterLimit
      BY <3>1, LimiterNumbers DEF AcceptedNow, LimiterRecord
    <3>3. PICK age \in Nat : age = limiterWindows[k].age
      BY <3>1, LimiterNumbers DEF LimiterRecord
    <3>4. /\ past[n + 1] > age \/ past[n + 1] >= OldAge
          /\ past[n + LimiterLimit + 1] >= OldAge
      BY <3>1, <3>2, <3>3 DEF Accounts
    <3>. HIDE DEF past
    <3>5. /\ past[n + LimiterLimit + 1] <= past[2 * LimiterLimit + 1]
          /\ past[n + 1] <= past[LimiterLimit + 1]
          /\ past[n + 1] \in Nat /\ past[LimiterLimit + 1] \in Nat
          /\ past[n + LimiterLimit + 1] \in Nat /\ past[2 * LimiterLimit + 1] \in Nat
      BY <2>1, <2>2, <3>2, LimiterNumbers
    <3>6. past[2 * LimiterLimit + 1] >= OldAge
      BY <3>4, <3>5, LimiterNumbers
    <3>7. past[LimiterLimit + 1] > age \/ past[LimiterLimit + 1] >= OldAge
      BY <3>3, <3>4, <3>5, LimiterNumbers
    <3>. QED
      BY <3>3, <3>6, <3>7 DEF past
  <2>. QED
    BY <2>3, <2>4
<1>. QED
  BY <1>1, <1>2, LimiterStart, PTL DEF LimiterSpec

-----------------------------------------------------------------------------
(* The scan *)

\* The lists that were read before call n.
ReadBefore(n) == {ScanLists[i] : i \in {j \in DOMAIN ScanLists : j < n}}

Judged(o) == o.ns \notin SystemNamespaces
Governance(o) == NewClusterFinding(o, "namespaceGovernance")
Policies(o) == NewClusterFinding(o, "networkPolicyMissing")
Budget(o) == NewClusterFinding(o, "workloadPDB")
NeedsBudget(o) == o.list \in WorkloadLists /\ o.replicated

\* Why a finding was true at every moment: its object was always there, and what it
\* lacks never was; only governance needs two objects, which may have taken turns.
HeldFor(f) ==
    /\ f.object \in scanAlways /\ Judged(f.object)
    /\ f = NewClusterFinding(f.object, f.rule)
    /\ \/ f.rule \in f.object.faults
       \/ f.rule = "namespaceGovernance" /\ f.object.list = "namespaces"
       \/ /\ f.rule = "networkPolicyMissing" /\ f.object.list = "namespaces"
          /\ ~Covered(scanEver, "networkPolicies", f.object.ns)
       \/ /\ f.rule = "workloadPDB" /\ NeedsBudget(f.object)
          /\ ~Covered(scanEver, "pdbs", f.object.ns)

\* What the histories are, and what was seen of what they record.
ScanHistoryInv ==
    /\ scanAlways \subseteq scanWorld /\ scanWorld \subseteq scanEver
    /\ scanEver \subseteq ScanObjects
    /\ Judge(scanWorld) \subseteq scanTrue
    /\ \A f \in scanHeld : HeldFor(f)
    /\ \A o \in scanEver : Judged(o) =>
          \A rule \in o.faults : NewClusterFinding(o, rule) \in scanTrue

ScanSeenInv ==
    /\ scanSeen \subseteq scanEver
    /\ \A o \in scanAlways : o.list \in ReadBefore(scanNext) => o \in scanSeen
    /\ \A o \in scanSeen : o.list \in ReadBefore(scanNext)

\* A namespace that was seen is still there, or was empty before it went.
NamespacesGo ==
    \A o \in scanSeen : o.list = "namespaces" /\ Judged(o) =>
        o \in scanWorld \/ (Governance(o) \in scanTrue /\ Policies(o) \in scanTrue)

\* What was found missing was missing when its list was read.
MissingIsTrue ==
    /\ \A o \in scanSeen : o.list = "namespaces" /\ Judged(o) =>
          /\ \A list \in {"quotas", "limitRanges"} :
                list \in ReadBefore(scanNext) /\ ~Covered(scanSeen, list, o.ns)
                    => Governance(o) \in scanTrue
          /\ "networkPolicies" \in ReadBefore(scanNext)
                /\ ~Covered(scanSeen, "networkPolicies", o.ns) => Policies(o) \in scanTrue
    /\ \A o \in scanSeen \cap scanAlways :
          /\ NeedsBudget(o) /\ Judged(o)
          /\ "pdbs" \in ReadBefore(scanNext) /\ ~Covered(scanSeen, "pdbs", o.ns)
          => Budget(o) \in scanTrue

ScanIInv ==
    /\ scanNext \in Nat
    /\ scanWorld \subseteq ScanObjects
    /\ scanNext = 0 => scanResult = "none" /\ scanSeen = {}
    /\ scanNext > 0 => ScanHistoryInv /\ ScanSeenInv /\ NamespacesGo /\ MissingIsTrue
    /\ scanResult = "done" => scanNext > Len(ScanLists) /\ scanFindings = Judge(scanSeen)

LEMMA ScanListsLength == Len(ScanLists) = 22 /\ DOMAIN ScanLists = 1 .. 22
  BY DEF ScanLists

\* What depends on a list is read before it.
LEMMA ListOrder ==
  ASSUME NEW n \in 1 .. Len(ScanLists)
  PROVE  /\ ScanLists[n] = "namespaces" =>
              \A list \in {"quotas", "limitRanges", "networkPolicies"} : list \notin ReadBefore(n + 1)
         /\ ScanLists[n] \in WorkloadLists => "pdbs" \notin ReadBefore(n + 1)
<1>1. /\ ScanLists[7] = "quotas" /\ ScanLists[8] = "limitRanges" /\ ScanLists[16] = "networkPolicies"
      /\ ScanLists[17] = "pdbs" /\ n \in 1 .. 22
  BY ScanListsLength DEF ScanLists
<1>2. \A k \in 1 .. 22 : /\ ScanLists[k] = "namespaces" => k = 2
                         /\ ScanLists[k] \in WorkloadLists => k \in 11 .. 13
                         /\ ScanLists[k] = "quotas" => k = 7
                         /\ ScanLists[k] = "limitRanges" => k = 8
                         /\ ScanLists[k] = "networkPolicies" => k = 16
                         /\ ScanLists[k] = "pdbs" => k = 17
  BY DEF ScanLists, WorkloadLists
<1>3. \A x \in ReadBefore(n + 1) : \E k \in 1 .. 22 : k < n + 1 /\ x = ScanLists[k]
  BY ScanListsLength DEF ReadBefore
<1>4. ASSUME ScanLists[n] = "namespaces", NEW list \in {"quotas", "limitRanges", "networkPolicies"},
             list \in ReadBefore(n + 1)
      PROVE  FALSE
  <2>1. PICK k \in 1 .. 22 : k < n + 1 /\ list = ScanLists[k]
    BY <1>3, <1>4
  <2>2. n = 2 /\ k \in {7, 8, 16}
    BY <1>1, <1>2, <1>4, <2>1
  <2>. QED
    BY <2>1, <2>2
<1>5. ASSUME ScanLists[n] \in WorkloadLists, "pdbs" \in ReadBefore(n + 1)
      PROVE  FALSE
  <2>1. PICK k \in 1 .. 22 : k < n + 1 /\ "pdbs" = ScanLists[k]
    BY <1>3, <1>5
  <2>2. n \in 11 .. 13 /\ k = 17
    BY <1>1, <1>2, <1>5, <2>1
  <2>. QED
    BY <2>1, <2>2
<1>. QED
  BY <1>4, <1>5

LEMMA ReadNext ==
  ASSUME NEW n \in 1 .. Len(ScanLists)
  PROVE  \A x : x \in ReadBefore(n + 1) <=> x \in ReadBefore(n) \/ x = ScanLists[n]
<1>1. n \in 1 .. 22 /\ DOMAIN ScanLists = 1 .. 22
  BY ScanListsLength
<1>2. \A i \in 1 .. 22 : i < n + 1 <=> i < n \/ i = n
  BY <1>1
<1>. QED
  BY <1>1, <1>2 DEF ReadBefore

\* The findings of a set of objects, one by one.
LEMMA JudgeFinds ==
  ASSUME NEW objects, NEW f
  PROVE  f \in Judge(objects) <=>
           \E o \in objects : /\ Judged(o)
                              /\ \E rule \in o.faults \cup JointFaults(objects, o) :
                                     f = NewClusterFinding(o, rule)
  BY DEF Judge, Judged

LEMMA FindingParts ==
  ASSUME NEW o, NEW rule
  PROVE  NewClusterFinding(o, rule).object = o /\ NewClusterFinding(o, rule).rule = rule
  BY DEF NewClusterFinding

LEMMA JointParts ==
  ASSUME NEW objects, NEW o \in ScanObjects, NEW rule
  PROVE  rule \in JointFaults(objects, o) <=>
           \/ /\ rule = "namespaceGovernance" /\ o.list = "namespaces"
              /\ ~(Covered(objects, "quotas", o.ns) /\ Covered(objects, "limitRanges", o.ns))
           \/ /\ rule = "networkPolicyMissing" /\ o.list = "namespaces"
              /\ ~Covered(objects, "networkPolicies", o.ns)
           \/ /\ rule = "workloadPDB" /\ NeedsBudget(o)
              /\ ~Covered(objects, "pdbs", o.ns)
  BY DEF JointFaults, NeedsBudget

LEMMA ScanStartInv == ScanInit => ScanIInv
  BY ScanAssumption DEF ScanInit, ScanIInv

LEMMA ScanBegins ==
  ASSUME ScanIInv, ScanStart
  PROVE  ScanIInv'
<1>1. /\ scanNext' = 1 /\ scanWorld' = scanWorld /\ scanAlways' = scanWorld /\ scanEver' = scanWorld
      /\ scanHeld' = Judge(scanWorld) /\ scanTrue' = Judge(scanWorld) /\ scanSeen' = {}
      /\ scanResult' = "none" /\ scanWorld \subseteq ScanObjects
  BY DEF ScanStart, ScanIInv
<1>2. ReadBefore(1) = {}
  BY ScanListsLength DEF ReadBefore
<1>3. \A f \in scanHeld' : HeldFor(f)'
  <2>. SUFFICES ASSUME NEW f \in Judge(scanWorld) PROVE HeldFor(f)'
    BY <1>1
  <2>1. PICK o \in scanWorld : /\ Judged(o)
                               /\ \E rule \in o.faults \cup JointFaults(scanWorld, o) :
                                      f = NewClusterFinding(o, rule)
    BY JudgeFinds
  <2>2. PICK rule \in o.faults \cup JointFaults(scanWorld, o) : f = NewClusterFinding(o, rule)
    BY <2>1
  <2>3. f.object = o /\ f.rule = rule
    BY <2>2, FindingParts
  <2>4. o \in ScanObjects
    BY <1>1
  <2>. QED
    BY <1>1, <2>1, <2>2, <2>3, <2>4, JointParts DEF HeldFor
<1>4. \A o \in scanWorld : Judged(o) => \A rule \in o.faults : NewClusterFinding(o, rule) \in Judge(scanWorld)
  BY JudgeFinds
<1>5. ScanHistoryInv'
  BY <1>1, <1>3, <1>4 DEF ScanHistoryInv
<1>6. ScanSeenInv' /\ NamespacesGo' /\ MissingIsTrue'
  BY <1>1, <1>2 DEF ScanSeenInv, NamespacesGo, MissingIsTrue
<1>. QED
  BY <1>1, <1>5, <1>6 DEF ScanIInv

LEMMA ScanReads ==
  ASSUME ScanIInv, ScanList
  PROVE  ScanIInv'
<1>1. PICK n \in 1 .. Len(ScanLists) : n = scanNext
  BY ScanListsLength DEF ScanList, Scanning, ScanIInv
<1>. DEFINE read == ScanLists[n]
<1>2. /\ scanSeen' = scanSeen \cup {o \in scanWorld : o.list = read} /\ scanNext' = n + 1
      /\ scanWorld' = scanWorld /\ scanAlways' = scanAlways /\ scanEver' = scanEver
      /\ scanHeld' = scanHeld /\ scanTrue' = scanTrue /\ scanResult' = "none"
      /\ ScanHistoryInv /\ ScanSeenInv /\ NamespacesGo /\ MissingIsTrue
  BY <1>1 DEF ScanList, Scanning, ScanIInv, scanHistory
<1>3. \A x : x \in ReadBefore(n + 1) <=> x \in ReadBefore(n) \/ x = read
  BY ReadNext
<1>4. /\ read = "namespaces" =>
           \A list \in {"quotas", "limitRanges", "networkPolicies"} : list \notin ReadBefore(n + 1)
      /\ read \in WorkloadLists => "pdbs" \notin ReadBefore(n + 1)
  BY ListOrder
<1>. HIDE DEF read
<1>5. ScanHistoryInv'
  BY <1>2 DEF ScanHistoryInv, HeldFor
<1>6. ScanSeenInv'
  BY <1>1, <1>2, <1>3 DEF ScanSeenInv, ScanHistoryInv
<1>7. NamespacesGo'
  BY <1>2 DEF NamespacesGo
<1>8. \A list, ns : ~Covered(scanSeen', list, ns) =>
          /\ ~Covered(scanSeen, list, ns)
          /\ list = read => ~Covered(scanWorld, list, ns)
  BY <1>2 DEF Covered
<1>9. ASSUME NEW o \in scanWorld, Judged(o)
      PROVE  /\ \A list \in {"quotas", "limitRanges"} :
                   o.list = "namespaces" /\ ~Covered(scanWorld, list, o.ns) => Governance(o) \in scanTrue
             /\ o.list = "namespaces" /\ ~Covered(scanWorld, "networkPolicies", o.ns)
                   => Policies(o) \in scanTrue
             /\ NeedsBudget(o) /\ ~Covered(scanWorld, "pdbs", o.ns) => Budget(o) \in scanTrue
  <2>1. o \in ScanObjects
    BY <1>2 DEF ScanHistoryInv
  <2>2. \A rule \in JointFaults(scanWorld, o) : NewClusterFinding(o, rule) \in scanTrue
    BY <1>2, <1>9, JudgeFinds DEF ScanHistoryInv
  <2>. QED
    BY <2>1, <2>2, JointParts DEF Governance, Policies, Budget
<1>10. ASSUME NEW o \in scanSeen', o.list = "namespaces", Judged(o)
       PROVE  /\ \A list \in {"quotas", "limitRanges"} :
                    list \in ReadBefore(n + 1) /\ ~Covered(scanSeen', list, o.ns)
                        => Governance(o) \in scanTrue
              /\ "networkPolicies" \in ReadBefore(n + 1)
                    /\ ~Covered(scanSeen', "networkPolicies", o.ns) => Policies(o) \in scanTrue
  <2>1. CASE o \notin scanSeen
    <3>1. read = "namespaces"
      BY <1>2, <1>10, <2>1
    <3>. QED
      BY <1>4, <3>1
  <2>2. CASE o \in scanSeen
    <3>1. o \in scanWorld \/ (Governance(o) \in scanTrue /\ Policies(o) \in scanTrue)
      BY <1>2, <1>10, <2>2 DEF NamespacesGo
    <3>2. ASSUME NEW list \in {"quotas", "limitRanges"}, list \in ReadBefore(n + 1),
                 ~Covered(scanSeen', list, o.ns)
          PROVE  Governance(o) \in scanTrue
      <4>1. CASE list = read
        BY <1>8, <1>9, <1>10, <3>1, <3>2, <4>1
      <4>2. CASE list # read
        BY <1>1, <1>2, <1>3, <1>8, <1>10, <2>2, <3>2, <4>2 DEF MissingIsTrue
      <4>. QED
        BY <4>1, <4>2
    <3>3. ASSUME "networkPolicies" \in ReadBefore(n + 1), ~Covered(scanSeen', "networkPolicies", o.ns)
          PROVE  Policies(o) \in scanTrue
      <4>1. CASE "networkPolicies" = read
        BY <1>8, <1>9, <1>10, <3>1, <3>3, <4>1
      <4>2. CASE "networkPolicies" # read
        BY <1>1, <1>2, <1>3, <1>8, <1>10, <2>2, <3>3, <4>2 DEF MissingIsTrue
      <4>. QED
        BY <4>1, <4>2
    <3>. QED
      BY <3>2, <3>3
  <2>. QED
    BY <2>1, <2>2
<1>11. ASSUME NEW o \in scanSeen' \cap scanAlways, NeedsBudget(o), Judged(o),
              "pdbs" \in ReadBefore(n + 1), ~Covered(scanSeen', "pdbs", o.ns)
       PROVE  Budget(o) \in scanTrue
  <2>1. CASE o \notin scanSeen
    <3>1. read \in WorkloadLists
      BY <1>2, <1>11, <2>1 DEF NeedsBudget
    <3>. QED
      BY <1>4, <1>11, <3>1
  <2>2. CASE o \in scanSeen /\ "pdbs" = read
    <3>1. o \in scanWorld /\ ~Covered(scanWorld, "pdbs", o.ns)
      BY <1>2, <1>8, <1>11, <2>2 DEF ScanHistoryInv
    <3>. QED
      BY <1>9, <1>11, <3>1
  <2>3. CASE o \in scanSeen /\ "pdbs" # read
    BY <1>1, <1>2, <1>3, <1>8, <1>11, <2>3 DEF MissingIsTrue
  <2>. QED
    BY <2>1, <2>2, <2>3
<1>12. MissingIsTrue'
  BY <1>2, <1>10, <1>11 DEF MissingIsTrue
<1>. QED
  BY <1>1, <1>2, <1>5, <1>6, <1>7, <1>12, ScanListsLength DEF ScanIInv

\* The world changes: what the histories say stays true of every moment.
LEMMA ScanChanges ==
  ASSUME ScanIInv, NEW x \in ScanObjects, ScanChange(x)
  PROVE  ScanIInv'
<1>. DEFINE world == scanWorld'
<1>1. /\ scanNext' = scanNext /\ scanSeen' = scanSeen /\ scanResult' = "none" /\ scanResult = "none"
      /\ scanFindings' = scanFindings
      /\ scanAlways' = scanAlways \cap world /\ scanEver' = scanEver \cup world
      /\ scanHeld' = scanHeld \cap Judge(world) /\ scanTrue' = scanTrue \cup Judge(world)
      /\ Consistent(world) /\ scanNext > 0 /\ scanNext \in Nat
      /\ \/ x \in scanWorld /\ world = scanWorld \ {x}
         \/ x \notin scanWorld /\ world = scanWorld \cup {x}
      /\ ScanHistoryInv /\ ScanSeenInv /\ NamespacesGo /\ MissingIsTrue
  BY DEF ScanChange, Scanning, ScanIInv
<1>2. world \subseteq ScanObjects
  BY <1>1 DEF ScanHistoryInv
<1>. HIDE DEF world
<1>3. ASSUME NEW f \in scanHeld'
      PROVE  HeldFor(f)'
  <2>1. HeldFor(f) /\ f \in Judge(world)
    BY <1>1, <1>3 DEF ScanHistoryInv
  <2>2. PICK o \in world : /\ Judged(o)
                           /\ \E rule \in o.faults \cup JointFaults(world, o) :
                                  f = NewClusterFinding(o, rule)
    BY <2>1, JudgeFinds
  <2>3. PICK rule \in o.faults \cup JointFaults(world, o) : f = NewClusterFinding(o, rule)
    BY <2>2
  <2>4. f.object = o /\ f.rule = rule /\ o \in ScanObjects
    BY <1>2, <2>3, FindingParts
  <2>5. \A list, ns : ~Covered(scanEver, list, ns) /\ ~Covered(world, list, ns)
                          => ~Covered(scanEver', list, ns)
    BY <1>1 DEF Covered
  <2>6. o.faults \cap JointRules = {}
    BY <2>4, ScanAssumption
  <2>7. o \in scanAlways'
    BY <1>1, <2>1, <2>4 DEF HeldFor
  <2>8. CASE rule \in o.faults
    BY <2>2, <2>3, <2>4, <2>7, <2>8 DEF HeldFor
  <2>9. CASE rule \in JointFaults(world, o)
    <3>1. /\ rule = "namespaceGovernance" => o.list = "namespaces"
          /\ rule = "networkPolicyMissing" =>
               o.list = "namespaces" /\ ~Covered(world, "networkPolicies", o.ns)
          /\ rule = "workloadPDB" => NeedsBudget(o) /\ ~Covered(world, "pdbs", o.ns)
          /\ rule \in JointRules
      BY <2>4, <2>9, JointParts DEF JointRules
    <3>2. /\ rule = "networkPolicyMissing" => ~Covered(scanEver, "networkPolicies", o.ns)
          /\ rule = "workloadPDB" => ~Covered(scanEver, "pdbs", o.ns)
      BY <2>1, <2>4, <2>6, <3>1 DEF HeldFor
    <3>3. /\ rule = "networkPolicyMissing" => ~Covered(scanEver', "networkPolicies", o.ns)
          /\ rule = "workloadPDB" => ~Covered(scanEver', "pdbs", o.ns)
      BY <2>5, <3>1, <3>2
    <3>. QED
      BY <2>2, <2>3, <2>4, <2>7, <3>1, <3>3 DEF HeldFor, JointRules
  <2>. QED
    BY <2>8, <2>9
<1>4. ASSUME NEW o \in scanEver', Judged(o), NEW rule \in o.faults
      PROVE  NewClusterFinding(o, rule) \in scanTrue'
  <2>1. CASE o \in scanEver
    BY <1>1, <1>4, <2>1 DEF ScanHistoryInv
  <2>2. CASE o \in world
    <3>1. NewClusterFinding(o, rule) \in Judge(world)
      BY <1>4, <2>2, JudgeFinds
    <3>. QED
      BY <1>1, <3>1
  <2>. QED
    BY <1>1, <2>1, <2>2
<1>5. ScanHistoryInv'
  <2>1. /\ scanAlways' \subseteq world /\ world \subseteq scanEver' /\ scanEver' \subseteq ScanObjects
        /\ Judge(world) \subseteq scanTrue'
    BY <1>1, <1>2 DEF ScanHistoryInv
  <2>. QED
    BY <1>3, <1>4, <2>1 DEF ScanHistoryInv, world
<1>6. ScanSeenInv'
  BY <1>1 DEF ScanSeenInv
<1>7. NamespacesGo'
  <2>. SUFFICES ASSUME NEW o \in scanSeen, o.list = "namespaces", Judged(o), o \notin world
                PROVE  Governance(o) \in scanTrue /\ Policies(o) \in scanTrue
    BY <1>1 DEF NamespacesGo, world
  <2>1. CASE o \notin scanWorld
    BY <1>1, <2>1 DEF NamespacesGo
  <2>2. CASE o \in scanWorld
    <3>1. x = o /\ world = scanWorld \ {o} /\ o \in ScanObjects
      BY <1>1, <2>2
    <3>2. ASSUME NEW list \in {"quotas", "limitRanges", "networkPolicies"},
                 NEW q \in scanWorld, q.list = list, q.ns = o.ns
          PROVE  FALSE
      <4>1. q # o /\ q \in world
        BY <3>1, <3>2
      <4>2. q.ns # ClusterScope
        BY <3>1, <3>2, ScanAssumption
      <4>3. PICK m \in world : m.list = "namespaces" /\ m.ns = q.ns
        BY <1>1, <4>1, <4>2 DEF Consistent
      <4>4. m \in ScanObjects /\ m = o
        BY <1>2, <3>1, <3>2, <4>3, ScanAssumption
      <4>. QED
        BY <3>1, <4>3, <4>4
    <3>3. "namespaceGovernance" \in JointFaults(scanWorld, o)
          /\ "networkPolicyMissing" \in JointFaults(scanWorld, o)
      BY <3>1, <3>2, JointParts DEF Covered
    <3>4. Governance(o) \in Judge(scanWorld) /\ Policies(o) \in Judge(scanWorld)
      BY <2>2, <3>3, JudgeFinds DEF Governance, Policies
    <3>. QED
      BY <1>1, <3>4 DEF ScanHistoryInv
  <2>. QED
    BY <2>1, <2>2
<1>8. MissingIsTrue'
  BY <1>1 DEF MissingIsTrue
<1>. QED
  BY <1>1, <1>2, <1>5, <1>6, <1>7, <1>8 DEF ScanIInv, world

LEMMA ScanStep ==
    ASSUME ScanIInv, [ScanNextStep]_<<scanVars, plannerVars>>
    PROVE  ScanIInv'
<1>1. ASSUME UNCHANGED <<scanWorld, scanNext, scanSeen, scanHistory>>,
             scanResult' = "done" => scanNext > Len(ScanLists) /\ scanFindings' = Judge(scanSeen),
             scanNext = 0 => scanResult' = "none"
      PROVE  ScanIInv'
  <2>1. UNCHANGED <<scanWorld, scanNext, scanSeen, scanAlways, scanEver, scanHeld, scanTrue>>
    BY <1>1 DEF scanHistory
  <2>2. scanNext > 0 => ScanHistoryInv' /\ ScanSeenInv' /\ NamespacesGo' /\ MissingIsTrue'
    <3>. SUFFICES ASSUME scanNext > 0 PROVE ScanHistoryInv' /\ ScanSeenInv' /\ NamespacesGo' /\ MissingIsTrue'
      OBVIOUS
    <3>1. ScanHistoryInv /\ ScanSeenInv /\ NamespacesGo /\ MissingIsTrue
      BY DEF ScanIInv
    <3>2. ScanHistoryInv'
      BY <2>1, <3>1 DEF ScanHistoryInv, HeldFor
    <3>3. ScanSeenInv' /\ NamespacesGo' /\ MissingIsTrue'
      BY <2>1, <3>1 DEF ScanSeenInv, NamespacesGo, MissingIsTrue
    <3>. QED
      BY <3>2, <3>3
  <2>. QED
    BY <1>1, <2>1, <2>2 DEF ScanIInv
<1>2. CASE UNCHANGED <<scanVars, plannerVars>>
  BY <1>1, <1>2 DEF scanVars, ScanIInv
<1>3. CASE ScanStart
  BY <1>3, ScanBegins
<1>4. CASE ScanList
  BY <1>4, ScanReads
<1>5. CASE ScanFail
  BY <1>1, <1>5 DEF ScanFail, Scanning
<1>6. CASE ScanFinish
  BY <1>1, <1>6 DEF ScanFinish, Scanning
<1>7. ASSUME NEW o \in ScanObjects, ScanChange(o) PROVE ScanIInv'
  BY <1>7, ScanChanges
<1>8. ASSUME NEW f \in scanFindings, ScanPlan(f) PROVE ScanIInv'
  BY <1>1, <1>8 DEF ScanPlan, scanVars, ScanIInv
<1>. QED
  BY <1>2, <1>3, <1>4, <1>5, <1>6, <1>7, <1>8 DEF ScanNextStep

LEMMA ScanVerdict ==
  ASSUME ScanIInv, scanResult = "done"
  PROVE  /\ \A f \in scanHeld \ scanFindings :
              /\ f.rule = "namespaceGovernance"
              /\ \A list \in {"quotas", "limitRanges"} : Covered(scanEver, list, f.object.ns)
         /\ \A f \in scanFindings \ scanTrue :
              f.rule = "workloadPDB" /\ f.object \in scanEver \ scanAlways
<1>1. /\ scanNext \in Nat /\ scanNext > 22 /\ scanFindings = Judge(scanSeen)
      /\ ScanHistoryInv /\ ScanSeenInv /\ MissingIsTrue
  BY ScanListsLength DEF ScanIInv
<1>2. \A i \in DOMAIN ScanLists : ScanLists[i] \in ReadBefore(scanNext)
  BY <1>1, ScanListsLength DEF ReadBefore
<1>3. scanAlways \subseteq scanSeen
  BY <1>1, <1>2, ScanAssumption DEF ScanSeenInv, ScanHistoryInv
<1>4. \A list \in {"quotas", "limitRanges", "networkPolicies", "pdbs"} : list \in ReadBefore(scanNext)
  <2>1. /\ ScanLists[7] = "quotas" /\ ScanLists[8] = "limitRanges" /\ ScanLists[16] = "networkPolicies"
        /\ ScanLists[17] = "pdbs" /\ {7, 8, 16, 17} \subseteq DOMAIN ScanLists
    BY ScanListsLength DEF ScanLists
  <2>. QED
    BY <1>2, <2>1
<1>5. \A list, ns : ~Covered(scanEver, list, ns) => ~Covered(scanSeen, list, ns)
  BY <1>1 DEF ScanSeenInv, Covered
<1>6. ASSUME NEW f \in scanHeld, f \notin scanFindings
      PROVE  /\ f.rule = "namespaceGovernance"
             /\ \A list \in {"quotas", "limitRanges"} : Covered(scanEver, list, f.object.ns)
  <2>. PICK o : o = f.object
    OBVIOUS
  <2>1. HeldFor(f) /\ o \in scanSeen /\ o \in ScanObjects
    BY <1>1, <1>3, <1>6 DEF ScanHistoryInv, HeldFor
  <2>2. Judged(o) /\ f = NewClusterFinding(o, f.rule)
    BY <2>1 DEF HeldFor
  <2>3. f.rule \notin o.faults /\ f.rule \notin JointFaults(scanSeen, o)
    BY <1>1, <1>6, <2>1, <2>2, JudgeFinds
  <2>4. f.rule = "namespaceGovernance" /\ o.list = "namespaces"
    BY <1>5, <2>1, <2>3, JointParts DEF HeldFor
  <2>5. Covered(scanSeen, "quotas", o.ns) /\ Covered(scanSeen, "limitRanges", o.ns)
    BY <2>1, <2>3, <2>4, JointParts
  <2>. QED
    BY <1>5, <2>4, <2>5
<1>7. ASSUME NEW f \in scanFindings, f \notin scanTrue
      PROVE  f.rule = "workloadPDB" /\ f.object \in scanEver \ scanAlways
  <2>1. PICK o \in scanSeen : /\ Judged(o)
                              /\ \E rule \in o.faults \cup JointFaults(scanSeen, o) :
                                     f = NewClusterFinding(o, rule)
    BY <1>1, <1>7, JudgeFinds
  <2>2. PICK rule \in o.faults \cup JointFaults(scanSeen, o) : f = NewClusterFinding(o, rule)
    BY <2>1
  <2>3. f.object = o /\ f.rule = rule /\ o \in scanEver /\ o \in ScanObjects
    BY <1>1, <2>2, FindingParts DEF ScanSeenInv, ScanHistoryInv
  <2>4. rule \notin o.faults
    BY <1>1, <1>7, <2>1, <2>2, <2>3 DEF ScanHistoryInv
  <2>5. \/ /\ rule = "namespaceGovernance" /\ o.list = "namespaces"
           /\ ~(Covered(scanSeen, "quotas", o.ns) /\ Covered(scanSeen, "limitRanges", o.ns))
        \/ /\ rule = "networkPolicyMissing" /\ o.list = "namespaces"
           /\ ~Covered(scanSeen, "networkPolicies", o.ns)
        \/ /\ rule = "workloadPDB" /\ NeedsBudget(o)
           /\ ~Covered(scanSeen, "pdbs", o.ns)
    BY <2>2, <2>3, <2>4, JointParts
  <2>6. rule # "namespaceGovernance"
    BY <1>1, <1>4, <1>7, <2>1, <2>2, <2>5 DEF MissingIsTrue, Governance
  <2>7. rule # "networkPolicyMissing"
    BY <1>1, <1>4, <1>7, <2>1, <2>2, <2>5 DEF MissingIsTrue, Policies
  <2>8. o \notin scanAlways
    BY <1>1, <1>4, <1>7, <2>1, <2>2, <2>5, <2>6, <2>7 DEF MissingIsTrue, Budget
  <2>. QED
    BY <2>3, <2>5, <2>6, <2>7, <2>8
<1>. QED
  BY <1>6, <1>7

\* A scan that ends reports what was true at every moment of it, and nothing that was
\* true at no moment, although each list is of another moment (Snapshot,
\* scanFindings): for any objects that come and go.  The two exceptions are those of
\* the property: governance objects that take turns, and a workload that goes away
\* before its budget does.
THEOREM ScansAreFair == ScanSpec => []ScanJudgesItsMoments
<1>1. ScanIInv => ScanJudgesItsMoments
  BY ScanVerdict DEF ScanJudgesItsMoments
<1>. QED
  BY <1>1, ScanStartInv, ScanStep, PTL DEF ScanSpec

-----------------------------------------------------------------------------
(* Sorting, for the list and for the planner *)

\* Induction over the size of a set: there is a smallest one without what is
\* claimed, so that a set with one element less has it.
Sizes(T) == {n \in Nat : \E S \in T : Cardinality(S) = n}

LEMMA SmallestSet ==
    ASSUME NEW U, IsFiniteSet(U), NEW T, T \subseteq SUBSET U, T # {}
    PROVE  \E S \in T : \A R \in T : Cardinality(S) <= Cardinality(R)
<1>1. \A S \in SUBSET U : IsFiniteSet(S) /\ Cardinality(S) \in Nat
  BY FS_Subset, FS_CardinalityType
<1>2. Sizes(T) \subseteq Nat /\ Sizes(T) # {}
  BY <1>1 DEF Sizes
<1>3. PICK n \in Sizes(T) : \A m \in Sizes(T) : ~(<<m, n>> \in OpToRel(<, Nat))
  BY <1>2, WFMin, NatLessThanWellFounded
<1>4. PICK S \in T : Cardinality(S) = n
  BY <1>3 DEF Sizes
<1>5. ASSUME NEW R \in T PROVE Cardinality(S) <= Cardinality(R)
  <2>1. Cardinality(R) \in Sizes(T) /\ Cardinality(R) \in Nat /\ n \in Nat
    BY <1>1, <1>2, <1>3 DEF Sizes
  <2>2. ~(Cardinality(R) < n)
    BY <1>3, <2>1 DEF OpToRel
  <2>. QED
    BY <1>4, <2>1, <2>2
<1>. QED
  BY <1>5

\* before, a set of pairs, orders the elements of U.
Orders(before, U) ==
    /\ \A f, g \in U : f = g \/ <<f, g>> \in before \/ <<g, f>> \in before
    /\ \A f, g, h \in U : <<f, g>> \in before /\ <<g, h>> \in before => <<f, h>> \in before

Greatest(g, S, before) == g \in S /\ \A f \in S : f = g \/ <<f, g>> \in before

SortedBy(s, S, before) ==
    /\ \A i, j \in DOMAIN s : i < j => <<s[i], s[j]>> \in before
    /\ \A f \in S : \E i \in DOMAIN s : s[i] = f

LEMMA GreatestExists ==
    ASSUME NEW U, IsFiniteSet(U), NEW before, Orders(before, U), NEW S \in SUBSET U, S # {}
    PROVE  \E g : Greatest(g, S, before)
<1>. DEFINE T == {R \in SUBSET U : R # {} /\ ~\E g : Greatest(g, R, before)}
<1>. SUFFICES ASSUME T # {} PROVE FALSE
  OBVIOUS
<1>1. PICK R \in T : \A Q \in T : Cardinality(R) <= Cardinality(Q)
  BY SmallestSet
<1>2. PICK x \in R : x \in U
  OBVIOUS
<1>3. IsFiniteSet(R) /\ Cardinality(R) \in Nat
  BY FS_Subset, FS_CardinalityType
<1>4. Cardinality(R \ {x}) = Cardinality(R) - 1
  BY <1>2, <1>3, FS_RemoveElement
<1>5. R \ {x} \notin T
  BY <1>1, <1>3, <1>4
<1>6. CASE R \ {x} = {}
  <2>1. Greatest(x, R, before)
    BY <1>2, <1>6 DEF Greatest
  <2>. QED
    BY <2>1
<1>7. CASE R \ {x} # {}
  <2>1. PICK g : Greatest(g, R \ {x}, before)
    BY <1>5, <1>7
  <2>2. g \in U
    BY <2>1 DEF Greatest
  <2>3. CASE <<x, g>> \in before
    <3>1. Greatest(g, R, before)
      BY <2>1, <2>3 DEF Greatest
    <3>. QED
      BY <3>1
  <2>4. CASE <<g, x>> \in before
    <3>1. Greatest(x, R, before)
      <4>1. ASSUME NEW f \in R, f # x PROVE <<f, x>> \in before
        <5>1. f \in U /\ (f = g \/ <<f, g>> \in before)
          BY <2>1, <4>1 DEF Greatest
        <5>. QED
          BY <1>2, <2>2, <2>4, <5>1 DEF Orders
      <4>. QED
        BY <1>2, <4>1 DEF Greatest
    <3>. QED
      BY <3>1
  <2>. QED
    BY <1>2, <2>1, <2>2, <2>3, <2>4 DEF Greatest, Orders
<1>. QED
  BY <1>6, <1>7

\* Every finite set can be sorted.
LEMMA Sortable ==
    ASSUME NEW U, IsFiniteSet(U), NEW before, Orders(before, U), NEW S \in SUBSET U
    PROVE  \E s \in [1 .. Cardinality(S) -> S] : SortedBy(s, S, before)
<1>. DEFINE T == {R \in SUBSET U : ~\E s \in [1 .. Cardinality(R) -> R] : SortedBy(s, R, before)}
<1>. SUFFICES ASSUME T # {} PROVE FALSE
  OBVIOUS
<1>1. PICK R \in T : \A Q \in T : Cardinality(R) <= Cardinality(Q)
  BY SmallestSet
<1>2. IsFiniteSet(R) /\ Cardinality(R) \in Nat
  BY FS_Subset, FS_CardinalityType
<1>3. PICK n \in Nat : n = Cardinality(R)
  BY <1>2
<1>4. CASE R = {}
  <2>1. n = 0
    BY <1>2, <1>3, <1>4, FS_EmptySet
  <2>. DEFINE none == [i \in 1 .. n |-> 0]
  <2>2. 1 .. n = {}
    BY <2>1
  <2>3. none \in [1 .. n -> R] /\ DOMAIN none = {}
    BY <2>2
  <2>. HIDE DEF none
  <2>4. SortedBy(none, R, before)
    BY <1>4, <2>3 DEF SortedBy
  <2>. QED
    BY <1>3, <2>3, <2>4
<1>5. CASE R # {}
  <2>1. PICK g : Greatest(g, R, before)
    BY <1>5, GreatestExists
  <2>2. g \in R
    BY <2>1 DEF Greatest
  <2>3. Cardinality(R \ {g}) = n - 1
    BY <1>2, <1>3, <2>2, FS_RemoveElement
  <2>4. R \ {g} \notin T
    <3>1. R \ {g} \in T => n <= n - 1
      BY <1>1, <1>3, <2>3
    <3>. HIDE DEF T
    <3>. QED
      BY <3>1
  <2>5. PICK s \in [1 .. n - 1 -> R \ {g}] : SortedBy(s, R \ {g}, before)
    BY <2>3, <2>4
  <2>6. n >= 1
    <3>1. n # 0
      BY <1>2, <1>3, <1>5, FS_EmptySet
    <3>. QED
      BY <3>1
  <2>. DEFINE t == [i \in 1 .. n |-> IF i = n THEN g ELSE s[i]]
  <2>7. \A i \in 1 .. n : i # n => i \in 1 .. n - 1
    BY <2>6
  <2>8. t[n] = g /\ \A i \in 1 .. n - 1 : t[i] = s[i] /\ i \in 1 .. n
    BY <2>6
  <2>9. t \in [1 .. n -> R]
    BY <2>2, <2>5, <2>7
  <2>. HIDE DEF t
  <2>10. DOMAIN t = 1 .. n /\ DOMAIN s = 1 .. n - 1 /\ \A i \in 1 .. n - 1 : s[i] \in R \ {g}
    BY <2>5, <2>9
  <2>11. ASSUME NEW i \in 1 .. n, NEW j \in 1 .. n, i < j PROVE <<t[i], t[j]>> \in before
    <3>1. i \in 1 .. n - 1 /\ t[i] = s[i] /\ s[i] \in R \ {g}
      BY <2>8, <2>10, <2>11
    <3>2. CASE j = n
      BY <2>1, <2>8, <3>1, <3>2 DEF Greatest
    <3>3. CASE j # n
      <4>1. j \in 1 .. n - 1 /\ t[j] = s[j]
        BY <2>7, <2>8, <3>3
      <4>. QED
        BY <2>5, <2>10, <2>11, <3>1, <4>1 DEF SortedBy
    <3>. QED
      BY <3>2, <3>3
  <2>12. ASSUME NEW f \in R PROVE \E i \in 1 .. n : t[i] = f
    <3>1. CASE f = g
      BY <2>6, <2>8, <3>1
    <3>2. CASE f # g
      <4>1. PICK i \in 1 .. n - 1 : s[i] = f
        BY <2>5, <2>10, <3>2 DEF SortedBy
      <4>. QED
        BY <2>8, <4>1
    <3>. QED
      BY <3>1, <3>2
  <2>13. SortedBy(t, R, before)
    BY <2>10, <2>11, <2>12 DEF SortedBy
  <2>. QED
    BY <1>3, <2>9, <2>13
<1>. QED
  BY <1>4, <1>5

-----------------------------------------------------------------------------
(* The walk through the findings *)

SortFields == [ListIds -> Int]

LEMMA BeforeIsTotal ==
    ASSUME NEW keys \in SortFields, NEW f \in ListIds, NEW g \in ListIds
    PROVE  /\ f = g \/ ListBefore(keys, f, g) \/ ListBefore(keys, g, f)
           /\ ListBefore(keys, f, g) => f # g /\ ~ListBefore(keys, g, f)
           /\ \A h \in ListIds :
                ListBefore(keys, f, g) /\ ListBefore(keys, g, h) => ListBefore(keys, f, h)
<1>1. \A h \in ListIds : h \in Nat /\ keys[h] \in Int
  BY ListAssumption DEF SortFields
<1>2. PICK p \in Int, q \in Int : p = keys[f] /\ q = keys[g]
  BY <1>1
<1>3. f \in Nat /\ g \in Nat
  BY <1>1
<1>4. /\ f = g \/ ListBefore(keys, f, g) \/ ListBefore(keys, g, f)
      /\ ListBefore(keys, f, g) => f # g /\ ~ListBefore(keys, g, f)
  BY <1>2, <1>3 DEF ListBefore
<1>5. ASSUME NEW h \in ListIds, ListBefore(keys, f, g), ListBefore(keys, g, h)
      PROVE  ListBefore(keys, f, h)
  <2>1. PICK r \in Int : r = keys[h] /\ h \in Nat
    BY <1>1
  <2>2. (p < q \/ (p = q /\ f < g)) /\ (q < r \/ (q = r /\ g < h))
    BY <1>2, <1>5, <2>1 DEF ListBefore
  <2>3. p < r \/ (p = r /\ f < h)
    BY <1>3, <2>1, <2>2
  <2>. QED
    BY <1>2, <2>1, <2>3 DEF ListBefore
<1>. QED
  BY <1>4, <1>5

\* Every set of findings can be sorted, so SortFindings does.
LEMMA FindingsSortable ==
    ASSUME NEW keys \in SortFields, NEW S \in SUBSET ListIds
    PROVE  \E s \in [1 .. Cardinality(S) -> S] : Ascending(keys, s, S)
<1>. DEFINE before == {p \in ListIds \X ListIds : ListBefore(keys, p[1], p[2])}
<1>1. \A f, g \in ListIds : <<f, g>> \in before <=> ListBefore(keys, f, g)
  OBVIOUS
<1>. HIDE DEF before
<1>2. Orders(before, ListIds)
  BY <1>1, BeforeIsTotal DEF Orders
<1>3. PICK s \in [1 .. Cardinality(S) -> S] : SortedBy(s, S, before)
  BY <1>2, ListAssumption, Sortable
<1>4. \A i \in DOMAIN s : s[i] \in ListIds
  OBVIOUS
<1>5. Ascending(keys, s, S)
  BY <1>1, <1>3, <1>4 DEF Ascending, SortedBy
<1>. QED
  BY <1>5

LEMMA SortedFindings ==
    ASSUME NEW keys \in SortFields, NEW S \in SUBSET ListIds
    PROVE  \E n \in Nat : /\ SortFindings(keys, S) \in [1 .. n -> S]
                          /\ Len(SortFindings(keys, S)) = n
                          /\ Ascending(keys, SortFindings(keys, S), S)
<1>1. PICK n \in Nat : n = Cardinality(S)
  BY ListAssumption, FS_Subset, FS_CardinalityType
<1>2. SortFindings(keys, S) \in [1 .. n -> S] /\ Ascending(keys, SortFindings(keys, S), S)
  BY <1>1, FindingsSortable DEF SortFindings
<1>3. Len(SortFindings(keys, S)) = n
  BY <1>2
<1>. QED
  BY <1>2, <1>3

NotAfter(keys, f, g) == f = g \/ ListBefore(keys, f, g)
Returned(f) == \E i \in 1 .. Len(listReturned) : listReturned[i] = f

\* Of the findings that did not move, the walk has returned none twice and none that is
\* behind the cursor, and all that were in every result and are not behind it.
WalkedInv ==
    /\ \A i, j \in 1 .. Len(listReturned) :
         listReturned[i] = listReturned[j] => i = j \/ listReturned[i] \in listMoved
    /\ listState = "walking" /\ listCursor # 0 =>
         \A f \in ListIds \ listMoved :
            /\ Returned(f) => NotAfter(listKeys, f, listCursor)
            /\ f \in listAlways /\ NotAfter(listKeys, f, listCursor) => Returned(f)
    /\ listState = "ended" => \A f \in listAlways \ listMoved : Returned(f)

WalkIInv ==
    /\ listState \in {"walking", "ended", "failed"}
    /\ listAlways \subseteq ListIds
    /\ listReturned \in Seq(ListIds)
    /\ listKeys \in SortFields
    /\ listCursor \in ListIds \cup {0}
    /\ listState = "walking" /\ listCursor = 0 => listReturned = <<>>
    /\ listSteady \in BOOLEAN
    /\ listSteady => WalkedInv

LEMMA WalkStart == ListInit => WalkIInv
  BY DEF ListInit, WalkIInv, WalkedInv, Returned, SortFields

LEMMA PageStep ==
    ASSUME WalkIInv, NEW limit \in ListLimits, NEW live \in BOOLEAN, NEW crd \in BOOLEAN,
           NEW kept, NEW keys \in [ListIds -> ListFields], ListPage(limit, live, crd, kept, keys)
    PROVE  WalkIInv'
<1>. DEFINE found == Authorized({f \in ListIds : LastCopy(copies[f], live, crd) = "match"})
            findings == SortFindings(keys, found)
            first == CursorStart(findings, listCursor)
            last == IF first + limit < Len(findings) THEN first + limit ELSE Len(findings)
            moved == IF listCursor = 0 THEN {} ELSE {f \in ListIds : keys[f] # listKeys[f]}
<1>1. found \in SUBSET ListIds /\ keys \in SortFields
  BY ListAssumption DEF Authorized, SortFields
<1>2. /\ listState = "walking" /\ listAlways' = listAlways \cap found
      /\ listReturned' = IF first < 0 THEN listReturned
                         ELSE listReturned \o SubSeq(findings, first + 1, last)
      /\ listState' = IF first < 0 THEN "failed"
                      ELSE IF last < Len(findings) THEN "walking" ELSE "ended"
      /\ listCursor' = IF listState' = "walking" THEN findings[last] ELSE listCursor
      /\ listKeys' = keys /\ listMoved' = listMoved \cup moved
      /\ listSteady' = (listSteady /\ listCursor \notin moved)
  BY DEF ListPage
<1>. HIDE DEF found, moved
<1>3. PICK n \in Nat : /\ findings \in [1 .. n -> found] /\ Len(findings) = n
                       /\ Ascending(keys, findings, found)
  BY <1>1, SortedFindings
<1>4. limit \in Nat /\ limit >= 1
  BY ListAssumption
<1>5. PICK s : s = findings
  OBVIOUS
<1>6. /\ s \in [1 .. n -> ListIds] /\ DOMAIN s = 1 .. n /\ s \in Seq(ListIds) /\ Len(s) = n
      /\ \A i, j \in 1 .. n : i < j => ListBefore(keys, s[i], s[j])
      /\ \A f \in found : \E i \in 1 .. n : s[i] = f
  BY <1>1, <1>3, <1>5 DEF Ascending
<1>7. PICK m \in Nat : m = Len(listReturned) /\ listReturned \in Seq(ListIds)
  BY DEF WalkIInv
<1>8. PICK a : a = first
  OBVIOUS
<1>9. /\ listCursor = 0 => a = 0
      /\ listCursor # 0 /\ a # -1 => a \in 1 .. n /\ s[a] = listCursor
      /\ (listCursor # 0 /\ a = -1) \/ (a \in Nat /\ a <= n)
  <2>. DEFINE at == {i \in DOMAIN s : s[i] = listCursor}
  <2>1. a = IF listCursor = 0 THEN 0 ELSE IF at = {} THEN -1 ELSE CHOOSE i \in at : TRUE
    BY <1>5, <1>8 DEF CursorStart
  <2>2. at # {} => (CHOOSE i \in at : TRUE) \in at
    OBVIOUS
  <2>3. at \subseteq 1 .. n
    BY <1>6
  <2>. QED
    BY <2>1, <2>2, <2>3
<1>10. listSteady' =>
          /\ listSteady /\ WalkedInv
          /\ listCursor # 0 => \A f \in ListIds \ listMoved' :
               NotAfter(keys, f, listCursor) <=> NotAfter(listKeys, f, listCursor)
  BY <1>2 DEF WalkIInv, NotAfter, ListBefore, moved
<1>11. listMoved \subseteq listMoved'
  BY <1>2
<1>12. CASE a = -1
  <2>1. listState' = "failed" /\ listReturned' = listReturned /\ listCursor' = listCursor
    BY <1>2, <1>8, <1>12
  <2>2. listSteady' => WalkedInv'
    BY <1>10, <1>11, <2>1 DEF WalkedInv
  <2>3. listSteady' \in BOOLEAN /\ listAlways' \subseteq ListIds
    BY <1>2 DEF WalkIInv
  <2>. QED
    BY <1>1, <1>2, <2>1, <2>2, <2>3 DEF WalkIInv
<1>13. CASE a # -1
  <2>1. PICK e : e = (IF a + limit < n THEN a + limit ELSE n) /\ e \in Nat /\ a <= e /\ e <= n
                 /\ (e < n => a < e) /\ a \in Nat
    BY <1>4, <1>9, <1>13
  <2>2. /\ listReturned' = listReturned \o SubSeq(s, a + 1, e)
        /\ listState' = IF e < n THEN "walking" ELSE "ended"
        /\ e < n => listCursor' = s[e]
    <3>1. last = e /\ ~(first < 0) /\ findings = s /\ Len(findings) = n /\ first = a
      BY <1>3, <1>5, <1>8, <2>1
    <3>. HIDE DEF first, last, findings
    <3>. QED
      BY <1>2, <3>1
  <2>. DEFINE page == SubSeq(s, a + 1, e)
  <2>3. /\ page \in Seq(ListIds) /\ Len(page) = e - a
        /\ \A i \in 1 .. e - a : page[i] = s[a + i]
    BY <1>6, <2>1
  <2>4. \A i \in 1 .. e - a : a + i \in 1 .. n
    BY <2>1
  <2>. HIDE DEF page
  <2>5. /\ listReturned' \in Seq(ListIds) /\ Len(listReturned') = m + (e - a)
        /\ \A i \in 1 .. m : listReturned'[i] = listReturned[i]
        /\ \A i \in 1 .. e - a : listReturned'[m + i] = page[i]
    <3>1. listReturned' = listReturned \o page
      BY <2>2 DEF page
    <3>2. PICK d \in Nat : d = e - a
      <4>1. e - a \in Nat
        BY <2>1
      <4>. QED
        BY <4>1
    <3>3. PICK r : r = listReturned'
      OBVIOUS
    <3>4. /\ r \in Seq(ListIds) /\ Len(r) = m + d
          /\ \A i \in 1 .. m : r[i] = listReturned[i]
          /\ \A i \in 1 .. d : r[m + i] = page[i]
      <4>1. page \in Seq(ListIds) /\ Len(page) = d
        BY <2>3, <3>2
      <4>2. /\ listReturned \o page \in Seq(ListIds)
            /\ Len(listReturned \o page) = Len(listReturned) + Len(page)
            /\ \A i \in 1 .. Len(listReturned) : (listReturned \o page)[i] = listReturned[i]
            /\ \A i \in 1 .. Len(page) : (listReturned \o page)[Len(listReturned) + i] = page[i]
        <5>1. listReturned \in Seq(ListIds) /\ page \in Seq(ListIds)
          BY <1>7, <4>1
        <5>. QED
          BY <5>1
      <4>. QED
        BY <1>7, <3>1, <3>3, <4>1, <4>2
    <3>. QED
      BY <3>2, <3>3, <3>4
  <2>6. \A i \in 1 .. e - a : listReturned'[m + i] = s[a + i]
    BY <2>3, <2>5
  <2>7. \A i \in 1 .. m : listReturned[i] \in ListIds
    BY <1>7
  <2>8. m > 0 => listCursor # 0 /\ a \in 1 .. n /\ s[a] = listCursor
    BY <1>2, <1>7, <1>9, <1>13 DEF WalkIInv
  <2>9. \A f : Returned(f)' <=> \/ \E i \in 1 .. m : listReturned[i] = f
                                \/ \E p \in 1 .. e - a : s[a + p] = f
    <3>. TAKE f
    <3>1. ASSUME NEW i \in 1 .. m + (e - a), listReturned'[i] = f
          PROVE  \/ \E k \in 1 .. m : listReturned[k] = f
                 \/ \E p \in 1 .. e - a : s[a + p] = f
      <4>1. CASE i <= m
        <5>1. i \in 1 .. m
          BY <1>7, <3>1, <4>1
        <5>. QED
          BY <2>5, <3>1, <5>1
      <4>2. CASE i > m
        <5>1. i - m \in 1 .. e - a /\ i = m + (i - m)
          BY <1>7, <2>1, <3>1, <4>2
        <5>. QED
          BY <2>6, <3>1, <5>1
      <4>. QED
        BY <1>7, <4>1, <4>2
    <3>2. ASSUME NEW k \in 1 .. m, listReturned[k] = f
          PROVE  \E i \in 1 .. m + (e - a) : listReturned'[i] = f
      <4>1. k \in 1 .. m + (e - a)
        BY <1>7, <2>1, <3>2
      <4>. QED
        BY <2>5, <3>2, <4>1
    <3>3. ASSUME NEW p \in 1 .. e - a, s[a + p] = f
          PROVE  \E i \in 1 .. m + (e - a) : listReturned'[i] = f
      <4>1. m + p \in 1 .. m + (e - a)
        BY <1>7, <2>1, <3>3
      <4>. QED
        BY <2>6, <3>3, <4>1
    <3>4. Returned(f)' <=> \E i \in 1 .. m + (e - a) : listReturned'[i] = f
      BY <2>5 DEF Returned
    <3>. QED
      BY <3>1, <3>2, <3>3, <3>4
  <2>10. ASSUME listSteady', NEW i \in 1 .. m, listReturned[i] \notin listMoved'
         PROVE  /\ NotAfter(keys, listReturned[i], s[a]) /\ m > 0 /\ a \in 1 .. n
                /\ listReturned[i] \in ListIds
    <3>1. m > 0 /\ listCursor # 0 /\ s[a] = listCursor /\ a \in 1 .. n /\ listReturned[i] \in ListIds
      BY <1>7, <2>7, <2>8
    <3>2. NotAfter(listKeys, listReturned[i], listCursor)
      BY <1>2, <1>7, <1>10, <1>11, <2>10, <3>1 DEF WalkedInv, Returned
    <3>. QED
      BY <1>10, <2>10, <3>1, <3>2
  <2>11. \A p \in 1 .. e - a : /\ a + p \in 1 .. n /\ s[a + p] \in ListIds
                               /\ a \in 1 .. n => ListBefore(keys, s[a], s[a + p])
    BY <1>6, <2>1, <2>4
  <2>12. ASSUME listSteady', NEW i \in 1 .. m + (e - a), NEW j \in 1 .. m + (e - a), i < j,
                listReturned'[i] = listReturned'[j], listReturned'[i] \notin listMoved'
         PROVE  FALSE
    <3>1. CASE j <= m
      <4>1. i \in 1 .. m /\ j \in 1 .. m /\ i # j
        BY <1>7, <2>12, <3>1
      <4>2. listReturned[i] = listReturned[j] /\ listReturned[i] \notin listMoved
        BY <1>11, <2>5, <2>12, <4>1
      <4>. QED
        BY <1>7, <1>10, <2>12, <4>1, <4>2 DEF WalkedInv
    <3>2. CASE i > m
      <4>1. PICK p \in 1 .. e - a, q \in 1 .. e - a : i = m + p /\ j = m + q /\ p < q
        <5>1. i - m \in 1 .. e - a /\ j - m \in 1 .. e - a /\ i = m + (i - m) /\ j = m + (j - m) /\ i - m < j - m
          BY <1>7, <2>1, <2>12, <3>2
        <5>. QED
          BY <5>1
      <4>2. listReturned'[i] = s[a + p] /\ listReturned'[j] = s[a + q] /\ a + p < a + q
            /\ a + p \in 1 .. n /\ a + q \in 1 .. n
        BY <2>1, <2>4, <2>6, <4>1
      <4>3. ListBefore(keys, s[a + p], s[a + q]) /\ s[a + p] \in ListIds /\ s[a + q] \in ListIds
        BY <1>6, <4>2
      <4>. QED
        BY <1>1, <2>12, <4>2, <4>3, BeforeIsTotal
    <3>3. CASE i <= m /\ j > m
      <4>1. PICK q \in 1 .. e - a : j = m + q
        <5>1. j - m \in 1 .. e - a /\ j = m + (j - m)
          BY <1>7, <2>1, <2>12, <3>3
        <5>. QED
          BY <5>1
      <4>2. i \in 1 .. m
        BY <1>7, <3>3
      <4>3. listReturned'[i] = listReturned[i] /\ listReturned'[j] = s[a + q]
        BY <2>5, <2>6, <4>1, <4>2
      <4>4. NotAfter(keys, s[a + q], s[a]) /\ a \in 1 .. n
        BY <2>10, <2>12, <4>2, <4>3
      <4>5. ListBefore(keys, s[a], s[a + q]) /\ s[a + q] \in ListIds /\ s[a] \in ListIds
        BY <1>6, <2>11, <4>1, <4>4
      <4>. QED
        BY <1>1, <4>4, <4>5, BeforeIsTotal DEF NotAfter
    <3>. QED
      BY <1>7, <3>1, <3>2, <3>3
  <2>13. ASSUME listSteady', NEW f \in listAlways' \ listMoved', NEW k \in 1 .. e, s[k] = f
         PROVE  Returned(f)'
    <3>0. f \in listAlways /\ f \in ListIds /\ k \in 1 .. n
      BY <1>2, <2>1, <2>13 DEF WalkIInv
    <3>1. CASE k <= a
      <4>1. listCursor # 0 /\ s[a] = listCursor /\ a \in 1 .. n
        BY <1>9, <1>13, <3>1
      <4>2. NotAfter(keys, f, listCursor)
        <5>1. k = a \/ k < a
          BY <2>1, <3>1
        <5>. QED
          BY <1>6, <2>13, <3>0, <4>1, <5>1 DEF NotAfter
      <4>3. Returned(f)
        BY <1>2, <1>10, <1>11, <2>13, <3>0, <4>1, <4>2 DEF WalkedInv
      <4>. QED
        BY <1>7, <2>9, <4>3 DEF Returned
    <3>2. CASE k > a
      <4>1. k - a \in 1 .. e - a /\ a + (k - a) = k
        BY <2>1, <3>2
      <4>. QED
        BY <2>9, <2>13, <4>1
    <3>. QED
      BY <2>1, <3>1, <3>2
  <2>14. \A f \in listAlways' : f \in ListIds /\ \E k \in 1 .. n : s[k] = f
    BY <1>1, <1>2, <1>6
  <2>15. \A i, j \in 1 .. m + (e - a) : listSteady' /\ listReturned'[i] = listReturned'[j]
            => i = j \/ listReturned'[i] \in listMoved'
    <3>. SUFFICES ASSUME NEW i \in 1 .. m + (e - a), NEW j \in 1 .. m + (e - a), listSteady',
                         listReturned'[i] = listReturned'[j], listReturned'[i] \notin listMoved', i # j
                  PROVE  FALSE
      OBVIOUS
    <3>1. i < j \/ j < i
      BY <1>7, <2>1
    <3>. QED
      BY <2>12, <3>1
  <2>16. listSteady' \in BOOLEAN /\ listAlways' \subseteq ListIds
    BY <1>2, <2>14 DEF WalkIInv
  <2>17. CASE e < n
    <3>1. /\ listState' = "walking" /\ listCursor' = s[e] /\ e \in 1 .. n /\ e > a
          /\ s[e] \in ListIds /\ s[e] # 0
      BY <1>6, <2>1, <2>2, <2>17, ListAssumption
    <3>2. ASSUME listSteady', NEW f \in ListIds \ listMoved', Returned(f)'
          PROVE  NotAfter(keys, f, s[e])
      <4>1. CASE \E i \in 1 .. m : listReturned[i] = f
        <5>1. NotAfter(keys, f, s[a]) /\ a \in 1 .. n
          BY <2>10, <3>2, <4>1
        <5>2. ListBefore(keys, s[a], s[e]) /\ s[a] \in ListIds
          BY <1>6, <3>1, <5>1
        <5>. QED
          BY <1>1, <3>1, <3>2, <5>1, <5>2, BeforeIsTotal DEF NotAfter
      <4>2. CASE \E p \in 1 .. e - a : s[a + p] = f
        <5>1. PICK p \in 1 .. e - a : s[a + p] = f
          BY <4>2
        <5>2. a + p \in 1 .. n /\ (a + p = e \/ a + p < e)
          BY <2>1, <2>4, <5>1
        <5>. QED
          BY <1>6, <3>1, <5>1, <5>2 DEF NotAfter
      <4>. QED
        BY <2>9, <3>2, <4>1, <4>2
    <3>3. ASSUME listSteady', NEW f \in listAlways' \ listMoved', NotAfter(keys, f, s[e])
          PROVE  Returned(f)'
      <4>1. PICK k \in 1 .. n : s[k] = f /\ f \in ListIds
        BY <2>14
      <4>2. k <= e
        <5>1. ~(e < k)
          BY <1>1, <1>6, <3>1, <3>3, <4>1, BeforeIsTotal DEF NotAfter
        <5>. QED
          BY <2>1, <5>1
      <4>3. k \in 1 .. e
        BY <2>1, <4>1, <4>2
      <4>. QED
        BY <2>13, <3>3, <4>1, <4>3
    <3>4. listSteady' => WalkedInv'
      BY <1>2, <2>5, <2>15, <3>1, <3>2, <3>3 DEF WalkedInv
    <3>. QED
      BY <1>1, <1>2, <2>5, <2>16, <3>1, <3>4 DEF WalkIInv
  <2>18. CASE ~(e < n)
    <3>1. listState' = "ended" /\ e = n
      BY <2>1, <2>2, <2>18
    <3>2. listSteady' => \A f \in listAlways' \ listMoved' : Returned(f)'
      BY <2>13, <2>14, <3>1
    <3>3. listSteady' => WalkedInv'
      BY <2>5, <2>15, <3>1, <3>2 DEF WalkedInv
    <3>4. listCursor' \in ListIds \cup {0}
      BY <1>2, <3>1 DEF WalkIInv
    <3>. QED
      BY <1>1, <1>2, <2>5, <2>16, <3>1, <3>3, <3>4 DEF WalkIInv
  <2>. QED
    BY <2>17, <2>18
<1>. QED
  BY <1>12, <1>13

\* A walk whose cursors keep their sort fields returns no finding twice that keeps its
\* own, and, once it ends, every such finding that was in all the results, while
\* findings come, go and move between the pages (cursorStart, sortFindings): for any
\* findings, sort fields, page sizes, callers and changes.
THEOREM WalksAreComplete == ListSpec => []WalkIsComplete
<1>1. WalkIInv /\ [ListNext]_listVars => WalkIInv'
  <2>. SUFFICES ASSUME WalkIInv, [ListNext]_listVars PROVE WalkIInv'
    OBVIOUS
  <2>1. CASE UNCHANGED listVars
    BY <2>1 DEF listVars, listHistory, WalkIInv, WalkedInv, Returned
  <2>2. ASSUME NEW f \in ListIds, NEW copy, NEW value, ListChange(f, copy, value) PROVE WalkIInv'
    BY <2>2 DEF ListChange, listHistory, WalkIInv, WalkedInv, Returned
  <2>. QED
    BY <2>1, <2>2, PageStep DEF ListNext
<1>2. WalkIInv => WalkIsComplete
  <2>. SUFFICES ASSUME WalkIInv, listSteady PROVE WalkIsComplete
    BY DEF WalkIsComplete
  <2>1. DOMAIN listReturned = 1 .. Len(listReturned)
    BY DEF WalkIInv
  <2>. QED
    BY <2>1 DEF WalkIInv, WalkedInv, WalkIsComplete, Returned
<1>. QED
  BY <1>1, <1>2, WalkStart, PTL DEF ListSpec

-----------------------------------------------------------------------------
(* The planner *)

ParamNames ==
    ResourceParams \cup {"quotaProfile", "enforce", "audit", "configured", "minAvailable", "mode",
                        "requiresApproval", "findingId", "managementSystem", "sourceOfTruth"}

\* The actions that the planner makes: of the catalog, never with configured
\* probes, and with all the parameters that a direct write needs.
PlannerActions ==
    {a \in [type : DOMAIN Catalog, target : TargetKinds, params : SUBSET ParamNames,
            configured : {FALSE}] :
        Catalog[a.type].mode = "direct" /\ a.type # "patch_workload_probes" =>
            Catalog[a.type].params \subseteq a.params}

CatalogTypes ==
    {"apply_resource_governance", "patch_pod_security_labels", "patch_workload_resources",
     "create_pdb", "patch_workload_probes", "propose_network_policy",
     "propose_security_hardening", "review_managed_resource_finding", "explain_only"}

LEMMA CatalogDomain == DOMAIN Catalog = CatalogTypes
BY DEF Catalog, CatalogTypes

\* What the proofs need of the catalog: one type is of tier A and needs no approval.
LEMMA CatalogTiers ==
    ASSUME NEW t \in CatalogTypes
    PROVE  /\ Catalog[t].tier \in 1 .. 4
           /\ t = "apply_resource_governance" => Catalog[t].tier = 1 /\ ~Catalog[t].approval
           /\ t # "apply_resource_governance" => Catalog[t].tier > 1 /\ Catalog[t].approval
<1>1. /\ Catalog[t].tier \in 1 .. 4
      /\ t = "apply_resource_governance" => Catalog[t].tier = 1
      /\ t # "apply_resource_governance" => Catalog[t].tier > 1
  BY DEF Catalog, CatalogTypes, Definition, Proposal
<1>2. t = "apply_resource_governance" => Catalog[t].approval = FALSE
  BY DEF Catalog, CatalogTypes, Definition, Proposal
<1>3. t # "apply_resource_governance" => Catalog[t].approval = TRUE
  BY DEF Catalog, CatalogTypes, Definition, Proposal
<1>. QED
  BY <1>1, <1>2, <1>3

LEMMA GovernanceEntry == Catalog["apply_resource_governance"].kinds = {"Namespace"}
BY DEF Catalog, Definition

\* ... and which types are direct writes.
LEMMA CatalogModes ==
    ASSUME NEW t \in CatalogTypes
    PROVE  /\ Catalog[t].mode \in {"direct", "gitops_proposal", "proposal_only", "informational"}
           /\ Catalog[t].mode = "direct" => ~Catalog[t].strict
           /\ t = "apply_resource_governance" => Catalog[t].mode = "direct"
           /\ t = "propose_network_policy" => Catalog[t].mode = "gitops_proposal"
           /\ t = "patch_workload_probes" => Catalog[t].mode = "direct"
BY DEF Catalog, CatalogTypes, Definition, Proposal

\* Removing duplicates leaves something, and nothing new (dedupeActions).
LEMMA KeptActions ==
    ASSUME NEW P, NEW actions \in Seq(P), actions # <<>>
    PROVE  DedupeActions(actions) \in Seq(P) /\ DedupeActions(actions) # <<>>
<1>. DEFINE seen(i) == \E j \in 1 .. i - 1 : /\ actions[j].type = actions[i].type
                                             /\ actions[j].target = actions[i].target
            kept == {i \in DOMAIN actions : ~seen(i)}
            Increasing(s) == \A i, j \in DOMAIN s : i < j => s[i] < s[j]
            order == CHOOSE s \in [1 .. Cardinality(kept) -> kept] : Increasing(s)
<1>1. PICK n \in Nat : n = Len(actions) /\ DOMAIN actions = 1 .. n /\ n >= 1
  OBVIOUS
<1>2. kept \in SUBSET (1 .. n) /\ 1 \in kept
  BY <1>1
<1>3. DedupeActions(actions) = [i \in DOMAIN order |-> actions[order[i]]]
  BY DEF DedupeActions
<1>. HIDE DEF kept
<1>. DEFINE before == {p \in (1 .. n) \X (1 .. n) : p[1] < p[2]}
<1>4. \A i, j \in 1 .. n : <<i, j>> \in before <=> i < j
  OBVIOUS
<1>. HIDE DEF before
<1>5. Orders(before, 1 .. n)
  BY <1>4 DEF Orders
<1>6. IsFiniteSet(1 .. n)
  BY FS_Interval
<1>7. PICK s \in [1 .. Cardinality(kept) -> kept] : SortedBy(s, kept, before)
  BY <1>2, <1>5, <1>6, Sortable
<1>8. Increasing(s)
  <2>1. \A i \in DOMAIN s : s[i] \in 1 .. n
    BY <1>2
  <2>. QED
    BY <1>4, <1>7, <2>1 DEF SortedBy
<1>. HIDE DEF Increasing
<1>9. order \in [1 .. Cardinality(kept) -> kept]
  BY <1>8
<1>. HIDE DEF order
<1>10. Cardinality(kept) \in Nat /\ Cardinality(kept) # 0
  <2>1. IsFiniteSet(kept) /\ kept # {}
    BY <1>2, <1>6, FS_Subset
  <2>. QED
    BY <2>1, FS_CardinalityType, FS_EmptySet
<1>11. \A i \in 1 .. Cardinality(kept) : actions[order[i]] \in P
  <2>1. \A k \in 1 .. n : actions[k] \in P
    BY <1>1
  <2>2. \A i \in 1 .. Cardinality(kept) : order[i] \in 1 .. n
    BY <1>2, <1>9
  <2>. QED
    BY <2>1, <2>2
<1>12. DedupeActions(actions) \in [1 .. Cardinality(kept) -> P]
  BY <1>3, <1>9, <1>11
<1>. QED
  BY <1>10, <1>12

\* The actions for a finding.
LEMMA TypedActions ==
    ASSUME NEW finding \in [topics : SUBSET Topics, target : TargetKinds,
                            managed : BOOLEAN, humanOnly : BOOLEAN]
    PROVE  TypedActionsForFinding(finding) \in Seq(PlannerActions) \ {<<>>}
<1>. DEFINE target == FindingTarget(finding)
            space == NamespaceTarget(target)
            P == PlannerActions
            Part(condition, action) == IF condition THEN <<action>> ELSE <<>>
            a1 == PlannedAction("apply_resource_governance", space, {"quotaProfile", "dryRun"})
            a2 == PlannedAction("patch_pod_security_labels", space, {"enforce", "audit", "dryRun"})
            a3 == PlannedAction("patch_workload_probes", target, {"configured", "dryRun"})
            a4 == PlannedAction("patch_workload_resources", target, ResourceParams)
            a5 == PlannedAction("create_pdb", target, {"minAvailable", "dryRun"})
            a6 == PlannedAction("propose_network_policy", space, {"mode", "requiresApproval"})
            fallback == PlannedAction(IF finding.humanOnly THEN "propose_security_hardening"
                                      ELSE "explain_only", target, {"findingId", "dryRun"})
            review == PlannedAction("review_managed_resource_finding", target,
                        {"findingId", "managementSystem", "sourceOfTruth"})
<1>1. target \in TargetKinds /\ space \in TargetKinds
  BY DEF FindingTarget, NamespaceTarget, TargetKinds
<1>. HIDE DEF target, space
<1>2. /\ {"quotaProfile", "dryRun"} \subseteq ParamNames
      /\ {"enforce", "audit", "dryRun"} \subseteq ParamNames
      /\ {"configured", "dryRun"} \subseteq ParamNames
      /\ {"minAvailable", "dryRun"} \subseteq ParamNames
      /\ {"mode", "requiresApproval"} \subseteq ParamNames
      /\ {"findingId", "dryRun"} \subseteq ParamNames
      /\ {"findingId", "managementSystem", "sourceOfTruth"} \subseteq ParamNames
      /\ ResourceParams \subseteq ParamNames
  BY DEF ResourceParams, ParamNames
<1>3. /\ Catalog["apply_resource_governance"].params = {}
      /\ Catalog["patch_pod_security_labels"].params = {}
      /\ Catalog["patch_workload_resources"].params =
            {"cpuRequest", "memoryRequest", "cpuLimit", "memoryLimit"}
      /\ Catalog["create_pdb"].params = {"minAvailable"}
      /\ \A t \in {"propose_network_policy", "propose_security_hardening",
                   "review_managed_resource_finding", "explain_only"} : Catalog[t].mode # "direct"
  BY DEF Catalog, Definition, Proposal
<1>4. /\ a1 \in P /\ a2 \in P /\ a3 \in P /\ a4 \in P /\ a5 \in P /\ a6 \in P
      /\ fallback \in P /\ review \in P
  <2>1. a1 \in P
    BY <1>1, <1>2, <1>3, CatalogDomain DEF CatalogTypes, PlannedAction, PlannerActions
  <2>2. a2 \in P
    BY <1>1, <1>2, <1>3, CatalogDomain DEF CatalogTypes, PlannedAction, PlannerActions
  <2>3. a3 \in P
    BY <1>1, <1>2, <1>3, CatalogDomain DEF CatalogTypes, PlannedAction, PlannerActions
  <2>4. a4 \in P
    BY <1>1, <1>2, <1>3, CatalogDomain DEF CatalogTypes, PlannedAction, PlannerActions, ResourceParams
  <2>5. a5 \in P
    BY <1>1, <1>2, <1>3, CatalogDomain DEF CatalogTypes, PlannedAction, PlannerActions
  <2>6. a6 \in P
    BY <1>1, <1>2, <1>3, CatalogDomain DEF CatalogTypes, PlannedAction, PlannerActions
  <2>7. fallback \in P
    BY <1>1, <1>2, <1>3, CatalogDomain DEF CatalogTypes, PlannedAction, PlannerActions
  <2>8. review \in P
    BY <1>1, <1>2, <1>3, CatalogDomain DEF CatalogTypes, PlannedAction, PlannerActions
  <2>. QED
    BY <2>1, <2>2, <2>3, <2>4, <2>5, <2>6, <2>7, <2>8
<1>. DEFINE On(topic) == topic \in finding.topics
            OnWorkload(topic) == On(topic) /\ IsWorkloadTarget(target)
            actions == Part(On("governance"), a1) \o Part(On("podSecurity"), a2)
                       \o Part(OnWorkload("probes"), a3) \o Part(OnWorkload("requests"), a4)
                       \o Part(OnWorkload("disruption"), a5) \o Part(On("network"), a6)
<1>5. TypedActionsForFinding(finding) =
        IF finding.managed THEN <<review>>
        ELSE DedupeActions(IF actions = <<>> THEN <<fallback>> ELSE actions)
  BY DEF TypedActionsForFinding, target, space
<1>. HIDE DEF a1, a2, a3, a4, a5, a6, fallback, review, P
<1>6. actions \in Seq(P)
  <2>. HIDE DEF On, OnWorkload
  <2>1. ASSUME NEW a \in P, NEW condition PROVE Part(condition, a) \in Seq(P)
    OBVIOUS
  <2>2. ASSUME NEW x \in Seq(P), NEW y \in Seq(P) PROVE x \o y \in Seq(P)
    OBVIOUS
  <2>. HIDE DEF Part
  <2>. QED
    BY <1>4, <2>1, <2>2
<1>. HIDE DEF actions
<1>7. <<review>> \in Seq(P) /\ <<review>> # <<>> /\ <<fallback>> \in Seq(P) /\ <<fallback>> # <<>>
  BY <1>4
<1>. QED
  BY <1>5, <1>6, <1>7, KeptActions DEF P

\* A plan is what the planner's judges say of some of its actions, at least one.
PlannerIInv ==
    /\ plannerFinding \in PlannerFindings
    /\ \/ plannerPlan = NoPlan
       \/ \E actions \in Seq(PlannerActions) \ {<<>>} :
            plannerPlan = [actions |-> actions, tier |-> RiskTierForActions(actions),
                           required |-> ApprovalRequired(actions),
                           rollback |-> StepsForActions(actions)]

LEMMA ActionTiers ==
    ASSUME NEW a \in PlannerActions
    PROVE  /\ ActionTier(a) \in 1 .. 4
           /\ ActionTier(a) > 1 <=> ~ValidateProposal(a) \/ Catalog[a.type].approval
           /\ ActionTier(a) = 1 =>
                /\ ValidateProposal(a)
                /\ a.type = "apply_resource_governance" /\ a.target = "Namespace"
<1>1. a.type \in CatalogTypes
  BY CatalogDomain DEF PlannerActions
<1>2. ValidateProposal(a) => a.target \in Catalog[a.type].kinds
  BY DEF ValidateProposal
<1>. QED
  BY <1>1, <1>2, CatalogTiers, GovernanceEntry DEF ActionTier

LEMMA HighestTier ==
    ASSUME NEW T, T \subseteq 1 .. 4, T # {}
    PROVE  Max(T) \in T /\ \A u \in T : Max(T) >= u
<1>1. \E x \in T : \A y \in T : x >= y
  <2>1. CASE 4 \in T
    BY <2>1
  <2>2. CASE 4 \notin T /\ 3 \in T
    BY <2>2
  <2>3. CASE 4 \notin T /\ 3 \notin T /\ 2 \in T
    BY <2>3
  <2>4. CASE 4 \notin T /\ 3 \notin T /\ 2 \notin T
    <3>1. \A y \in T : y = 1
      <4>. SUFFICES ASSUME NEW y \in T PROVE y = 1
        OBVIOUS
      <4>1. y \in 1 .. 4 /\ y # 4 /\ y # 3 /\ y # 2
        BY <2>4
      <4>. QED
        BY <4>1
    <3>2. PICK x \in T : TRUE
      OBVIOUS
    <3>. QED
      BY <3>1, <3>2
  <2>. QED
    BY <2>1, <2>2, <2>3, <2>4
<1>. QED
  BY <1>1 DEF Max

LEMMA JudgedActions ==
    ASSUME NEW actions \in Seq(PlannerActions), actions # <<>>
    PROVE  /\ ApprovalRequired(actions) <=> RiskTierForActions(actions) > 1
           /\ RiskTierForActions(actions) = 1 =>
                /\ StepsForActions(actions) # {}
                /\ \A i \in DOMAIN actions : /\ actions[i].type = "apply_resource_governance"
                                             /\ actions[i].target = "Namespace"
<1>. DEFINE T == {1} \cup {ActionTier(actions[i]) : i \in DOMAIN actions}
            h == RiskTierForActions(actions)
<1>1. \A i \in DOMAIN actions : actions[i] \in PlannerActions
  OBVIOUS
<1>2. 1 \in DOMAIN actions
  OBVIOUS
<1>3. T \subseteq 1 .. 4 /\ T # {}
  BY <1>1, ActionTiers
<1>4. h \in T /\ \A u \in T : h >= u
  BY <1>3, HighestTier DEF RiskTierForActions
<1>5. h \in Nat /\ \A i \in DOMAIN actions : ActionTier(actions[i]) \in 1 .. 4 /\ h >= ActionTier(actions[i])
  BY <1>1, <1>3, <1>4, ActionTiers
<1>6. h = 1 \/ \E i \in DOMAIN actions : h = ActionTier(actions[i])
  BY <1>4
<1>. HIDE DEF T, h
<1>7. h > 1 <=> \E i \in DOMAIN actions : ActionTier(actions[i]) > 1
  BY <1>5, <1>6
<1>8. h > 1 <=> \E i \in DOMAIN actions :
                    ~ValidateProposal(actions[i]) \/ Catalog[actions[i].type].approval
  BY <1>1, <1>7, ActionTiers
<1>9. ASSUME h = 1, NEW i \in DOMAIN actions PROVE ActionTier(actions[i]) = 1
  BY <1>5, <1>9
<1>10. h = 1 => StepsForActions(actions) # {}
  BY <1>1, <1>2, <1>9, ActionTiers DEF StepsForActions
<1>. QED
  BY <1>1, <1>8, <1>9, <1>10, ActionTiers DEF ApprovalRequired, h

LEMMA PreviewedAction ==
    ASSUME NEW a \in PlannerActions
    PROVE  WriteMode(a) \in {"direct-tier-a", "direct-tier-b"}
                <=> Validate(a) /\ ExecutionModeFor(a) = "direct"
<1>1. /\ a.type \in CatalogTypes /\ a.configured = FALSE
      /\ Catalog[a.type].mode = "direct" /\ a.type # "patch_workload_probes" =>
            Catalog[a.type].params \subseteq a.params
  BY CatalogDomain DEF PlannerActions
<1>2. ExecutionModeFor(a) = IF a.type = "patch_workload_probes" THEN "proposal_only"
                            ELSE Catalog[a.type].mode
  BY <1>1, CatalogDomain DEF ExecutionModeFor
<1>3. ExecutionModeFor(a) = "direct" => ValidParameters(a)
  BY <1>1, <1>2, CatalogModes DEF ValidParameters
<1>. QED
  BY <1>1, <1>2, <1>3, CatalogModes DEF WriteMode, Validate

LEMMA PlannerKept == PlannerIInv /\ [PlannerBuild]_plannerVars => PlannerIInv'
<1>. SUFFICES ASSUME PlannerIInv, [PlannerBuild]_plannerVars PROVE PlannerIInv'
  OBVIOUS
<1>1. CASE UNCHANGED plannerVars
  BY <1>1 DEF plannerVars, PlannerIInv
<1>2. CASE PlannerBuild
  <2>1. plannerPlan' = BuildRemediationPlan(plannerFinding) /\ plannerFinding' = plannerFinding
    BY <1>2 DEF PlannerBuild
  <2>2. TypedActionsForFinding(plannerFinding) \in Seq(PlannerActions) \ {<<>>}
    BY PlannerAssumption, TypedActions DEF PlannerIInv
  <2>. QED
    BY <2>1, <2>2 DEF PlannerIInv, BuildRemediationPlan
<1>. QED
  BY <1>1, <1>2

\* Whatever words and resources a finding has, the agent executes its plan by itself
\* only if the plan does no more than put quotas into a namespace, with a way back, and
\* tier and approval policy agree (riskTierForActions, approvalPolicyForActions,
\* shouldAutoExecute).
THEOREM AutomaticPlansAreGovernance == PlannerSpec => []OnlyGovernanceIsAutomatic
<1>1. PlannerInit => PlannerIInv
  BY DEF PlannerInit, PlannerIInv
<1>2. PlannerIInv /\ [PlannerBuild]_plannerVars => PlannerIInv'
  BY PlannerKept
<1>3. PlannerIInv => OnlyGovernanceIsAutomatic
  <2>. SUFFICES ASSUME PlannerIInv PROVE OnlyGovernanceIsAutomatic
    OBVIOUS
  <2>1. CASE plannerPlan = NoPlan
    BY <2>1 DEF NoPlan, OnlyGovernanceIsAutomatic, ShouldAutoExecute
  <2>2. CASE plannerPlan # NoPlan
    <3>1. PICK actions \in Seq(PlannerActions) \ {<<>>} :
            plannerPlan = [actions |-> actions, tier |-> RiskTierForActions(actions),
                           required |-> ApprovalRequired(actions),
                           rollback |-> StepsForActions(actions)]
      BY <2>2 DEF PlannerIInv
    <3>. QED
      BY <3>1, JudgedActions DEF OnlyGovernanceIsAutomatic, ShouldAutoExecute
  <2>. QED
    BY <2>1, <2>2
<1>. QED
  BY <1>1, <1>2, <1>3, PTL DEF PlannerSpec

\* Whatever words and resources a finding has, what the approver of its plan is shown
\* as a direct write is what the operator writes (plannedManifest, Validate,
\* ExecutionModeFor).
THEOREM PreviewsAreTrue == PlannerSpec => []PreviewTellsTheWrites
<1>1. PlannerInit => PlannerIInv
  BY DEF PlannerInit, PlannerIInv
<1>2. PlannerIInv /\ [PlannerBuild]_plannerVars => PlannerIInv'
  BY PlannerKept
<1>3. PlannerIInv => PreviewTellsTheWrites
  <2>. SUFFICES ASSUME PlannerIInv PROVE PreviewTellsTheWrites
    OBVIOUS
  <2>1. \A i \in DOMAIN plannerPlan.actions : plannerPlan.actions[i] \in PlannerActions
    BY DEF PlannerIInv, NoPlan
  <2>. QED
    BY <2>1, PreviewedAction DEF PreviewTellsTheWrites
<1>. QED
  BY <1>1, <1>2, <1>3, PTL DEF PlannerSpec

=============================================================================
