----------------------------- MODULE SigningKeys -----------------------------
(***************************************************************************)
(* The OIDC verifier and its cache of signing keys (auth/oidc.go): a token *)
(* whose key is unknown, or any token once the cache is out of date, makes *)
(* its request fetch the key set.  Requests fetch at the same time, and    *)
(* what they fetched is stored in the order in which they get the lock.    *)
(***************************************************************************)
EXTENDS Integers, FiniteSets

CONSTANTS
    KeyCallers,
    Keys,           \* the signing keys of the provider
    Tokens,         \* [key, signed, claims, roles]
    MaxAges,        \* the values of max-age that the provider sends; 0 is none
    MaxAgeLimit,    \* one hour
    DefaultAge,     \* 15 minutes
    FetchTime,      \* the HTTP timeout, 10 seconds
    KeysEnd         \* bound: the clock

ASSUME KeysAssumption ==
    /\ MaxAges \subseteq Nat /\ MaxAgeLimit \in Nat
    /\ DefaultAge \in 1..MaxAgeLimit
    /\ FetchTime \in 1..MaxAgeLimit
    /\ KeysEnd \in Nat

VARIABLES
    keyClock,
    published,      \* the keys that the provider has now
    withdrawnAt,    \* when a key was withdrawn, 0 = not yet
    cachedKeys,
    keysUntil,
    keyCall         \* the request of each caller

keyVars == <<keyClock, published, withdrawnAt, cachedKeys, keysUntil, keyCall>>

NoToken == [key |-> "none", signed |-> FALSE, claims |-> FALSE, roles |-> {}]
NoKeyCall == [pc |-> "idle", token |-> NoToken, document |-> {}, age |-> 0, since |-> 0]

-----------------------------------------------------------------------------

\* A max-age that is taken as it comes.
UncappedAge(age) == IF age <= 0 THEN DefaultAge ELSE age

\* refreshKeys
EffectiveAge(age) == IF age <= 0 \/ age > MaxAgeLimit THEN DefaultAge ELSE age

\* Verify, after the key was found: the signature, validateClaims and
\* principalFromClaims, which needs a role.
Accepts(token) == token.signed /\ token.claims /\ token.roles # {}

Verdict(token) == IF Accepts(token) THEN "accepted" ELSE "rejected"

EndVerify(c, token, verdict) ==
    keyCall' = [keyCall EXCEPT ![c] =
        [NoKeyCall EXCEPT !.pc = verdict, !.token = IF verdict = "accepted" THEN token ELSE NoToken]]

Waiting(c) == keyCall[c].pc \in {"fetch", "store", "recheck"}

-----------------------------------------------------------------------------

\* NewOIDCVerifier fetched the keys once.
KeysInit ==
    /\ keyClock = 1
    /\ published \in SUBSET Keys \ {{}}
    /\ withdrawnAt = [k \in Keys |-> 0]
    /\ cachedKeys = published
    /\ \E age \in MaxAges : keysUntil = keyClock + EffectiveAge(age)
    /\ keyCall = [c \in KeyCallers |-> NoKeyCall]

\* Verify and key: the key is in the cache, and the cache is up to date.
VerifyCached(c, token) ==
    /\ ~Waiting(c)
    /\ token.key \in cachedKeys /\ keyClock <= keysUntil
    /\ EndVerify(c, token, Verdict(token))
    /\ UNCHANGED <<keyClock, published, withdrawnAt, cachedKeys, keysUntil>>

VerifyFetches(c, token) ==
    /\ ~Waiting(c)
    /\ token.key \notin cachedKeys \/ keyClock > keysUntil
    /\ keyCall' = [keyCall EXCEPT ![c] = [NoKeyCall EXCEPT !.pc = "fetch", !.token = token,
                                                           !.since = keyClock]]
    /\ UNCHANGED <<keyClock, published, withdrawnAt, cachedKeys, keysUntil>>

\* getJSON: the provider answers.
FetchAnswered(c, age) ==
    /\ keyCall[c].pc = "fetch"
    /\ keyCall' = [keyCall EXCEPT ![c].pc = "store", ![c].document = published,
                                        ![c].age = EffectiveAge(age)]
    /\ UNCHANGED <<keyClock, published, withdrawnAt, cachedKeys, keysUntil>>

\* getJSON fails, or refreshKeys finds no key in the document.
FetchFailed(c) ==
    /\ \/ keyCall[c].pc = "fetch"
       \/ keyCall[c].pc = "store" /\ keyCall[c].document = {}
    /\ EndVerify(c, keyCall[c].token, "rejected")
    /\ UNCHANGED <<keyClock, published, withdrawnAt, cachedKeys, keysUntil>>

\* A document without keys is stored as well.
StoreAnyKeys(c) ==
    /\ keyCall[c].pc = "store"
    /\ cachedKeys' = keyCall[c].document
    /\ keysUntil' = keyClock + keyCall[c].age
    /\ keyCall' = [keyCall EXCEPT ![c].pc = "recheck"]
    /\ UNCHANGED <<keyClock, published, withdrawnAt>>

\* refreshKeys
StoreKeys(c) ==
    /\ keyCall[c].pc = "store"
    /\ keyCall[c].document # {}
    /\ cachedKeys' = keyCall[c].document
    /\ keysUntil' = keyClock + keyCall[c].age
    /\ keyCall' = [keyCall EXCEPT ![c].pc = "recheck"]
    /\ UNCHANGED <<keyClock, published, withdrawnAt>>

\* key reads the map again, whoever stored it last.
VerifyAfterFetch(c) ==
    /\ keyCall[c].pc = "recheck"
    /\ LET token == keyCall[c].token IN
       EndVerify(c, token, IF token.key \in cachedKeys THEN Verdict(token) ELSE "rejected")
    /\ UNCHANGED <<keyClock, published, withdrawnAt, cachedKeys, keysUntil>>

\* External: the provider publishes a key, and withdraws it for good.
PublishKey(k) ==
    /\ k \notin published
    /\ withdrawnAt[k] = 0
    /\ published' = published \cup {k}
    /\ UNCHANGED <<keyClock, withdrawnAt, cachedKeys, keysUntil, keyCall>>

WithdrawKey(k) ==
    /\ k \in published
    /\ published' = published \ {k}
    /\ withdrawnAt' = [withdrawnAt EXCEPT ![k] = keyClock]
    /\ UNCHANGED <<keyClock, cachedKeys, keysUntil, keyCall>>

\* No fetch outlasts the timeout of the HTTP client.  The verdicts of the last
\* moment are forgotten.
KeysTick ==
    /\ keyClock < KeysEnd
    /\ \A c \in KeyCallers : Waiting(c) => keyClock < keyCall[c].since + FetchTime
    /\ keyClock' = keyClock + 1
    /\ keyCall' = [c \in KeyCallers |-> IF Waiting(c) THEN keyCall[c] ELSE NoKeyCall]
    /\ UNCHANGED <<published, withdrawnAt, cachedKeys, keysUntil>>

KeysNext ==
    \/ \E c \in KeyCallers :
         \/ \E t \in Tokens : VerifyCached(c, t) \/ VerifyFetches(c, t)
         \/ \E age \in MaxAges : FetchAnswered(c, age)
         \/ FetchFailed(c) \/ StoreKeys(c) \/ VerifyAfterFetch(c)
    \/ \E k \in Keys : PublishKey(k) \/ WithdrawKey(k)
    \/ KeysTick

KeysSpec == KeysInit /\ [][KeysNext]_keyVars

-----------------------------------------------------------------------------

KeysTypeOK ==
    /\ keyClock \in 1..KeysEnd
    /\ published \subseteq Keys /\ cachedKeys \subseteq Keys
    /\ cachedKeys # {}
    /\ \A c \in KeyCallers : keyCall[c].pc \in
         {"idle", "fetch", "store", "recheck", "accepted", "rejected"}

\* A slow fetch may store a key set that is older than the one it replaces, and a
\* key that was gone is back in the cache.  Whatever the order, no token is accepted
\* later than one fetch and one maximal age after its key was withdrawn (key,
\* refreshKeys, cacheMaxAge).
WithdrawnKeysDie ==
    \A c \in KeyCallers : keyCall[c].pc = "accepted" =>
        LET gone == withdrawnAt[keyCall[c].token.key] IN
        gone = 0 \/ keyClock <= gone + FetchTime + MaxAgeLimit

=============================================================================
