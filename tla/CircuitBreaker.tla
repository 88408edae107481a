---------------------------- MODULE CircuitBreaker ----------------------------
(***************************************************************************)
(* The circuit breaker that all callers of the model provider share        *)
(* (ai/advisor.go).  checkCircuit, recordFailure and recordSuccess each    *)
(* run under the mutex; the HTTP exchange between them does not, so calls  *)
(* that were let through earlier report their outcome at any later time.   *)
(* The part of Analyze that touches no shared state is AdvisorPrompt.      *)
(***************************************************************************)
EXTENDS Integers, FiniteSets

CONSTANTS
    BreakerCallers,     \* concurrent callers of Analyze
    BreakerThreshold,   \* circuitThreshold
    BreakerCooldown     \* circuitCooldown, in ticks

ASSUME BreakerAssumption ==
    /\ IsFiniteSet(BreakerCallers)
    /\ BreakerThreshold \in Nat \ {0} /\ BreakerCooldown \in Nat \ {0}

VARIABLES
    breakerCalls,       \* callers whose request is at the provider
    breakerFailures,    \* consecutiveFailures
    breakerOpen         \* circuitOpenUntil: NotOpen, or the ticks left until it

breakerVars == <<breakerCalls, breakerFailures, breakerOpen>>

\* The zero time; 0 is a circuitOpenUntil that has been reached.
NotOpen == -1

BreakerInit ==
    /\ breakerCalls = {}
    /\ breakerFailures = 0
    /\ breakerOpen = NotOpen

\* The count survives the cooldown.
BreakerAdmitKeepingCount(c) ==
    /\ c \notin breakerCalls
    /\ breakerOpen <= 0
    /\ breakerCalls' = breakerCalls \cup {c}
    /\ breakerOpen' = NotOpen
    /\ UNCHANGED breakerFailures

\* An open circuit lets probes through.
BreakerAdmitProbe(c) ==
    /\ c \notin breakerCalls
    /\ breakerCalls' = breakerCalls \cup {c}
    /\ breakerFailures' = IF breakerOpen = NotOpen THEN breakerFailures ELSE 0
    /\ UNCHANGED breakerOpen

\* checkCircuit lets the caller through.  The first check after the cooldown
\* clears the deadline and the count.
BreakerAdmit(c) ==
    /\ c \notin breakerCalls
    /\ breakerOpen <= 0
    /\ breakerCalls' = breakerCalls \cup {c}
    /\ breakerOpen' = NotOpen
    /\ breakerFailures' = IF breakerOpen = NotOpen THEN breakerFailures ELSE 0

\* recordFailure: a transport error, a timeout, a bad status, an oversized or
\* an invalid answer.
BreakerFail(c) ==
    /\ c \in breakerCalls
    /\ breakerCalls' = breakerCalls \ {c}
    /\ breakerFailures' = breakerFailures + 1
    /\ breakerOpen' = IF breakerFailures' >= BreakerThreshold
                      THEN BreakerCooldown ELSE breakerOpen

\* recordSuccess closes the circuit, whoever opened it.
BreakerSucceed(c) ==
    /\ c \in breakerCalls
    /\ breakerCalls' = breakerCalls \ {c}
    /\ breakerFailures' = 0
    /\ breakerOpen' = NotOpen

BreakerTick ==
    /\ breakerOpen > 0
    /\ breakerOpen' = breakerOpen - 1
    /\ UNCHANGED <<breakerCalls, breakerFailures>>

BreakerNext ==
    \/ \E c \in BreakerCallers : BreakerAdmit(c) \/ BreakerFail(c) \/ BreakerSucceed(c)
    \/ BreakerTick

\* Time passes, and the client's timeout ends every request.
BreakerFairness ==
    /\ WF_breakerVars(BreakerTick)
    /\ \A c \in BreakerCallers : WF_breakerVars(BreakerFail(c) \/ BreakerSucceed(c))

BreakerSpec == BreakerInit /\ [][BreakerNext]_breakerVars /\ BreakerFairness

-----------------------------------------------------------------------------

BreakerTypeOK ==
    /\ breakerCalls \subseteq BreakerCallers
    /\ breakerFailures \in Nat
    /\ breakerOpen \in NotOpen .. BreakerCooldown

\* Once the threshold of consecutive failures is passed, only the requests that
\* were already at the provider may still fail: an outage costs at most one
\* request per caller beyond the threshold before the cooldown (checkCircuit,
\* recordFailure), although every failure that comes in late starts the
\* cooldown anew.
OutageCostsOneRequestEach ==
    /\ breakerFailures < BreakerThreshold + Cardinality(BreakerCallers)
    /\ breakerOpen > 0 =>
         breakerFailures + Cardinality(breakerCalls)
            < BreakerThreshold + Cardinality(BreakerCallers)

\* The breaker never refuses for ever: late failures extend the cooldown, but
\* only as often as there were requests in flight (checkCircuit).
BreakerRecovers == []<>(breakerOpen <= 0)

=============================================================================
