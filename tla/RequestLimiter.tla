---------------------------- MODULE RequestLimiter ----------------------------
(***************************************************************************)
(* The rate limiter of the HTTP API (httpapi/middleware.go).  A window is  *)
(* kept per caller; windows of callers that have been idle for long are    *)
(* swept when the table has grown past its limit.  Times are kept as ages  *)
(* in ticks, and stop growing where allow no longer tells them apart.      *)
(***************************************************************************)
EXTENDS Integers, FiniteSetsExt

CONSTANTS
    LimiterKeys,        \* callers: a subject, or a remote address
    LimiterLimit,       \* requests per window
    LimiterInterval,    \* length of a window, in ticks
    LimiterIdle,        \* a window may be swept after LimiterIdle intervals (5)
    LimiterCapacity     \* table size that starts a sweep (4096)

ASSUME LimiterAssumption ==
    /\ LimiterLimit \in Nat \ {0} /\ LimiterInterval \in Nat \ {0}
    /\ LimiterIdle \in Nat \ {0} /\ LimiterCapacity \in Nat

VARIABLES
    limiterWindows,     \* windows, a function on the callers it holds
    limiterAccepted     \* history: the age of the i-th latest accepted request of
                        \* k; OldAge for an older one, or none

limiterVars == <<limiterWindows, limiterAccepted>>

OldAge == LimiterInterval                       \* as good as any older window
LimiterMemory == 2 * LimiterLimit + 1           \* requests in the history
IdleAge == LimiterIdle * LimiterInterval + 1    \* long enough to be swept

LimiterInit ==
    /\ limiterWindows = [k \in {} |-> 0]
    /\ limiterAccepted = [k \in LimiterKeys |-> [i \in 1 .. LimiterMemory |-> OldAge]]

\* The window in which a request of k is counted.  A count past the limit is
\* kept at LimiterLimit + 1.
LimiterWindow(k) ==
    LET old == limiterWindows[k] IN
    IF k \in DOMAIN limiterWindows /\ old.age < LimiterInterval
    THEN [age |-> old.age, count |-> Min({old.count + 1, LimiterLimit + 1}), idle |-> 0]
    ELSE [age |-> 0, count |-> 1, idle |-> 0]

\* A sweep that empties the table but for the caller of the request.
LimiterKeptNewest(windows) ==
    IF Cardinality(DOMAIN windows) > LimiterCapacity
    THEN {k \in DOMAIN windows : windows[k].idle = 0}
    ELSE DOMAIN windows

\* The callers whose windows survive the sweep.
LimiterKept(windows) ==
    IF Cardinality(DOMAIN windows) > LimiterCapacity
    THEN {k \in DOMAIN windows : windows[k].idle < IdleAge}
    ELSE DOMAIN windows

\* allow
LimiterAllow(k) ==
    LET window == LimiterWindow(k)
        windows == [j \in DOMAIN limiterWindows \cup {k} |->
                      IF j = k THEN window ELSE limiterWindows[j]]
    IN /\ limiterWindows' = [j \in LimiterKept(windows) |-> windows[j]]
       /\ limiterAccepted' = IF window.count > LimiterLimit THEN limiterAccepted
                             ELSE [limiterAccepted EXCEPT ![k] =
                                     [i \in 1 .. LimiterMemory |-> IF i = 1 THEN 0 ELSE @[i - 1]]]

LimiterTick ==
    /\ limiterWindows' = [k \in DOMAIN limiterWindows |->
         [limiterWindows[k] EXCEPT !.age = Min({@ + 1, OldAge}),
                                   !.idle = Min({@ + 1, IdleAge})]]
    /\ limiterAccepted' = [k \in LimiterKeys |-> [i \in 1 .. LimiterMemory |->
         Min({limiterAccepted[k][i] + 1, OldAge})]]

LimiterNext == (\E k \in LimiterKeys : LimiterAllow(k)) \/ LimiterTick

LimiterSpec == LimiterInit /\ [][LimiterNext]_limiterVars

-----------------------------------------------------------------------------

LimiterTypeOK ==
    /\ DOMAIN limiterWindows \subseteq LimiterKeys
    /\ \A k \in DOMAIN limiterWindows :
         limiterWindows[k] \in [age : 0 .. OldAge, count : 1 .. LimiterLimit + 1,
                                idle : 0 .. IdleAge]
    /\ limiterAccepted \in [LimiterKeys -> [1 .. LimiterMemory -> 0 .. OldAge]]

\* Over any stretch as long as a window, wherever it starts, a caller gets at
\* most twice the limit, and since its current window began at most the limit: the
\* request before those is too old.  The sweep of other callers' windows, or of its
\* own, never hands out a second budget (allow).
NoSecondBudget ==
    \A k \in LimiterKeys :
        /\ limiterAccepted[k][2 * LimiterLimit + 1] >= OldAge
        /\ k \in DOMAIN limiterWindows =>
             \/ limiterAccepted[k][LimiterLimit + 1] > limiterWindows[k].age
             \/ limiterAccepted[k][LimiterLimit + 1] >= OldAge

=============================================================================
