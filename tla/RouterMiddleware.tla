-------------------------- MODULE RouterMiddleware --------------------------
(***************************************************************************)
(* The router-middleware contract: hooks called before and after a routed  *)
(* call.  pre_call lets a call through unless the middleware or the route  *)
(* is off, the route's circuit breaker is open, or the caller is over the  *)
(* limit; post_call reports how it went, feeding breaker and call log.     *)
(*                                                                         *)
(* Every key but four carries a route and no call touches two routes, so   *)
(* the model follows one route.  The Executing guard is set and removed    *)
(* within pre_call, which calls no other contract: it is never seen set.   *)
(*                                                                         *)
(* As elsewhere, nothing uses the definitions named Slip: each misstates   *)
(* the definition after it the way a plausible mistake would.              *)
(***************************************************************************)
EXTENDS Vectors

CONSTANTS
    None,            \* an absent Option or storage key
    Callers,         \* accounts that call the contract
    MaxU32, MaxU64,  \* where sums saturate
    MaxLogRetention, \* MAX_LOG_RETENTION, 10000 in the code
    StaleWindows,    \* RATE_LIMIT_STALE_WINDOW_MULTIPLIER, 4 in the code
    PruneInterval    \* RATE_LIMIT_PRUNE_INTERVAL, 3600 in the code

CONSTANTS            \* the inputs a run enumerates, and its bounds
    Configs,         \* RouteConfigs
    Overrides,       \* CallerRateLimitConfigs [calls, window]
    Strategies,      \* those of "reject", "throttle", "log_only" an admin sets
    Toggles,         \* values for set_global_enabled
    MaxTime,         \* bound on the ledger time
    MaxCalls,        \* bound on the calls let through
    MaxReports,      \* bound on the reports in the summary
    MaxFailures,     \* bound on the failures the breaker counts
    ReportsUntil     \* bound on the time of reports

RouteConfigs ==
    [max : 0 .. MaxU32, window : 0 .. MaxU64, enabled : BOOLEAN, threshold : Nat,
     recovery : 0 .. MaxU64, retention : Nat, burst : 0 .. MaxU32]
Limits == [calls : 0 .. MaxU32, window : 0 .. MaxU64]
AllStrategies == {"reject", "throttle", "log_only"}
Calls == [caller : Callers, time : Nat, success : BOOLEAN]
Logs == [entries : Seq(Calls), head : Nat, count : Nat]
Summaries == [total : Nat, successes : Nat, failures : Nat, last : Nat]

ASSUME MiddlewareNone ==
    None \notin Callers \cup RouteConfigs \cup Limits \cup Logs \cup Summaries
ASSUME MiddlewareNumbers ==
    /\ {MaxU32, MaxU64, MaxLogRetention, StaleWindows, PruneInterval} \subseteq Nat
    /\ {MaxTime, MaxCalls, MaxReports, MaxFailures, ReportsUntil} \subseteq Nat
    /\ MaxTime < MaxU64 /\ StaleWindows > 0
ASSUME MiddlewareInputs ==
    /\ Configs \subseteq RouteConfigs
    /\ Overrides \subseteq Limits
    /\ Strategies \subseteq AllStrategies
    /\ Toggles \subseteq BOOLEAN

VARIABLES
    now,       \* the ledger's timestamp
    admin,     \* Admin
    enabled,   \* GlobalEnabled, TRUE when absent
    total,     \* TotalCalls
    config,    \* RouteConfig(route)
    strategy,  \* RateLimitStrategy(route), "reject" when absent
    override,  \* CallerRateLimit(route, caller)
    rates,     \* RouteCallState(route).rate_limits
    breaker,   \* RouteCallState(route).circuit_breaker
    pruned,    \* LastRateLimitPrune(route), 0 when absent
    log,       \* CallLog(route)
    summary    \* CallLogSummary(route)

settings == <<admin, enabled, config, strategy, override>>
callState == <<rates, breaker, pruned>>
logged == <<log, summary>>
vars == <<now, settings, total, callState, logged>>

Min(a, b) == IF a < b THEN a ELSE b
Saturating(n) == Min(n, MaxU64)

ClosedBreaker == [failures |-> 0, openedAt |-> 0, open |-> FALSE, halfOpen |-> FALSE]
Closed == ~breaker.open /\ ~breaker.halfOpen

-----------------------------------------------------------------------------
(* Rate limits: a window opens with a call and lasts for the window set.   *)

WindowElapsed(start, window) == now >= Saturating(start + window)

EffectiveWindowSlip(c) == config.window

EffectiveWindow(c) == IF override[c] = None THEN config.window ELSE override[c].window

\* The limit a caller is held to, None for no limit: the caller's own, where
\* 0 calls mean no limit, or else the route's.
LimitOf(c) ==
    IF override[c] # None
      THEN IF override[c].calls = 0 THEN None ELSE override[c]
      ELSE IF config.max = 0 THEN None
           ELSE [calls |-> Min(config.max + config.burst, MaxU32), window |-> config.window]

\* prune_stale_rate_limits, when it is due again.
PruneDue == now >= Saturating(pruned + PruneInterval)

Stale(c) ==
    LET idle == Saturating(EffectiveWindow(c) * StaleWindows)
    IN  now >= Saturating(rates[c].start + (IF idle = 0 THEN 1 ELSE idle))

Pruned == IF PruneDue THEN Delete(rates, {c \in DOMAIN rates : Stale(c)}) ELSE rates

\* The caller's window as a call made now finds it.
WindowOf(c, table, window) ==
    LET state == IF c \in DOMAIN table THEN table[c]
                 ELSE [calls |-> 0, start |-> now, violations |-> 0]
    IN  IF WindowElapsed(state.start, window)
          THEN [state EXCEPT !.calls = 0, !.start = now]
          ELSE state

\* get_rate_limit_state: the window as a view shows it, without pruning.
RateLimitState(c) ==
    IF c \notin DOMAIN rates THEN [calls |-> 0, start |-> now, violations |-> 0]
    ELSE WindowOf(c, rates, EffectiveWindow(c))

\* get_route_rate_limit_stats: all the callers of the route together.
RouteRateLimitStats ==
    LET window(c) == IF config = None THEN rates[c] ELSE WindowOf(c, rates, EffectiveWindow(c))
    IN  [calls |-> FoldFunction(+, 0, [c \in DOMAIN rates |-> window(c).calls]),
         violations |-> FoldFunction(+, 0, [c \in DOMAIN rates |-> window(c).violations]),
         start |-> FoldFunction(Min, now, [c \in DOMAIN rates |-> window(c).start])]

\* check_caller_rate_limit.
CheckCallerRateLimit(c) ==
    override[c] # None /\ override[c].calls > 0 =>
        (c \in DOMAIN rates => WindowOf(c, rates, override[c].window).calls < override[c].calls)

ResetForCaller(c) == rates' = Delete(rates, {c})

Exceeded(c, limit) == WindowOf(c, Pruned, limit.window).calls >= limit.calls

CheckAndIncrementSlip(c, limit) ==
    LET state == WindowOf(c, Pruned, limit.window)
        start == IF c \in DOMAIN Pruned THEN Pruned[c].start ELSE now
    IN  IF Exceeded(c, limit) THEN [state EXCEPT !.violations = @ + 1]
        ELSE [state EXCEPT !.calls = @ + 1, !.start = start]

\* check_and_increment: what becomes of the caller's entry.
CheckAndIncrement(c, limit) ==
    LET state == WindowOf(c, Pruned, limit.window)
    IN  IF Exceeded(c, limit) THEN [state EXCEPT !.violations = @ + 1]
        ELSE [state EXCEPT !.calls = @ + 1]

-----------------------------------------------------------------------------
(* Circuit breaker.                                                        *)

RecoveredSlip == now >= Saturating(breaker.openedAt + config.recovery)

Recovered == config.recovery > 0 /\ now >= Saturating(breaker.openedAt + config.recovery)

BlockedSlip == config.threshold > 0 /\ breaker.open

Blocked == config.threshold > 0 /\ breaker.open /\ ~Recovered

\* check_and_transition, for a call that is not blocked.
CheckAndTransition ==
    IF config.threshold > 0 /\ breaker.open
      THEN [breaker EXCEPT !.open = FALSE, !.halfOpen = TRUE]
      ELSE breaker

HandleFailureSlip ==
    IF breaker.halfOpen
      THEN [failures |-> 1, openedAt |-> now, open |-> TRUE, halfOpen |-> FALSE]
      ELSE LET failures == breaker.failures + 1
           IN  IF failures > config.threshold
                 THEN [breaker EXCEPT !.failures = failures, !.open = TRUE, !.openedAt = now]
                 ELSE [breaker EXCEPT !.failures = failures]

\* handle_failure: a failed probe opens the circuit again; otherwise enough
\* failures do, and each further one while it is open, as if it just opened.
HandleFailure ==
    IF breaker.halfOpen
      THEN [failures |-> 1, openedAt |-> now, open |-> TRUE, halfOpen |-> FALSE]
      ELSE LET failures == breaker.failures + 1
           IN  IF failures >= config.threshold
                 THEN [breaker EXCEPT !.failures = failures, !.open = TRUE, !.openedAt = now]
                 ELSE [breaker EXCEPT !.failures = failures]

\* get_circuit_breaker_state: an open circuit shows as half open once its
\* recovery window is over.
BreakerView ==
    IF config # None /\ breaker.open /\ Recovered
      THEN [breaker EXCEPT !.open = FALSE, !.halfOpen = TRUE]
      ELSE breaker

ResetBreaker == breaker' = ClosedBreaker

HandleSuccess ==
    IF breaker.halfOpen THEN ClosedBreaker
    ELSE IF breaker.open THEN breaker
    ELSE [breaker EXCEPT !.failures = 0]

-----------------------------------------------------------------------------
(* Call log: a ring of the last calls, allocated whole by configure_route, *)
(* or grown call by call once it was cleared.                              *)

Call(c, success) == [caller |-> c, time |-> now, success |-> success]

EmptyLog(c, size) ==
    [entries |-> [i \in 1 .. size |-> [caller |-> c, time |-> 0, success |-> FALSE]],
     head |-> 0, count |-> 0]

AppendLogSlip(call) ==
    LET old == IF log = None THEN [entries |-> << >>, head |-> 0, count |-> 0] ELSE log
        count == Min(old.count + 1, config.retention)
    IN  IF old.count < config.retention
          THEN [entries |-> Append(old.entries, call), head |-> old.head, count |-> count]
          ELSE [entries |-> [old.entries EXCEPT ![old.head + 1] = call],
                head |-> (old.head + 1) % config.retention, count |-> count]

AppendLog(call) ==
    LET old == IF log = None THEN [entries |-> << >>, head |-> 0, count |-> 0] ELSE log
        count == Min(old.count + 1, config.retention)
    IN  IF Len(old.entries) < config.retention
          THEN [entries |-> Append(old.entries, call), head |-> old.head, count |-> count]
          ELSE [entries |-> [old.entries EXCEPT ![old.head + 1] = call],
                head |-> (old.head + 1) % config.retention, count |-> count]

AddToSummary(call) ==
    LET old == IF summary = None THEN [total |-> 0, successes |-> 0, failures |-> 0] ELSE summary
    IN  [total |-> old.total + 1,
         successes |-> old.successes + (IF call.success THEN 1 ELSE 0),
         failures |-> old.failures + (IF call.success THEN 0 ELSE 1),
         last |-> call.time]

ClearLog == log' = None /\ summary' = None

\* get_call_log: oldest first.
ReadLog ==
    IF log = None THEN << >>
    ELSE LET size == Len(log.entries)
         IN  IF log.count < size THEN SubSeq(log.entries, 1, log.count)
             ELSE [i \in 1 .. size |-> log.entries[((log.head + i - 1) % size) + 1]]

\* get_call_log with a filter, and get_call_log_length.
CallLogFiltered(success) == Kept(ReadLog, {i \in DOMAIN ReadLog : ReadLog[i].success = success})
CallLogLength == IF log = None THEN 0 ELSE log.count

-----------------------------------------------------------------------------
(* Entry points.                                                           *)

Init ==
    /\ now = 0
    /\ admin = None
    /\ enabled = TRUE
    /\ total = 0
    /\ config = None
    /\ strategy = "reject"
    /\ override = [c \in Callers |-> None]
    /\ rates = << >>
    /\ breaker = ClosedBreaker
    /\ pruned = 0
    /\ log = None
    /\ summary = None

Initialize(newAdmin) ==
    /\ admin = None
    /\ admin' = newAdmin
    /\ enabled' = TRUE
    /\ total' = 0
    /\ UNCHANGED <<now, config, strategy, override, callState, logged>>

\* The log is cleared and allocated anew when its size changes.
ConfigureRoute(caller, new) ==
    /\ caller = admin
    /\ new.window = 0 => new.max = 0
    /\ new.retention <= MaxLogRetention
    /\ config' = new
    /\ IF config # None /\ config.retention = new.retention
         THEN UNCHANGED logged
         ELSE /\ log' = IF new.retention > 0 THEN EmptyLog(caller, new.retention)
                        ELSE IF config = None THEN log ELSE None
              /\ summary' = IF config = None THEN summary ELSE None
    /\ UNCHANGED <<now, admin, enabled, strategy, override, total, callState>>

PreCall(c) ==
    /\ total < MaxCalls
    /\ enabled
    /\ total' = total + 1
    /\ IF config = None
         THEN UNCHANGED callState
         ELSE /\ config.enabled
              /\ ~Blocked
              /\ breaker' = CheckAndTransition
              /\ pruned' = IF PruneDue THEN now ELSE pruned
              /\ IF LimitOf(c) = None
                   THEN rates' = Pruned
                   ELSE /\ Exceeded(c, LimitOf(c)) => strategy # "reject"
                        /\ rates' = Put(Pruned, c, CheckAndIncrement(c, LimitOf(c)))
    /\ UNCHANGED <<now, settings, logged>>

PostCall(c, success) ==
    /\ config # None
    /\ now <= ReportsUntil
    /\ summary # None => summary.total < MaxReports
    /\ success \/ breaker.failures < MaxFailures
    /\ IF config.retention = 0
         THEN UNCHANGED logged
         ELSE /\ log' = AppendLog(Call(c, success))
              /\ summary' = AddToSummary(Call(c, success))
    /\ breaker' = IF config.threshold = 0 THEN breaker
                  ELSE IF success THEN HandleSuccess ELSE HandleFailure
    /\ UNCHANGED <<now, settings, total, rates, pruned>>

SetGlobalEnabled(caller, on) ==
    /\ caller = admin
    /\ enabled' = on
    /\ UNCHANGED <<now, admin, config, strategy, override, total, callState, logged>>

ResetRouteCallLog(caller) ==
    /\ caller = admin
    /\ ClearLog
    /\ UNCHANGED <<now, settings, total, callState>>

ResetRateLimit(caller, target) ==
    /\ caller = admin
    /\ ResetForCaller(target)
    /\ UNCHANGED <<now, settings, total, breaker, pruned, logged>>

SetRateLimitStrategy(caller, new) ==
    /\ caller = admin
    /\ strategy' = new
    /\ UNCHANGED <<now, admin, enabled, config, override, total, callState, logged>>

ResetCircuitBreaker(caller) ==
    /\ caller = admin
    /\ ResetBreaker
    /\ UNCHANGED <<now, settings, total, rates, pruned, logged>>

TransferAdmin(caller, newAdmin) ==
    /\ caller = admin
    /\ admin' = newAdmin
    /\ UNCHANGED <<now, enabled, config, strategy, override, total, callState, logged>>

ConfigureCallerRateLimit(caller, target, limit) ==
    /\ caller = admin
    /\ limit.window = 0 => limit.calls = 0
    /\ override' = [override EXCEPT ![target] = limit]
    /\ UNCHANGED <<now, admin, enabled, config, strategy, total, callState, logged>>

RemoveCallerRateLimit(caller, target) ==
    /\ caller = admin
    /\ override' = [override EXCEPT ![target] = None]
    /\ UNCHANGED <<now, admin, enabled, config, strategy, total, callState, logged>>

\* A later ledger closes, however much later.
Tick ==
    /\ now' \in now + 1 .. MaxTime
    /\ UNCHANGED <<settings, total, callState, logged>>

Administer ==
    \E a \in Callers :
        \/ Initialize(a)
        \/ \E new \in Configs : ConfigureRoute(a, new)
        \/ \E on \in Toggles : SetGlobalEnabled(a, on)
        \/ \E s \in Strategies : SetRateLimitStrategy(a, s)
        \/ ResetRouteCallLog(a)
        \/ ResetCircuitBreaker(a)
        \/ \E b \in Callers :
              \/ TransferAdmin(a, b)
              \/ ResetRateLimit(a, b)
              \/ RemoveCallerRateLimit(a, b)
              \/ \E limit \in Overrides : ConfigureCallerRateLimit(a, b, limit)

Next ==
    \/ Tick
    \/ Administer
    \/ \E c \in Callers : PreCall(c) \/ \E success \in BOOLEAN : PostCall(c, success)

Spec == Init /\ [][Next]_vars

-----------------------------------------------------------------------------
(* Properties.                                                             *)

TypeOK ==
    /\ now \in 0 .. MaxTime
    /\ admin \in Callers \cup {None}
    /\ enabled \in BOOLEAN
    /\ total \in 0 .. MaxCalls
    /\ config \in RouteConfigs \cup {None}
    /\ strategy \in AllStrategies
    /\ override \in [Callers -> Limits \cup {None}]
    /\ DOMAIN rates \subseteq Callers
    /\ rates \in [DOMAIN rates -> [calls : Nat, start : 0 .. MaxTime, violations : Nat]]
    /\ breaker \in [failures : Nat, openedAt : 0 .. MaxTime, open : BOOLEAN, halfOpen : BOOLEAN]
    /\ ~(breaker.open /\ breaker.halfOpen)
    /\ pruned \in 0 .. MaxTime
    /\ log \in Logs \cup {None}
    /\ summary \in Summaries \cup {None}

\* The views and the enforcement, computed apart, agree: whatever was overridden,
\* reset, pruned or has run out, a caller under the limit in the view is one
\* that pre_call does not find over it (issues #1196, #1317), and a caller over
\* it shows in the totals of the route.
ViewPredictsPreCall ==
    config # None =>
        \A c \in Callers : LimitOf(c) # None =>
            /\ RateLimitState(c).calls >= LimitOf(c).calls <=> Exceeded(c, LimitOf(c))
            /\ Exceeded(c, LimitOf(c)) =>
                 /\ RouteRateLimitStats.calls >= LimitOf(c).calls
                 /\ RouteRateLimitStats.start <= RateLimitState(c).start

\* What the doc of check_caller_rate_limit says of its answer: TRUE means the
\* next pre_call would pass the rate limit.
CheckPredictsPreCall ==
    config # None =>
        \A c \in Callers : LimitOf(c) # None =>
            (CheckCallerRateLimit(c) => ~Exceeded(c, LimitOf(c)))

\* What the doc of get_circuit_breaker_state says of its answer: the state the
\* next pre_call would see.
BreakerViewIsNext == config # None /\ ~Blocked => BreakerView = CheckAndTransition

=============================================================================
