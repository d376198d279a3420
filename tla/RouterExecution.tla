-------------------------- MODULE RouterExecution ---------------------------
(***************************************************************************)
(* The router-execution contract: it makes a call to another contract on   *)
(* its caller's behalf, repeats it while it fails, and remembers the calls *)
(* that succeeded.                                                         *)
(*                                                                         *)
(* execute is an invocation of several steps, one for each call it makes,  *)
(* which other contracts may answer or fail.  frame is the invocation in   *)
(* progress; the host lets no contract re-enter this one meanwhile, and    *)
(* undoes all of an invocation that ends in an error.                      *)
(*                                                                         *)
(* As elsewhere, nothing uses the definitions named Slip: each misstates   *)
(* the definition after it the way a plausible mistake would.              *)
(***************************************************************************)
EXTENDS Accounts

CONSTANTS
    MaxArgsPerCall,     \* MAX_ARGS_PER_CALL, 20 in the code
    MaxRetriesCap,      \* the 5 of initialize and set_max_retries
    Scale,              \* FIXED_POINT_SCALE, 100 in the code
    MaxMultiplier,      \* MAX_BACKOFF_MULTIPLIER, 10000 in the code
    MaxBackoff,         \* MAX_BACKOFF_MS, one hour in the code
    DefaultHistory,     \* DEFAULT_MAX_HISTORY_SIZE, 1000 in the code
    MaxHistoryCap,      \* MAX_HISTORY_SIZE_CAP, 10000 in the code
    BaseFee, FeeDivisor, MinResourceFee,  \* 100, 1000 and 100 stroops in the code
    HighLoad,           \* HIGH_LOAD_THRESHOLD_BPS, 8000 in the code
    MaxU64              \* the largest u64

CONSTANTS               \* the inputs a run enumerates, and its bounds
    Targets,            \* contracts that are called
    Requests,           \* requests [target, simulate, retries, args, amount]
    Backoffs,           \* backoff settings [base, multiplier]
    Sizes,              \* values for set_max_retries and set_max_history_size
    Loads,              \* caller_asserted_load_bps
    MaxEffects          \* bound on the calls that take effect

RequestTypes == [target : Targets, simulate : BOOLEAN, retries : Nat, args : Nat, amount : Int]
Histories == Seq([target : Targets, success : BOOLEAN, fee : Nat])
Frames == [request : Requests, attempts : Nat, delays : Seq(Nat), carried : BOOLEAN, retries : Nat,
           before : [total : Nat, errors : Nat, history : Histories, effects : Nat]]
Receipts == [request : Requests, attempts : Nat, delays : Seq(Nat), allowed : Nat]

ASSUME ExecutionNumbers ==
    /\ {MaxArgsPerCall, MaxRetriesCap, MaxBackoff, BaseFee, MinResourceFee, HighLoad,
        MaxU64, MaxEffects} \subseteq Nat
    /\ {Scale, MaxMultiplier, DefaultHistory, MaxHistoryCap, FeeDivisor} \subseteq Nat \ {0}
    /\ Scale <= MaxMultiplier
ASSUME ExecutionInputs ==
    /\ Requests \subseteq RequestTypes
    /\ Backoffs \subseteq [base : Nat, multiplier : Nat]
    /\ Sizes \cup Loads \subseteq Nat
ASSUME ExecutionNone == None \notin Frames \cup Receipts

VARIABLES
    executionAdmin, \* Admin
    maxRetries,     \* MaxRetries
    backoff,        \* BackoffBaseMs and BackoffMultiplier
    total,          \* TotalExecutions
    errors,         \* TotalErrors
    history,        \* ExecHistory
    maxHistory,     \* MaxHistorySize
    effects,        \* what calls did to their targets, counted
    frame,          \* the execution in progress, None between invocations
    receipt         \* what the last execution that returned Ok answered

config == <<executionAdmin, maxRetries, backoff>>
account == <<total, errors, history, maxHistory>>
executionVars == <<config, account, effects, frame, receipt>>

Min(a, b) == IF a < b THEN a ELSE b

-----------------------------------------------------------------------------
(* Fees and delays.                                                        *)

ComputeBaseAndResourceFee(amount) ==
    LET scaled == amount \div FeeDivisor
    IN  [base |-> BaseFee, resource |-> IF scaled < MinResourceFee THEN MinResourceFee ELSE scaled]

ComputeActualFee(amount) ==
    LET fee == ComputeBaseAndResourceFee(amount) IN fee.base + fee.resource

\* estimate_fee: doubled when the caller says that the load is high.
EstimateFee(amount, load) ==
    LET fee == ComputeBaseAndResourceFee(amount)
        surge == IF load >= HighLoad THEN 2 * Scale ELSE Scale
    IN  [base |-> fee.base, resource |-> fee.resource, surge |-> surge,
         high |-> load >= HighLoad, total |-> ((fee.base + fee.resource) * surge) \div Scale]

\* compute_backoff_ms: grown step by step, and capped by the growth.  The
\* product of a value below the cap and a multiplier stays far below 2^128.
ComputeBackoff(base, multiplier, index) ==
    LET delay[k \in 0 .. index] ==
          IF k = 0 THEN base ELSE Min((delay[k - 1] * multiplier) \div Scale, MaxBackoff)
    IN  IF base = 0 \/ multiplier <= Scale THEN Min(base, MaxBackoff) ELSE delay[index]

-----------------------------------------------------------------------------
(* Configuration.                                                          *)

ValidRetries(n) == n \in 1 .. MaxRetriesCap
ValidMultiplier(n) == n \in Scale .. MaxMultiplier

ExecutionInit ==
    /\ executionAdmin = None
    /\ maxRetries = None
    /\ backoff = [base |-> 0, multiplier |-> Scale]
    /\ total = 0
    /\ errors = 0
    /\ history = << >>
    /\ maxHistory = DefaultHistory
    /\ effects = 0
    /\ frame = None
    /\ receipt = None

InitializeExecution(newAdmin, retries, b) ==
    /\ frame = None
    /\ executionAdmin = None
    /\ ValidRetries(retries)
    /\ ValidMultiplier(b.multiplier)
    /\ executionAdmin' = newAdmin
    /\ maxRetries' = retries
    /\ backoff' = b
    /\ total' = 0
    /\ errors' = 0
    /\ UNCHANGED <<history, maxHistory, effects, frame, receipt>>

SetBackoffConfig(caller, b) ==
    /\ frame = None
    /\ caller = executionAdmin
    /\ ValidMultiplier(b.multiplier)
    /\ backoff' = b
    /\ UNCHANGED <<executionAdmin, maxRetries, account, effects, frame, receipt>>

SetMaxRetries(caller, n) ==
    /\ frame = None
    /\ caller = executionAdmin
    /\ ValidRetries(n)
    /\ maxRetries' = n
    /\ UNCHANGED <<executionAdmin, backoff, account, effects, frame, receipt>>

TransferExecutionAdmin(caller, newAdmin) ==
    /\ frame = None
    /\ caller = executionAdmin
    /\ executionAdmin' = newAdmin
    /\ UNCHANGED <<maxRetries, backoff, account, effects, frame, receipt>>

\* evict_oldest: the tail that fits.
EvictOldest(records, cap) ==
    IF Len(records) > cap THEN SubSeq(records, Len(records) - cap + 1, Len(records)) ELSE records

SetMaxHistorySize(caller, n) ==
    /\ frame = None
    /\ caller = executionAdmin
    /\ n \in 1 .. MaxHistoryCap
    /\ maxHistory' = n
    /\ history' = EvictOldest(history, n)
    /\ UNCHANGED <<config, total, errors, effects, frame, receipt>>

-----------------------------------------------------------------------------
(* execute, from its checks to its return, and simulate.                   *)

Snapshot == [total |-> total, errors |-> errors, history |-> history, effects |-> effects]

ExecuteSlip(request) ==
    /\ frame = None
    /\ executionAdmin # None
    /\ request.amount > 0
    /\ request.args <= MaxArgsPerCall
    /\ frame' = [request |-> request, attempts |-> 0, delays |-> << >>, carried |-> FALSE,
                 retries |-> Min(request.retries, MaxRetriesCap), before |-> Snapshot]
    /\ UNCHANGED <<config, account, effects, receipt>>

Execute(request) ==
    /\ frame = None
    /\ executionAdmin # None
    /\ request.amount > 0
    /\ request.args <= MaxArgsPerCall
    /\ frame' = [request |-> request, attempts |-> 0, delays |-> << >>, carried |-> FALSE,
                 retries |-> Min(request.retries, maxRetries), before |-> Snapshot]
    /\ UNCHANGED <<config, account, effects, receipt>>

\* The host undoes what the invocation did, the error it logged included.
RollBack ==
    /\ total' = frame.before.total
    /\ errors' = frame.before.errors
    /\ history' = frame.before.history
    /\ effects' = frame.before.effects
    /\ frame' = None
    /\ UNCHANGED <<config, maxHistory, receipt>>

\* A call that fails leaves nothing behind at its target.
Invoke(success) ==
    /\ success => effects < MaxEffects
    /\ effects' = IF success THEN effects + 1 ELSE effects

\* A call before the loop is left to make, when the request wants one.
Simulating == frame.request.simulate /\ frame.attempts = 0 /\ ~frame.carried

\* The simulation of simulate_first: a call like any other, whose success the
\* loop takes for its first attempt, and whose failure ends it all.
SimulatesFirst ==
    /\ frame # None
    /\ Simulating
    /\ Invoke(TRUE)
    /\ frame' = [frame EXCEPT !.carried = TRUE]
    /\ UNCHANGED <<config, account, receipt>>

SimulationFails ==
    /\ frame # None
    /\ Simulating
    /\ RollBack

AppendHistory(request) ==
    EvictOldest(Append(history, [target |-> request.target, success |-> TRUE,
                                 fee |-> ComputeActualFee(request.amount)]), maxHistory)

\* Returns Ok.
Succeed(attempts) ==
    /\ total' = Min(total + 1, MaxU64)
    /\ history' = AppendHistory(frame.request)
    /\ frame' = None
    /\ receipt' = [request |-> frame.request, attempts |-> attempts, delays |-> frame.delays,
                   allowed |-> maxRetries]
    /\ UNCHANGED <<config, errors, maxHistory>>

AttemptSucceedsSlip ==
    /\ frame # None
    /\ ~Simulating
    /\ Invoke(TRUE)
    /\ Succeed(frame.attempts + 1)

AttemptSucceeds ==
    /\ frame # None
    /\ ~Simulating
    /\ IF frame.carried THEN UNCHANGED effects ELSE Invoke(TRUE)
    /\ Succeed(frame.attempts + 1)

\* A failed attempt that is not the last one allowed: the delay to wait before
\* the next is announced, and the next is made at once.
AttemptFails ==
    /\ frame # None
    /\ ~Simulating
    /\ ~frame.carried
    /\ frame.attempts < frame.retries
    /\ frame' = [frame EXCEPT
         !.attempts = @ + 1,
         !.delays = Append(@, ComputeBackoff(backoff.base, backoff.multiplier, frame.attempts))]
    /\ UNCHANGED <<config, account, effects, receipt>>

LastAttemptFails ==
    /\ frame # None
    /\ ~Simulating
    /\ ~frame.carried
    /\ frame.attempts >= frame.retries
    /\ RollBack

\* The host ends the invocation at any point: its instruction budget is spent.
Trap == frame # None /\ RollBack

\* simulate: it too makes the call.  One that fails changes nothing.
Simulate(args) ==
    /\ frame = None
    /\ executionAdmin # None
    /\ args <= MaxArgsPerCall
    /\ Invoke(TRUE)
    /\ UNCHANGED <<config, account, frame, receipt>>

ExecutionStep ==
    \/ SimulatesFirst \/ SimulationFails
    \/ AttemptSucceeds \/ AttemptFails \/ LastAttemptFails
    \/ Trap

ConfigureExecution(a) ==
    \/ \E n \in Sizes, b \in Backoffs : InitializeExecution(a, n, b)
    \/ \E b \in Backoffs : SetBackoffConfig(a, b)
    \/ \E n \in Sizes : SetMaxRetries(a, n) \/ SetMaxHistorySize(a, n)
    \/ \E b \in Addresses : TransferExecutionAdmin(a, b)

ExecutionNext ==
    \/ \E a \in Addresses : ConfigureExecution(a)
    \/ \E r \in Requests : Execute(r) \/ Simulate(r.args)
    \/ ExecutionStep

ExecutionSpec == ExecutionInit /\ [][ExecutionNext]_executionVars

-----------------------------------------------------------------------------
(* Queries.                                                                *)

GetMaxHistorySize == IF executionAdmin = None THEN None ELSE maxHistory
GetBackoffConfig == IF executionAdmin = None THEN None ELSE <<backoff.base, backoff.multiplier>>
ExecutionHistoryLen == IF executionAdmin = None THEN None ELSE Len(history)
Stats == <<total, errors>>

\* get_execution_history: newest first.
GetExecutionHistory(limit) ==
    [i \in 1 .. Min(limit, Len(history)) |-> history[Len(history) - i + 1]]

-----------------------------------------------------------------------------
(* Properties.                                                             *)

ExecutionTypeOK ==
    /\ executionAdmin \in Addresses \cup {None}
    /\ maxRetries \in (1 .. MaxRetriesCap) \cup {None}
    /\ executionAdmin = None <=> maxRetries = None
    /\ backoff.base \in Nat /\ ValidMultiplier(backoff.multiplier)
    /\ total \in 0 .. MaxU64
    /\ errors \in Nat
    /\ history \in Histories
    /\ maxHistory \in Nat \ {0}
    /\ Len(history) <= maxHistory
    /\ effects \in 0 .. MaxEffects
    /\ frame \in Frames \cup {None}
    /\ frame # None => /\ frame.attempts \in 0 .. frame.retries
                       /\ Len(frame.delays) = frame.attempts
    /\ receipt \in Receipts \cup {None}

\* Only the first delay may lie above the cap; but for the step from there down
\* to the cap, delays never shrink.
Rising(delays) ==
    \A i, j \in DOMAIN delays : i < j =>
        /\ Min(delays[i], MaxBackoff) <= delays[j]
        /\ delays[j] <= MaxBackoff

\* An execution that returned Ok made one more attempt than it announced
\* retries, and no more retries than its caller asks for nor than the admin
\* allows at the time; each delay it announced is at least the ones before it,
\* or the cap the backoff is documented to have, and all but the first are
\* within that cap (the first is the admin's base, which DelaysCapped is about);
\* and its record carries the fee estimate_fee promises a caller who does not
\* claim a high load.
ReceiptHonest ==
    /\ ExecutionTypeOK
    /\ receipt # None =>
        /\ receipt.attempts = Len(receipt.delays) + 1
        /\ receipt.attempts <= Min(receipt.request.retries, receipt.allowed) + 1
        /\ receipt.request.simulate => receipt.attempts = 1
        /\ Rising(receipt.delays)
        /\ \A load \in Loads : load < HighLoad =>
              GetExecutionHistory(1)[1].fee = EstimateFee(receipt.request.amount, load).total

\* The tests say of compute_backoff_ms: "for arbitrary multiplier, attempt_index,
\* base_ms, the result is always <= MAX_BACKOFF_MS".
DelaysCapped == receipt # None => \A i \in DOMAIN receipt.delays : receipt.delays[i] <= MaxBackoff

\* What others see of an execution in progress is what a failure returns to.
Seen == IF frame = None THEN Snapshot ELSE frame.before

NewestFirst == [i \in DOMAIN Seen.history |-> Seen.history[Len(Seen.history) - i + 1]]

Account == INSTANCE ExecutionAccount
    WITH total <- Seen.total, effects <- Seen.effects, keep <- maxHistory,
         records <- IF frame = None THEN GetExecutionHistory(Len(history)) ELSE NewestFirst

\* Whether or not it simulates first, however often it retries and wherever it
\* is cut off, an execution takes effect once and is accounted for, or not at
\* all (issue #1194).
KeepsAccount == Account!Spec

=============================================================================
