--------------------------- MODULE RouterMulticall --------------------------
(***************************************************************************)
(* The router-multicall contract: anyone may have a batch of calls to      *)
(* other contracts made in one invocation, and have the outcomes stored.   *)
(*                                                                         *)
(* A batch is an invocation of several steps, because between two of its   *)
(* steps other contracts run.  frame is the invocation in progress and     *)
(* holds what the host would roll back to.  The host lets none of them     *)
(* call back into this contract.  The model allows more than that: while a *)
(* batch runs any entry point may be called, and what it did is undone if  *)
(* the batch fails.  So nothing here rests on the host's ban, nor shows    *)
(* that the contract's own guard, Executing, would be needed.              *)
(*                                                                         *)
(* As elsewhere, nothing uses the definitions named Slip: each misstates   *)
(* the definition after it the way a plausible mistake would.              *)
(***************************************************************************)
EXTENDS Vectors

CONSTANTS
    None,              \* an absent Option or storage key
    Addresses,         \* accounts that call the contract
    MaxArgsPerCall,    \* MAX_ARGS_PER_CALL, 20 in the code
    MaxStoredBatches,  \* MAX_STORED_BATCHES, 50 in the code
    MaxU64             \* the largest u64

CONSTANTS              \* the inputs a run enumerates, and its bounds
    Calls,             \* calls [required, budget, args]
    Sizes,             \* sizes passed to initialize and set_max_batch_size
    GasLimits,         \* max_total_gas
    MaxCalls,          \* bound on the calls of a batch
    MaxTotal,          \* bound on the number of batches
    MaxEffects         \* bound on the number of successful calls

ASSUME MulticallNumbers ==
    /\ {MaxArgsPerCall, MaxU64, MaxCalls, MaxTotal, MaxEffects} \subseteq Nat
    /\ MaxStoredBatches \in Nat \ {0}
    /\ Sizes \subseteq Nat
    /\ GasLimits \subseteq 0 .. MaxU64
    /\ Calls \subseteq [required : BOOLEAN, budget : 0 .. MaxU64 \cup {None}, args : Nat]

VARIABLES
    admin,      \* Admin
    maxSize,    \* MaxBatchSize, None before initialize
    total,      \* TotalBatches
    executing,  \* Executing
    results,    \* BatchResult(batch, index) -> success
    counts,     \* BatchCallCount(batch)
    effects,    \* what successful calls did to other contracts, counted
    frame,      \* the running batch, None between invocations
    receipt     \* the last batch that returned Ok: what was asked and came of it

config == <<admin, maxSize>>
stored == <<results, counts>>
vars == <<config, total, executing, stored, effects, frame, receipt>>

\* A batch under way: its arguments, its id, the outcomes so far, and what the
\* host restores when the invocation ends in an error (before), or the call
\* being made does (config).
Requests == [calls : Seq(Calls), simulate : BOOLEAN, store : BOOLEAN, failFast : BOOLEAN]
Partial(K, V) == UNION {[D -> V] : D \in SUBSET K}
Snapshots == [admin : Addresses \cup {None}, maxSize : Nat \cup {None}, total : Nat,
              results : Partial((0 .. MaxTotal) \X (0 .. MaxCalls), BOOLEAN),
              counts : Partial(0 .. MaxTotal, Nat), effects : Nat]
Frames == [request : Requests, id : Nat, outcomes : Seq(BOOLEAN), before : Snapshots,
           config : (Addresses \cup {None}) \X (Nat \cup {None})]
Receipts == [request : Requests, outcomes : Seq(BOOLEAN)]

ASSUME MulticallNone == None \notin Addresses \cup Nat \cup Frames \cup Receipts

Snapshot == [admin |-> admin, maxSize |-> maxSize, total |-> total, results |-> results,
             counts |-> counts, effects |-> effects]

-----------------------------------------------------------------------------
(* Configuration.                                                          *)

Init ==
    /\ admin = None
    /\ maxSize = None
    /\ total = 0
    /\ executing = FALSE
    /\ results = << >>
    /\ counts = << >>
    /\ effects = 0
    /\ frame = None
    /\ receipt = None

Initialize(newAdmin, size) ==
    /\ admin = None
    /\ size > 0
    /\ admin' = newAdmin
    /\ maxSize' = size
    /\ total' = 0
    /\ UNCHANGED <<executing, stored, effects, frame, receipt>>

SetMaxBatchSize(caller, size) ==
    /\ caller = admin
    /\ size > 0
    /\ maxSize' = size
    /\ UNCHANGED <<admin, total, executing, stored, effects, frame, receipt>>

TransferAdmin(caller, newAdmin) ==
    /\ caller = admin
    /\ admin' = newAdmin
    /\ UNCHANGED <<maxSize, total, executing, stored, effects, frame, receipt>>

-----------------------------------------------------------------------------
(* execute_batch, from its checks to its return.                           *)

\* The declared budgets of the first n calls, a saturating sum.
Declared(calls) ==
    LET sum[n \in 0 .. Len(calls)] ==
          IF n = 0 THEN 0
          ELSE IF calls[n].budget = None THEN sum[n - 1]
          ELSE IF sum[n - 1] + calls[n].budget > MaxU64 THEN MaxU64
          ELSE sum[n - 1] + calls[n].budget
    IN  sum[Len(calls)]

\* What is checked before any call is made.
Acceptable(calls, gasLimit) ==
    /\ maxSize # None
    /\ Len(calls) \in 1 .. maxSize
    /\ \A i \in DOMAIN calls : calls[i].args <= MaxArgsPerCall
    /\ gasLimit # None => Declared(calls) <= gasLimit

Begin(request, gasLimit) ==
    /\ ~executing
    /\ Acceptable(request.calls, gasLimit)
    /\ total < MaxTotal
    /\ executing' = TRUE
    /\ frame' = [request |-> request, id |-> total, outcomes |-> << >>, before |-> Snapshot,
                 config |-> config]
    /\ UNCHANGED <<config, total, stored, effects, receipt>>

\* No further call is made: all were, or one failed and the caller wants none
\* after a failure.
Done ==
    LET n == Len(frame.outcomes)
    IN  \/ n = Len(frame.request.calls)
        \/ n > 0 /\ frame.request.failFast /\ ~frame.outcomes[n]

NextCall == frame.request.calls[Len(frame.outcomes) + 1]

\* The next call returns; its outcome is recorded, and stored when asked for.
Record(success) ==
    /\ admin' = IF success THEN admin ELSE frame.config[1]
    /\ maxSize' = IF success THEN maxSize ELSE frame.config[2]
    /\ frame' = [frame EXCEPT !.outcomes = Append(@, success), !.config = config']
    /\ results' = IF frame.request.store /\ ~frame.request.simulate
                    THEN Put(results, <<frame.id, Len(frame.outcomes)>>, success)
                    ELSE results
    /\ UNCHANGED <<total, executing, counts, receipt>>

CallSucceeds ==
    /\ frame # None
    /\ ~Done
    /\ effects < MaxEffects
    /\ effects' = effects + 1
    /\ Record(TRUE)

OptionalCallFailsSlip ==
    /\ frame # None
    /\ ~Done
    /\ frame.request.failFast => ~NextCall.required
    /\ Record(FALSE)
    /\ UNCHANGED effects

OptionalCallFails ==
    /\ frame # None
    /\ ~Done
    /\ ~NextCall.required
    /\ Record(FALSE)
    /\ UNCHANGED effects

\* The host undoes everything the invocation did, here and elsewhere.
RollBack ==
    /\ admin' = frame.before.admin
    /\ maxSize' = frame.before.maxSize
    /\ total' = frame.before.total
    /\ results' = frame.before.results
    /\ counts' = frame.before.counts
    /\ effects' = frame.before.effects
    /\ executing' = FALSE
    /\ frame' = None
    /\ UNCHANGED receipt

\* A required call fails, and with it the batch.
RequiredCallFails ==
    /\ frame # None
    /\ ~Done
    /\ NextCall.required
    /\ RollBack

\* The host ends the invocation at any point: its instruction budget is spent.
Trap == frame # None /\ RollBack

PruneSlip(newCounts, id) ==
    LET stale == {b \in DOMAIN newCounts : b = id - MaxStoredBatches /\ id \in DOMAIN newCounts}
    IN  /\ counts' = Delete(newCounts, stale)
        /\ results' = Delete(results, {k \in DOMAIN results :
                         k[1] \in stale /\ k[2] < newCounts[k[1]]})

\* The batch that leaves the window loses the results it was counted with.
Prune(newCounts, id) ==
    LET stale == {b \in DOMAIN newCounts : b = id - MaxStoredBatches}
    IN  /\ counts' = Delete(newCounts, stale)
        /\ results' = Delete(results, {k \in DOMAIN results :
                         k[1] \in stale /\ k[2] < newCounts[k[1]]})

\* The batch returns Ok.
Finish ==
    /\ frame # None
    /\ Done
    /\ IF frame.request.simulate
         THEN UNCHANGED <<total, stored>>
         ELSE /\ total' = frame.id + 1
              /\ Prune(IF frame.request.store
                         THEN Put(counts, frame.id, Len(frame.outcomes))
                         ELSE counts, frame.id)
    /\ executing' = FALSE
    /\ frame' = None
    /\ receipt' = [request |-> frame.request, outcomes |-> frame.outcomes]
    /\ UNCHANGED <<config, effects>>

\* get_batch_results: the outcomes up to the first that is not stored.
GetBatchResults(b) ==
    LET n == CHOOSE n \in 0 .. MaxCalls : /\ <<b, n>> \notin DOMAIN results
                                         /\ \A i \in 0 .. n - 1 : <<b, i>> \in DOMAIN results
    IN  [i \in 1 .. n |-> results[<<b, i - 1>>]]

CallLists == UNION {[1 .. n -> Calls] : n \in 0 .. MaxCalls}

Step == CallSucceeds \/ OptionalCallFails \/ RequiredCallFails \/ Trap \/ Finish

Next ==
    \/ \E a \in Addresses, n \in Sizes : Initialize(a, n) \/ SetMaxBatchSize(a, n)
    \/ \E a, b \in Addresses : TransferAdmin(a, b)
    \/ \E calls \in CallLists, simulate, store, failFast \in BOOLEAN, g \in GasLimits \cup {None} :
          Begin([calls |-> calls, simulate |-> simulate, store |-> store,
                 failFast |-> failFast], g)
    \/ Step

Spec == Init /\ [][Next]_vars

-----------------------------------------------------------------------------
(* Properties.                                                             *)

TypeOK ==
    /\ admin \in Addresses \cup {None}
    /\ maxSize \in (Nat \ {0}) \cup {None}
    /\ total \in 0 .. MaxTotal
    /\ executing \in BOOLEAN
    /\ DOMAIN results \subseteq (0 .. MaxTotal) \X Nat
    /\ results \in [DOMAIN results -> BOOLEAN]
    /\ DOMAIN counts \subseteq 0 .. MaxTotal
    /\ counts \in [DOMAIN counts -> Nat \ {0}]
    /\ effects \in 0 .. MaxEffects
    /\ frame # None => frame.request \in Requests /\ frame.outcomes \in Seq(BOOLEAN)
    /\ receipt # None => receipt.request \in Requests /\ receipt.outcomes \in Seq(BOOLEAN)

\* Between batches the guard is down, the counted batches are among the last
\* MaxStoredBatches, and the stored results are exactly those counted, without
\* a gap: get_batch_results, which stops at the first missing one, returns them
\* all, and nothing is stored that no later prune would find (issue #1441).
ResultsWindow ==
    /\ TypeOK
    /\ frame = None =>
        /\ ~executing
        /\ \A b \in DOMAIN counts : total - MaxStoredBatches <= b /\ b < total
        /\ \A b \in DOMAIN counts : Len(GetBatchResults(b)) = counts[b]
        /\ DOMAIN results = UNION {{b} \X (0 .. counts[b] - 1) : b \in DOMAIN counts}

\* What others see of a batch under way is what it would be rolled back to.
Seen == IF frame = None THEN Snapshot ELSE frame.before

\* The stored outcomes of a batch, as get_batch_results returns them.
Outcomes(s) == [b \in DOMAIN s.counts |-> [i \in 1 .. s.counts[b] |-> s.results[<<b, i - 1>>]]]

Atomic == INSTANCE AtomicBatches
    WITH total <- Seen.total, kept <- Outcomes(Seen), effects <- Seen.effects,
         window <- MaxStoredBatches

\* A batch, for all its steps, happens at once or not at all: its effects on
\* other contracts, its count and its stored outcomes appear together, every
\* required call having succeeded.
BatchesAreAtomic == Atomic!Spec

=============================================================================
