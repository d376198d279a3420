----------------------- MODULE RouterTimelockHistory ------------------------
(***************************************************************************)
(* RouterTimelock with a history variable: the operations ever executed,   *)
(* which the contract itself forgets once cleanup_expired reclaims them.   *)
(* With it the contract implements TimelockPromise.                        *)
(***************************************************************************)
EXTENDS RouterTimelock

VARIABLE performed

historyVars == <<now, config, ops, deps, pending, finalized, performed>>

HistoryInit == Init /\ performed = {}

HistoryNext == Next /\ performed' = performed \cup Executed'

HistorySpec == HistoryInit /\ [][HistoryNext]_historyVars

\* The abstract view: an announced operation is one that is stored and
\* neither executed nor cancelled.
Announced == [id \in {i \in DOMAIN ops : Pending(i)} |->
                [needs |-> LoadDeps(id), until |-> ops[id].eta + ops[id].grace]]

Promise == INSTANCE TimelockPromise WITH floor <- minDelay, waiting <- Announced

\* The contract keeps the promise: whatever is cancelled, reclaimed and queued
\* again, no operation is executed twice, early, late or out of order.
KeepsPromise == Promise!Spec

\* What was ever executed was due then, and so is due now: an id that was
\* executed cannot be queued again, for its eta is no longer in the future.
PerformedWasDue ==
    /\ Executed \subseteq performed
    /\ \A id \in performed : id \in OpIds /\ id.eta <= now

=============================================================================
