---------------------------- MODULE AtomicBatches ---------------------------
(***************************************************************************)
(* What the multicall promises: each batch takes effect in one step.  It   *)
(* makes its calls in order, all of them unless the caller asked to stop   *)
(* at the first failure; no required call of a batch that takes effect     *)
(* failed; the outcomes of the last batches are kept for those who asked.  *)
(***************************************************************************)
EXTENDS Integers, Sequences, FiniteSets

CONSTANTS None, window

VARIABLES
    total,    \* the number of batches recorded
    kept,     \* batch -> its outcomes, for recent batches that asked for it
    effects,  \* the number of calls that took effect
    receipt   \* the last batch, [request, outcomes]

vars == <<total, kept, effects, receipt>>

Init == total = 0 /\ DOMAIN kept = {} /\ effects = 0 /\ receipt = None

\* The outcomes the request allows.
Plausible(request, outcomes) ==
    LET n == Len(outcomes)
        failed == {i \in 1 .. n : ~outcomes[i]}
    IN  /\ n \in 1 .. Len(request.calls)
        /\ \A i \in failed : ~request.calls[i].required
        /\ IF request.failFast THEN failed \subseteq {n} ELSE n = Len(request.calls)
        /\ failed = {} => n = Len(request.calls)

Batch ==
    LET request == receipt'.request
        outcomes == receipt'.outcomes
        recent == {b \in DOMAIN kept : b > total - window}
    IN  /\ Plausible(request, outcomes)
        /\ effects' = effects + Cardinality({i \in DOMAIN outcomes : outcomes[i]})
        /\ IF request.simulate
             THEN UNCHANGED <<total, kept>>
             ELSE /\ total' = total + 1
                  /\ kept' = [b \in recent \cup (IF request.store THEN {total} ELSE {}) |->
                                IF b = total THEN outcomes ELSE kept[b]]

Next == receipt' # None /\ Batch

Spec == Init /\ [][Next]_vars

=============================================================================
