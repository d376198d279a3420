-------------------------- MODULE ExecutionAccount --------------------------
(***************************************************************************)
(* What router-execution promises about the calls it makes: an execution   *)
(* that returns Ok made exactly one call that took effect, was counted     *)
(* once and leaves one record; one that returns Err did none of this.  A   *)
(* preview is a call that took effect, and nothing else.                   *)
(***************************************************************************)
EXTENDS Integers, Sequences

CONSTANT MaxU64  \* where the count of executions stays put

VARIABLES
    total,    \* executions counted
    effects,  \* calls that took effect on their targets
    records,  \* what is remembered of executions, newest first
    keep      \* how many are remembered

vars == <<total, effects, records, keep>>

First(n, s) == SubSeq(s, 1, IF n < Len(s) THEN n ELSE Len(s))

Init == total = 0 /\ effects = 0 /\ records = << >>

Execution ==
    /\ effects' = effects + 1
    /\ total' = IF total = MaxU64 THEN total ELSE total + 1
    /\ records' # << >>
    /\ records' = First(keep, <<Head(records')>> \o records)
    /\ keep' = keep

Preview ==
    /\ effects' = effects + 1
    /\ UNCHANGED <<total, records, keep>>

Shorten ==
    /\ records' = First(keep', records)
    /\ UNCHANGED <<total, effects>>

Next == Execution \/ Preview \/ Shorten

Spec == Init /\ [][Next]_vars

=============================================================================
