-------------------------- MODULE TimelockPromise ---------------------------
(***************************************************************************)
(* What the timelock promises to whoever watches it: an operation is       *)
(* announced at least the minimum delay in force before it can be          *)
(* performed, is performed at most once, during its window only, and never *)
(* before the operations it was announced to need.  Announced operations   *)
(* may be withdrawn.  No storage, no index, no status.                     *)
(***************************************************************************)
EXTENDS Integers

CONSTANT OpIds

VARIABLES
    now,        \* the time
    floor,      \* the least delay an operation may be announced with, 0 = closed
    waiting,    \* announced operation -> [needs, until]
    performed   \* every operation ever performed

vars == <<now, floor, waiting, performed>>

Init ==
    /\ now = 0
    /\ floor = 0
    /\ DOMAIN waiting = {}
    /\ performed = {}

Advance ==
    /\ now' \in Nat
    /\ now' >= now
    /\ UNCHANGED <<floor, waiting, performed>>

Configure ==
    /\ floor' \in Nat \ {0}
    /\ UNCHANGED <<now, waiting, performed>>

Announce(id) ==
    /\ floor > 0
    /\ id.eta >= now + floor
    /\ id \notin DOMAIN waiting
    /\ id \notin performed
    /\ DOMAIN waiting' = DOMAIN waiting \cup {id}
    /\ waiting'[id].needs \in SUBSET OpIds
    /\ waiting' = [i \in DOMAIN waiting' |-> IF i = id THEN waiting'[id] ELSE waiting[i]]
    /\ UNCHANGED <<now, floor, performed>>

Perform(id) ==
    /\ id \in DOMAIN waiting
    /\ id.eta <= now
    /\ now <= waiting[id].until
    /\ waiting[id].needs \subseteq performed
    /\ performed' = performed \cup {id}
    /\ waiting' = [i \in DOMAIN waiting \ {id} |-> waiting[i]]
    /\ UNCHANGED <<now, floor>>

Withdraw ==
    /\ DOMAIN waiting' \subseteq DOMAIN waiting
    /\ waiting' = [i \in DOMAIN waiting' |-> waiting[i]]
    /\ UNCHANGED <<now, floor, performed>>

Next ==
    \/ Advance
    \/ Configure
    \/ \E id \in OpIds : Announce(id)
    \/ \E id \in OpIds : Perform(id)
    \/ Withdraw

Spec == Init /\ [][Next]_vars

=============================================================================
