--------------------------- MODULE VersionCatalog ---------------------------
(***************************************************************************)
(* What the registry promises to those who look names up in it: a history  *)
(* per name that only grows at its end, with versions going up, and in     *)
(* which releases may be retired, once and for a reason.  The latest       *)
(* release of a name is the last one not retired.                          *)
(***************************************************************************)
EXTENDS Integers, Sequences

CONSTANT Names

VARIABLES
    published,  \* name -> sequence of releases [version, address, by]
    retired,    \* <<name, version>> -> the reason
    latest      \* name -> its latest version, 0 when there is none

vars == <<published, retired, latest>>

\* The number of releases of n that count for latest.
LatestAgrees ==
    \A n \in Names :
        LET open == {i \in DOMAIN published[n] : <<n, published[n][i].version>> \notin DOMAIN retired}
        IN  \/ open = {} /\ latest[n] = 0
            \/ \E i \in open : /\ \A j \in open : j <= i
                               /\ latest[n] = published[n][i].version

Init ==
    /\ published = [n \in Names |-> << >>]
    /\ DOMAIN retired = {}
    /\ LatestAgrees

Publish ==
    /\ \A n \in Names :
          /\ Len(published[n]) <= Len(published'[n])
          /\ \A i \in DOMAIN published[n] : published'[n][i] = published[n][i]
          /\ \A i, j \in DOMAIN published'[n] :
                i < j => published'[n][i].version < published'[n][j].version
    /\ UNCHANGED retired

Retire ==
    /\ DOMAIN retired \subseteq DOMAIN retired'
    /\ \A k \in DOMAIN retired : retired'[k] = retired[k]
    /\ \A k \in DOMAIN retired' \ DOMAIN retired :
          \E i \in DOMAIN published[k[1]] : published[k[1]][i].version = k[2]
    /\ UNCHANGED published

Next == (Publish \/ Retire) /\ LatestAgrees'

Spec == Init /\ [][Next]_vars

=============================================================================
