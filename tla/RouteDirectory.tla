--------------------------- MODULE RouteDirectory ---------------------------
(***************************************************************************)
(* What router-core promises about its directory, with no index, cache or  *)
(* recursion limit: names are registered up to a cap, removed only when no *)
(* remaining route needs them, linked without closing a circle, and        *)
(* aliased.  A route starts with nothing attached, and takes everything    *)
(* attached to it, aliases included, along when it goes.                   *)
(***************************************************************************)
EXTENDS Integers, FiniteSets

CONSTANTS Names, None

VARIABLES
    entries,  \* registered name -> [needs, score, tags]
    alias,    \* alias -> the name it stands for
    cap       \* how many names may be registered

vars == <<entries, alias, cap>>

\* A circle: routes each of which needs another of them.
Circle(S) == S # {} /\ \A n \in S : entries[n].needs \cap S # {}

Init == DOMAIN entries = {} /\ DOMAIN alias = {} /\ cap \in Nat \ {0}

Register(fresh) ==
    /\ fresh \cap (DOMAIN entries \cup DOMAIN alias) = {}
    /\ fresh # {} => Cardinality(DOMAIN entries \cup fresh) <= cap
    /\ DOMAIN entries' = DOMAIN entries \cup fresh
    /\ \A n \in DOMAIN entries : entries'[n] = entries[n]
    /\ \A n \in fresh : entries'[n].needs = {} /\ entries'[n].score = None
    /\ UNCHANGED <<alias, cap>>

Remove(S) ==
    /\ S \subseteq DOMAIN entries
    /\ \A n \in DOMAIN entries \ S : entries[n].needs \cap S = {}
    /\ entries' = [n \in DOMAIN entries \ S |-> entries[n]]
    /\ alias' = [a \in {a \in DOMAIN alias : alias[a] \notin S} |-> alias[a]]
    /\ UNCHANGED cap

Link(n, m) ==
    /\ {n, m} \subseteq DOMAIN entries
    /\ entries' = [entries EXCEPT ![n].needs = @ \cup {m}]
    /\ ~\E S \in SUBSET DOMAIN entries : Circle(S)'
    /\ UNCHANGED <<alias, cap>>

\* Scores and tags change, for registered routes only.
Annotate ==
    /\ DOMAIN entries' = DOMAIN entries
    /\ \A n \in DOMAIN entries : entries'[n].needs = entries[n].needs
    /\ UNCHANGED <<alias, cap>>

Point(a, n) ==
    /\ n \in DOMAIN entries
    /\ a \notin DOMAIN entries \cup DOMAIN alias
    /\ alias' = [x \in DOMAIN alias \cup {a} |-> IF x = a THEN n ELSE alias[x]]
    /\ UNCHANGED <<entries, cap>>

Unpoint(a) ==
    /\ a \in DOMAIN alias
    /\ alias' = [x \in DOMAIN alias \ {a} |-> alias[x]]
    /\ UNCHANGED <<entries, cap>>

SetCap == cap' \in Nat \ {0} /\ UNCHANGED <<entries, alias>>

Next ==
    \/ \E fresh \in SUBSET Names : Register(fresh)
    \/ \E S \in SUBSET Names : Remove(S)
    \/ \E n, m \in Names : Link(n, m)
    \/ Annotate
    \/ \E a, n \in Names : Point(a, n)
    \/ \E a \in Names : Unpoint(a)
    \/ SetCap

Spec == Init /\ [][Next]_vars

=============================================================================
