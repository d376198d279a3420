------------------------- MODULE MCRouterCoreNames -------------------------
(***************************************************************************)
(* RouterCore for TLC without scores and time, over two sets of inputs     *)
(* that together would be too many.  "naming" has batches, tags, caps and  *)
(* a name that is malformed; "graph" has none of them, a fourth route in   *)
(* place of that name, and room in the depth limit for one more link.      *)
(***************************************************************************)
EXTENDS RouterCore, TLC

CONSTANT Odd         \* the name that is malformed in "naming"

VARIABLE inputs      \* which of the two sets a behaviour draws its inputs from

Naming == INSTANCE RouterCore WITH
    WellFormed <- WellFormed \ {Odd}, MaxRecursionDepth <- 1, DefaultMaxRoutes <- 3

Graph == INSTANCE RouterCore WITH
    Contracts <- Contracts \ {ZeroAddress}, Tags <- {}, Metadata <- {None},
    Caps <- {}, MaxBatch <- 0

NamesInit ==
    \/ inputs = "naming" /\ Naming!Init
    \/ inputs = "graph" /\ Graph!Init

NamesNext ==
    /\ \/ inputs = "naming" /\ Naming!Next
       \/ inputs = "graph" /\ Graph!Next
    /\ UNCHANGED inputs

NamesSpec == NamesInit /\ [][NamesNext]_<<vars, inputs>>

ByLiquidity == [liquidity |-> 1, reliability |-> 1, divisor |-> 1]

AnyMetadata == (SUBSET Tags) \cup {None}

NoScores == {}

\* The names well formed in both are interchangeable in every property.
NameSymmetry == Permutations(WellFormed \ {Odd})

=============================================================================
