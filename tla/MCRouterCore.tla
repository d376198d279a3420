---------------------------- MODULE MCRouterCore ----------------------------
(***************************************************************************)
(* RouterCore for TLC with scores, expiry and time over two names.  What   *)
(* takes more names, and no scores or time, is in MCRouterCoreNames.       *)
(***************************************************************************)
EXTENDS RouterCore, TLC

\* The only way score and weights matter is the order they give the routes.
ScoreA == [liquidity |-> 2, fee |-> 0, reliability |-> 0]
ScoreB == [liquidity |-> 0, fee |-> 0, reliability |-> 1]
Bad == [liquidity |-> 3, fee |-> 0, reliability |-> 0]

ByLiquidity == [liquidity |-> 1, reliability |-> 1, divisor |-> 1]
ByReliability == [liquidity |-> 0, reliability |-> 1, divisor |-> 2]
NoDivisor == [liquidity |-> 1, reliability |-> 1, divisor |-> 0]

NoMetadata == {None}
AnyMetadata == (SUBSET Tags) \cup {None}

AllWeights == {ByLiquidity, ByReliability, NoDivisor}
TwoScores == {ScoreA, ScoreB, Bad}

\* Names are interchangeable in every property.
NameSymmetry == Permutations(WellFormed)

=============================================================================
