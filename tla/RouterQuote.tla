---------------------------- MODULE RouterQuote -----------------------------
(***************************************************************************)
(* The router-quote contract: what a route charges for an amount, by its   *)
(* schedule of tiers, its flat fee or the default fee, in that order; and  *)
(* the quotes and comparisons computed from that.                          *)
(*                                                                         *)
(* asked is what the admin last asked for: the contract stores the tiers   *)
(* sorted, prices from them by a scan that stops early, and finds the best *)
(* quote and the sorted list in two loops of their own.                    *)
(*                                                                         *)
(* As elsewhere, nothing uses the definitions named Slip: each misstates   *)
(* the definition after it the way a plausible mistake would.              *)
(***************************************************************************)
EXTENDS Accounts

CONSTANTS
    Routes,           \* route names
    BpsDenominator,   \* BPS_DENOMINATOR, 10000 in the code
    MaxTrackedRoutes, \* MAX_TRACKED_ROUTES, 500 in the code
    MaxFeeTiers,      \* MAX_FEE_TIERS_PER_ROUTE, 100 in the code
    MaxI128           \* the largest i128

CONSTANTS             \* the inputs a run enumerates, and its bounds
    Fees,             \* fees in basis points
    Thresholds,       \* min_amount of tiers
    Amounts,          \* amounts quotes are asked for
    MaxTiers,         \* bound on the tiers of one call
    MaxRequests       \* bound on the requests compared at once

ASSUME QuoteNumbers ==
    /\ {MaxTrackedRoutes, MaxFeeTiers, MaxI128, MaxTiers, MaxRequests} \subseteq Nat
    /\ BpsDenominator \in Nat \ {0}
ASSUME QuoteInputs ==
    /\ Fees \subseteq Nat
    /\ Thresholds \cup Amounts \subseteq {n \in Int : n <= MaxI128}

VARIABLES
    quoteAdmin,  \* Admin
    defaultFee,  \* DefaultFee, None before initialize
    routeFee,    \* RouteFee(route)
    routeTiers,  \* RouteFeeTiers(route)
    configured,  \* ConfiguredRoutes
    asked        \* the tiers last asked for each route, as they were given

quoteVars == <<quoteAdmin, defaultFee, routeFee, routeTiers, configured, asked>>

Tiers == [min : Thresholds, fee : Fees]
ValidFee(fee) == fee <= BpsDenominator

-----------------------------------------------------------------------------
(* Ordered vectors.                                                        *)

\* Where an element of this key goes: before the first of a higher key, or at
\* the end.
FindInsertionIndex(sorted, key) ==
    LET higher == {i \in DOMAIN sorted : key < sorted[i].key}
    IN  IF higher = {} THEN Len(sorted) + 1 ELSE CHOOSE i \in higher : \A j \in higher : i <= j

\* The elements of s, each with its key, inserted one after the other.
Inserted(s, keys) ==
    LET sorted[n \in 0 .. Len(s)] ==
          IF n = 0 THEN << >>
          ELSE LET before == sorted[n - 1]
                   k == FindInsertionIndex(before, keys[n])
               IN  SubSeq(before, 1, k - 1) \o <<[key |-> keys[n], it |-> s[n]]>>
                     \o SubSeq(before, k, n - 1)
        all == sorted[Len(s)]
    IN  [i \in DOMAIN s |-> all[i].it]

SortTiers(tiers) == Inserted(tiers, [i \in DOMAIN tiers |-> tiers[i].min])

-----------------------------------------------------------------------------
(* Entry points.                                                           *)

QuoteInit ==
    /\ quoteAdmin = None
    /\ defaultFee = None
    /\ routeFee = << >>
    /\ routeTiers = << >>
    /\ configured = << >>
    /\ asked = [r \in Routes |-> << >>]

InitializeQuote(newAdmin, fee) ==
    /\ quoteAdmin = None
    /\ ValidFee(fee)
    /\ quoteAdmin' = newAdmin
    /\ defaultFee' = fee
    /\ UNCHANGED <<routeFee, routeTiers, configured, asked>>

\* The index remembers a route for good, and has a capacity.
TrackConfiguredRoute(r) ==
    IF r \in Range(configured)
      THEN UNCHANGED configured
      ELSE /\ Len(configured) < MaxTrackedRoutes
           /\ configured' = Append(configured, r)

SetRouteFee(caller, r, fee) ==
    /\ caller = quoteAdmin
    /\ ValidFee(fee)
    /\ TrackConfiguredRoute(r)
    /\ routeFee' = Put(routeFee, r, fee)
    /\ UNCHANGED <<quoteAdmin, defaultFee, routeTiers, asked>>

UnsetRouteFeeSlip(caller, r) ==
    /\ caller = quoteAdmin
    /\ routeFee' = Delete(routeFee, {r})
    /\ asked' = [asked EXCEPT ![r] = << >>]
    /\ UNCHANGED <<quoteAdmin, defaultFee, routeTiers, configured>>

\* The tiers go with the fee (issue #1183).
UnsetRouteFee(caller, r) ==
    /\ caller = quoteAdmin
    /\ routeFee' = Delete(routeFee, {r})
    /\ routeTiers' = Delete(routeTiers, {r})
    /\ asked' = [asked EXCEPT ![r] = << >>]
    /\ UNCHANGED <<quoteAdmin, defaultFee, configured>>

SetRouteFeeTiers(caller, r, tiers) ==
    /\ caller = quoteAdmin
    /\ Len(tiers) <= MaxFeeTiers
    /\ \A i \in DOMAIN tiers : tiers[i].min >= 0 /\ ValidFee(tiers[i].fee)
    /\ TrackConfiguredRoute(r)
    /\ routeTiers' = Put(routeTiers, r, SortTiers(tiers))
    /\ asked' = [asked EXCEPT ![r] = tiers]
    /\ UNCHANGED <<quoteAdmin, defaultFee, routeFee>>

SetDefaultFee(caller, fee) ==
    /\ caller = quoteAdmin
    /\ ValidFee(fee)
    /\ defaultFee' = fee
    /\ UNCHANGED <<quoteAdmin, routeFee, routeTiers, configured, asked>>

TransferQuoteAdmin(caller, newAdmin) ==
    /\ caller = quoteAdmin
    /\ quoteAdmin' = newAdmin
    /\ UNCHANGED <<defaultFee, routeFee, routeTiers, configured, asked>>

TierLists == UNION {[1 .. n -> Tiers] : n \in 0 .. MaxTiers}

QuoteNext ==
    \E a \in Addresses :
        \/ \E fee \in Fees : InitializeQuote(a, fee) \/ SetDefaultFee(a, fee)
        \/ \E r \in Routes, fee \in Fees : SetRouteFee(a, r, fee)
        \/ \E r \in Routes : UnsetRouteFee(a, r)
        \/ \E r \in Routes, tiers \in TierLists : SetRouteFeeTiers(a, r, tiers)
        \/ \E b \in Addresses : TransferQuoteAdmin(a, b)

QuoteSpec == QuoteInit /\ [][QuoteNext]_quoteVars

-----------------------------------------------------------------------------
(* Queries.  An answer of None stands for an error.                        *)

GetRouteFee(r) == IF r \in DOMAIN routeFee THEN routeFee[r] ELSE defaultFee

GetRouteFeeTiers(r) == IF r \in DOMAIN routeTiers THEN routeTiers[r] ELSE << >>

\* The listing shows a route's lowest tier, whatever the amount.
GetAllConfiguredRoutes ==
    [i \in DOMAIN configured |->
       [route |-> configured[i],
        fee |-> IF GetRouteFeeTiers(configured[i]) # << >>
                  THEN GetRouteFeeTiers(configured[i])[1].fee
                  ELSE GetRouteFee(configured[i])]]

\* The scan stops at the first tier that is not reached.
ResolveRouteFeeBps(r, amount) ==
    LET tiers == GetRouteFeeTiers(r)
        reached == {i \in DOMAIN tiers : \A j \in 1 .. i : amount >= tiers[j].min}
    IN  IF reached # {} THEN tiers[CHOOSE i \in reached : \A j \in reached : j <= i].fee
        ELSE GetRouteFee(r)

\* A request is [route, amount].  The fee is rounded down.
GetQuote(request) ==
    LET bps == ResolveRouteFeeBps(request.route, request.amount)
        fee == (request.amount * bps) \div BpsDenominator
    IN  IF request.amount <= 0 \/ quoteAdmin = None \/ request.amount * bps > MaxI128 THEN None
        ELSE [route |-> request.route, amount |-> request.amount, out |-> request.amount - fee,
              fee |-> fee, bps |-> bps]

\* All or nothing.
GetQuotes(requests) ==
    IF requests = << >> \/ \E i \in DOMAIN requests : GetQuote(requests[i]) = None THEN None
    ELSE [i \in DOMAIN requests |-> GetQuote(requests[i])]

GetBestQuoteSlip(requests) ==
    LET quotes == GetQuotes(requests)
        best[n \in 1 .. Len(requests)] ==
          IF n = 1 THEN quotes[1]
          ELSE IF quotes[n].out >= best[n - 1].out THEN quotes[n] ELSE best[n - 1]
    IN  IF quotes = None THEN None ELSE best[Len(requests)]

\* The first of those with the highest output.
GetBestQuote(requests) ==
    LET quotes == GetQuotes(requests)
        best[n \in 1 .. Len(requests)] ==
          IF n = 1 THEN quotes[1]
          ELSE IF quotes[n].out > best[n - 1].out THEN quotes[n] ELSE best[n - 1]
    IN  IF quotes = None THEN None ELSE best[Len(requests)]

\* Those that can be quoted, by descending output.
GetQuotesSorted(requests) ==
    IF requests = << >> \/ quoteAdmin = None THEN None
    ELSE LET valid == {i \in DOMAIN requests : GetQuote(requests[i]) # None}
             quotes == Kept([i \in DOMAIN requests |-> GetQuote(requests[i])], valid)
         IN  Inserted(quotes, [i \in DOMAIN quotes |-> -quotes[i].out])

-----------------------------------------------------------------------------
(* Properties.                                                             *)

QuoteTypeOK ==
    /\ quoteAdmin \in Addresses \cup {None}
    /\ defaultFee \in (0 .. BpsDenominator) \cup {None}
    /\ quoteAdmin = None <=> defaultFee = None
    /\ routeFee \in [DOMAIN routeFee -> 0 .. BpsDenominator]
    /\ \A r \in DOMAIN routeTiers : routeTiers[r] \in Seq([min : Nat, fee : 0 .. BpsDenominator])
    /\ configured \in Seq(Routes)
    /\ asked \in [Routes -> Seq(Tiers)]

\* The index lists every route with a fee or tiers of its own, once, and never
\* more of them than its capacity, so that the listing leaves none out.
RoutesTracked ==
    /\ IsInjective(configured)
    /\ Len(configured) <= MaxTrackedRoutes
    /\ DOMAIN routeFee \cup DOMAIN routeTiers \subseteq Range(configured)

\* What the docs promise an amount is charged: the fee of the highest tier it
\* reaches among those last asked for (the last given of equal ones), else the
\* flat fee, else the default.
Promised(r, amount) ==
    LET reached == {i \in DOMAIN asked[r] : asked[r][i].min <= amount}
        highest == {i \in reached : \A j \in reached : asked[r][j].min <= asked[r][i].min}
    IN  IF reached = {} THEN GetRouteFee(r)
        ELSE asked[r][CHOOSE i \in highest : \A j \in highest : j <= i].fee

\* Whatever was set, cleared and set again, in whatever order the tiers came,
\* each amount is charged what was asked for it, never more than itself, and
\* what is charged can be found through the index of configured routes.
ChargesAsPromised ==
    /\ QuoteTypeOK
    /\ RoutesTracked
    /\ \A r \in Routes, amount \in Amounts :
          /\ ResolveRouteFeeBps(r, amount) = Promised(r, amount)
          /\ LET quote == GetQuote([route |-> r, amount |-> amount])
             IN  quote # None => quote.out \in 0 .. amount

RequestLists == UNION {[1 .. n -> [route : Routes, amount : Amounts]] : n \in 1 .. MaxRequests}

\* The best quote, when there is one, is the first of the sorted list, ties and
\* all; the list holds every quote that can be given, by descending
\* output.
BestLeadsSorted ==
    quoteAdmin # None => \A requests \in RequestLists :
        LET sorted == GetQuotesSorted(requests)
            valid == {i \in DOMAIN requests : GetQuote(requests[i]) # None}
        IN  /\ GetQuotes(requests) # None => GetBestQuote(requests) = sorted[1]
            /\ Len(sorted) = Cardinality(valid)
            /\ Range(sorted) = {GetQuote(requests[i]) : i \in valid}
            /\ \A i, j \in DOMAIN sorted : i < j => sorted[i].out >= sorted[j].out

=============================================================================
