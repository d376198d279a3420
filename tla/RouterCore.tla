----------------------------- MODULE RouterCore -----------------------------
(***************************************************************************)
(* The router-core contract: a directory of routes with aliases, expiry,   *)
(* pausing, dependencies and scores, and the route resolve answers with.   *)
(*                                                                         *)
(* As in RouterTimelock a call is one atomic action and an error return is *)
(* a guard.  The storage keeps several indexes of the same facts           *)
(* (RouteNames and RouteCount, Aliases, Dependents, BestRoute); each is a  *)
(* variable of its own, updated the way the code updates it.               *)
(***************************************************************************)
EXTENDS Vectors

CONSTANTS
    None,               \* an absent Option or storage key
    Addresses,          \* accounts that call the contract
    Contracts,          \* addresses a route may be registered with
    ZeroAddress,        \* ZERO_ADDRESS_STR
    Names,              \* strings passed as route and alias names
    WellFormed,         \* those validate_route_name accepts as names
    Tags,               \* metadata tags
    DefaultMaxRoutes,   \* DEFAULT_MAX_ROUTES, 1000 in the code
    MaxRecursionDepth,  \* MAX_RECURSION_DEPTH, 10 in the code
    MaxMetadataTags,    \* MAX_METADATA_TAGS, 5 in the code
    MaxScoreValue,      \* MAX_SCORE_VALUE, 100 in the code
    MaxScoringWeight,   \* MAX_SCORING_WEIGHT, 1000 in the code
    MaxLedger           \* the largest u32

CONSTANTS               \* the inputs a run enumerates, and its bounds
    Caps,               \* max_routes passed to initialize and set_max_routes
    Ttls,               \* ledgers passed to the TTL entry points
    Scores,             \* scores [liquidity, fee, reliability]
    Metadata,           \* metadata: a set of tags, None for none
    Weights,            \* scoring weights [liquidity, reliability, divisor]
    DefaultWeights,     \* DEFAULT_SCORING_WEIGHTS
    MaxBatch,           \* bound on the length of a batch
    MaxRouted           \* bound on total_routed

ASSUME NoneAssumption ==
    None \notin Addresses \cup Contracts \cup Names \cup {ZeroAddress} \cup Nat \cup Seq(Names)
ASSUME NameAssumption == WellFormed \subseteq Names
ASSUME NumberAssumption ==
    /\ {DefaultMaxRoutes, MaxRecursionDepth, MaxMetadataTags, MaxScoreValue,
        MaxScoringWeight, MaxLedger, MaxBatch, MaxRouted} \subseteq Nat
    /\ DefaultMaxRoutes > 0
    /\ Caps \subseteq Nat
    /\ Ttls \subseteq Nat
ASSUME MetadataAssumption == Metadata \subseteq (SUBSET Tags) \cup {None}
ASSUME ScoreAssumption ==
    /\ Scores \subseteq [liquidity : Nat, fee : Nat, reliability : Nat]
    /\ Weights \cup {DefaultWeights} \subseteq [liquidity : Int, reliability : Int, divisor : Int]
    /\ DefaultWeights.divisor > 0

VARIABLES
    now,           \* ledger sequence number
    admin,         \* Admin
    paused,        \* Paused
    maxRoutes,     \* MaxRoutes
    weights,       \* ScoringWeights
    totalRouted,   \* TotalRouted
    routes,        \* Route(name) -> [address, paused, expires]
    names,         \* RouteNames
    count,         \* RouteCount
    alias,         \* Alias(name) -> the name it stands for
    aliases,       \* Aliases
    tags,          \* Metadata(name) -> its tags
    score,         \* Score(name)
    dependencies,  \* Dependencies(name), << >> when absent
    dependents,    \* Dependents(name), {} when absent
    best           \* BestRoute

settings == <<admin, paused, maxRoutes, weights, totalRouted>>
directory == <<routes, names, count>>
aliasing == <<alias, aliases>>
graph == <<dependencies, dependents>>
vars == <<now, settings, directory, aliasing, tags, score, graph, best>>

-----------------------------------------------------------------------------
(* Queries the entry points share.  As in RouterTimelock, a definition     *)
(* with Slip in its name is a plausible mistake in the one after it.       *)

Entries == [address : Contracts \ {ZeroAddress}, paused : BOOLEAN,
            expires : (0 .. MaxLedger) \cup {None}]

SaturatingAdd(a, b) == IF a + b > MaxLedger THEN MaxLedger ELSE a + b

Expired(n) == routes[n].expires # None /\ now > routes[n].expires

AvailableSlip(n) == n \in WellFormed /\ n \notin DOMAIN routes

\* validate_route_name: routes and aliases share one name space.
Available(n) == n \in WellFormed /\ n \notin DOMAIN routes /\ n \notin DOMAIN alias

ValidScore(s) == \A v \in {s.liquidity, s.fee, s.reliability} : v <= MaxScoreValue

ValidWeights(w) ==
    /\ w.divisor > 0
    /\ w.liquidity \in 0 .. MaxScoringWeight
    /\ w.reliability \in 0 .. MaxScoringWeight

Composite(w, n) == w.liquidity * score[n].liquidity
                   + w.reliability * score[n].reliability
                   - score[n].fee \div w.divisor

\* The first entry of s that satisfies contends with the highest score.
Winner(s, contends(_), w) ==
    LET field == {i \in DOMAIN s : contends(s[i])}
    IN  IF field = {}
          THEN None
          ELSE s[CHOOSE i \in field : \A j \in field :
                   \/ Composite(w, s[i]) > Composite(w, s[j])
                   \/ Composite(w, s[i]) = Composite(w, s[j]) /\ i <= j]

Contender(n) == n \in DOMAIN routes /\ ~routes[n].paused /\ n \in DOMAIN score

LiveContender(n) == Contender(n) /\ ~Expired(n)

\* The two functions named recompute_best_route: the one in lib.rs lets
\* expired routes win, the one in scoring.rs does not.
BestContender == Winner(names, Contender, weights)
BestLiveContender == Winner(names, LiveContender, weights)

\* get_best_route, while the router is not paused.  It has a formula of its
\* own, that of the default weights whatever weights are set; minScore is None
\* for the smallest i64, which even no candidate at all meets.
GetBestRoute(candidates, minScore, fallback) ==
    LET winner == Winner(candidates, LiveContender, DefaultWeights)
        meets  == \/ minScore = None
                  \/ winner # None /\ Composite(DefaultWeights, winner) >= minScore
    IN  IF meets THEN winner ELSE fallback

\* The cached best route counts only while it exists and has not expired.
CachedBest == IF best \in DOMAIN routes /\ ~Expired(best) THEN best ELSE None

\* The route resolve answers with, whichever name it was asked for.
FinalName(n) ==
    IF CachedBest # None THEN CachedBest
    ELSE IF n \in DOMAIN alias THEN alias[n] ELSE n

Resolves(n) ==
    /\ admin # None
    /\ ~paused
    /\ FinalName(n) \in DOMAIN routes
    /\ ~Expired(FinalName(n))
    /\ ~routes[FinalName(n)].paused

\* validate_dependency_cycle: the walk from a new dependency meets neither the
\* route nor the recursion limit.
NoPathBack(route, dependency) ==
    LET level[k \in Nat] == IF k = 0
                              THEN {dependency}
                              ELSE UNION {Range(dependencies[n]) : n \in level[k - 1]}
    IN  /\ \A k \in 0 .. MaxRecursionDepth : route \notin level[k]
        /\ level[MaxRecursionDepth + 1] = {}

\* A call of resolve_dependencies_recursive: done are the names resolved so far.
WalkCalls == [depth : 0 .. MaxRecursionDepth + 1, name : Names, done : Seq(Names)]

Usable(n) == n \in DOMAIN routes /\ ~routes[n].paused /\ ~Expired(n)

ResolvedFromSlip(name) ==
    LET walk[call \in WalkCalls] ==
          LET needs == dependencies[call.name]
              below[i \in 0 .. Len(needs)] ==
                IF i = 0 THEN call.done
                ELSE IF below[i - 1] = None THEN None
                ELSE walk[[depth |-> call.depth + 1, name |-> needs[i], done |-> below[i - 1]]]
              all == below[Len(needs)]
          IN  IF call.depth > MaxRecursionDepth THEN None
              ELSE IF all = None \/ ~Usable(call.name) THEN None
              ELSE Append(all, call.name)
    IN  walk[[depth |-> 0, name |-> name, done |-> << >>]]

\* resolve_dependencies_recursive: the names in the order they are resolved,
\* None for an error.  A circle would end at the depth limit, if the stack of
\* active names did not end it first.
ResolvedFrom(name) ==
    LET walk[call \in WalkCalls] ==
          LET needs == dependencies[call.name]
              below[i \in 0 .. Len(needs)] ==
                IF i = 0 THEN call.done
                ELSE IF below[i - 1] = None THEN None
                ELSE walk[[depth |-> call.depth + 1, name |-> needs[i], done |-> below[i - 1]]]
              all == below[Len(needs)]
          IN  IF call.depth > MaxRecursionDepth THEN None
              ELSE IF call.name \in Range(call.done) THEN call.done
              ELSE IF all = None \/ ~Usable(call.name) THEN None
              ELSE Append(all, call.name)
    IN  walk[[depth |-> 0, name |-> name, done |-> << >>]]

\* resolve_with_dependencies, while the router is not paused.
WithDependencies(name) == IF name \in DOMAIN routes THEN ResolvedFrom(name) ELSE None

ValidMetadata(metadata) == metadata # None => Cardinality(metadata) <= MaxMetadataTags

HasDependents(n) == dependents[n] # {}

-----------------------------------------------------------------------------
(* The listings, which leave out what has expired.                         *)

AllRoutes == Among(names, {n \in Names : n \in DOMAIN routes => ~Expired(n)})

\* get_routes_paginated, start counting from 0.
RoutesPage(start, limit) ==
    LET end == IF start + limit < Len(AllRoutes) THEN start + limit ELSE Len(AllRoutes)
    IN  SubSeq(AllRoutes, start + 1, end)

RoutesByTag(tag) == Among(AllRoutes, {n \in DOMAIN tags : tag \in tags[n]})

AllTags == UNION {tags[n] : n \in Range(AllRoutes) \cap DOMAIN tags}

Stats ==
    LET number(S) == Len(Among(names, S))
    IN  [total   |-> Len(names),
         expired |-> number({n \in DOMAIN routes : Expired(n)}),
         paused  |-> number({n \in DOMAIN routes : ~Expired(n) /\ routes[n].paused}),
         active  |-> number({n \in DOMAIN routes : ~Expired(n) /\ ~routes[n].paused}),
         scored  |-> number(DOMAIN score)]

-----------------------------------------------------------------------------
(* Pieces of the entry points.                                             *)

\* Store new routes, in the order of fresh; entry[n] is what n is stored with.
EnterRoutes(fresh, entry) ==
    /\ routes' = [n \in DOMAIN routes \cup Range(fresh) |->
                    IF n \in DOMAIN routes THEN routes[n] ELSE entry[n]]
    /\ names' = names \o fresh
    /\ count' = count + Len(fresh)

ClearIndexesSlip(S) ==
    /\ names' = Without(names, S)
    /\ count' = count

\* What remove_route and remove_route_internal clear, for each name of S.
ClearIndexes(S) ==
    /\ names' = Without(names, S)
    /\ count' = IF count > Cardinality(S) THEN count - Cardinality(S) ELSE 0

ClearAliases(S) ==
    /\ alias' = Delete(alias, {a \in Range(aliases) \cap DOMAIN alias : alias[a] \in S})
    /\ aliases' = Without(aliases, {a \in Range(aliases) : a \in DOMAIN alias => alias[a] \in S})

ClearEdgesSlip(S) ==
    /\ dependencies' = [n \in Names |-> IF n \in S THEN << >> ELSE dependencies[n]]
    /\ dependents' = [n \in Names |-> IF n \in S THEN {} ELSE dependents[n]]

ClearEdges(S) ==
    /\ dependencies' = [n \in Names |-> IF n \in S THEN << >> ELSE dependencies[n]]
    /\ dependents' = [n \in Names |->
         IF n \in S THEN {} ELSE {m \in dependents[n] : ~(m \in S /\ n \in Range(dependencies[m]))}]

ClearDetails(S) ==
    /\ tags' = Delete(tags, S)
    /\ score' = Delete(score, S)

ForgetRoutes(S) ==
    /\ routes' = Delete(routes, S)
    /\ ClearDetails(S)
    /\ ClearIndexes(S)
    /\ ClearAliases(S)
    /\ ClearEdges(S)
    /\ UNCHANGED <<now, settings>>
    /\ best' = BestContender'

-----------------------------------------------------------------------------
(* Entry points.                                                           *)

Init ==
    /\ now = 0
    /\ admin = None
    /\ paused = FALSE
    /\ maxRoutes = DefaultMaxRoutes
    /\ weights = DefaultWeights
    /\ totalRouted = 0
    /\ routes = << >> /\ names = << >> /\ count = 0
    /\ alias = << >> /\ aliases = << >>
    /\ tags = << >> /\ score = << >>
    /\ dependencies = [n \in Names |-> << >>]
    /\ dependents = [n \in Names |-> {}]
    /\ best = None

Initialize(newAdmin, cap) ==
    /\ admin = None
    /\ cap # 0
    /\ admin' = newAdmin
    /\ maxRoutes' = IF cap = None THEN DefaultMaxRoutes ELSE cap
    /\ UNCHANGED <<now, paused, weights, totalRouted, directory, aliasing, tags, score, graph, best>>

\* register_route, and register_route_with_ttl without metadata.
Register(n, address, metadata, expires) ==
    /\ Available(n)
    /\ address # ZeroAddress
    /\ count < maxRoutes
    /\ ValidMetadata(metadata)
    /\ EnterRoutes(<<n>>, [m \in {n} |->
           [address |-> address, paused |-> FALSE, expires |-> expires]])
    /\ tags' = IF metadata = None THEN tags ELSE Put(tags, n, metadata)
    /\ UNCHANGED <<now, settings, aliasing, score, graph, best>>

RegisterRoute(caller, n, address, metadata) ==
    /\ caller = admin
    /\ Register(n, address, metadata, None)

RegisterRouteWithTtl(caller, n, address, ttl) ==
    /\ caller = admin
    /\ ttl # 0
    /\ Register(n, address, None, IF ttl = None THEN None ELSE SaturatingAdd(now, ttl))

\* The indices of a batch that register_routes_batch enters: an item needs an
\* available name no earlier valid item took, and room under the cap.
Accepted(items, failFast) ==
    LET valid(i) == Available(items[i].name) /\ items[i].address # ZeroAddress
        sound == {i \in DOMAIN items : valid(i) /\ \A j \in 1 .. i - 1 :
                     items[j].name = items[i].name => ~valid(j)}
        taken == {i \in sound : count + Cardinality({j \in sound : j < i}) < maxRoutes}
    IN  IF failFast /\ taken # DOMAIN items THEN {} ELSE taken

RegisterRoutesBatch(caller, items, failFast) ==
    LET taken == Accepted(items, failFast)
        source(n) == CHOOSE i \in taken : items[i].name = n
    IN  /\ caller = admin
        /\ EnterRoutes(Kept([i \in DOMAIN items |-> items[i].name], taken),
               [n \in {items[i].name : i \in taken} |->
                  [address |-> items[source(n)].address, paused |-> FALSE, expires |-> None]])
        /\ UNCHANGED <<now, settings, aliasing, tags, score, graph, best>>

ExtendRouteTtl(caller, n, ttl) ==
    /\ caller = admin
    /\ ttl > 0
    /\ n \in DOMAIN routes
    /\ ~Expired(n)
    /\ LET base == IF routes[n].expires = None THEN now ELSE routes[n].expires
       IN  routes' = [routes EXCEPT ![n].expires = SaturatingAdd(base, ttl)]
    /\ UNCHANGED <<now, settings, names, count, aliasing, tags, score, graph, best>>

UpdateRoute(caller, n, address) ==
    /\ caller = admin
    /\ address # ZeroAddress
    /\ n \in DOMAIN routes
    /\ routes' = [routes EXCEPT ![n].address = address]
    /\ UNCHANGED <<now, settings, names, count, aliasing, tags, score, graph, best>>

RemoveRoute(caller, n) ==
    /\ caller = admin
    /\ n \in DOMAIN routes
    /\ ~HasDependents(n)
    /\ ForgetRoutes({n})

RemovedSlip(ns) ==
    LET gone[k \in 0 .. Len(ns)] ==
          IF k = 0 THEN {}
          ELSE IF ns[k] \in DOMAIN routes \ gone[k - 1] /\ dependents[ns[k]] \subseteq Range(ns)
                 THEN gone[k - 1] \cup {ns[k]}
                 ELSE gone[k - 1]
    IN  gone[Len(ns)]

\* The loop of remove_routes_batch: gone[k] holds the routes removed by the
\* first k names; a removal takes its edges out of dependents.
Removed(ns) ==
    LET gone[k \in 0 .. Len(ns)] ==
          IF k = 0 THEN {}
          ELSE LET before == gone[k - 1]
                   needed == {m \in dependents[ns[k]] :
                                ~(m \in before /\ ns[k] \in Range(dependencies[m]))}
               IN  IF ns[k] \in DOMAIN routes \ before /\ needed = {}
                     THEN before \cup {ns[k]}
                     ELSE before
    IN  gone[Len(ns)]

\* With fail_fast every name is checked against the storage before the batch;
\* a failure returns early, without refreshing the best route.
RemoveRoutesBatch(caller, ns, failFast) ==
    /\ caller = admin
    /\ failFast => /\ IsInjective(ns)
                   /\ \A n \in Range(ns) : n \in DOMAIN routes /\ ~HasDependents(n)
    /\ ForgetRoutes(Removed(ns))

Resolve(n) ==
    /\ totalRouted < MaxRouted
    /\ Resolves(n)
    /\ totalRouted' = totalRouted + 1
    /\ UNCHANGED <<now, admin, paused, maxRoutes, weights, directory, aliasing, tags, score,
                   graph, best>>

\* Each name is resolved on its own; the failures are only reported.
BatchResolve(ns) ==
    LET resolved == {i \in DOMAIN ns : Resolves(ns[i])}
    IN  /\ totalRouted + Cardinality(resolved) <= MaxRouted
        /\ totalRouted' = totalRouted + Cardinality(resolved)
        /\ UNCHANGED <<now, admin, paused, maxRoutes, weights, directory, aliasing, tags,
                       score, graph, best>>

SetRoutePausedSlip(caller, n, on) ==
    /\ caller = admin
    /\ n \in DOMAIN routes
    /\ routes' = [routes EXCEPT ![n].paused = on]
    /\ UNCHANGED <<now, settings, names, count, aliasing, tags, score, graph, best>>

SetRoutePaused(caller, n, on) ==
    /\ caller = admin
    /\ n \in DOMAIN routes
    /\ routes' = [routes EXCEPT ![n].paused = on]
    /\ UNCHANGED <<now, settings, names, count, aliasing, tags, score, graph>>
    /\ best' = BestContender'

SetPaused(caller, on) ==
    /\ caller = admin
    /\ paused' = on
    /\ UNCHANGED <<now, admin, maxRoutes, weights, totalRouted, directory, aliasing, tags, score,
                   graph, best>>

SetRouteDependency(caller, n, dependency) ==
    /\ caller = admin
    /\ {n, dependency} \subseteq DOMAIN routes
    /\ n # dependency
    /\ NoPathBack(n, dependency)
    /\ dependency \notin Range(dependencies[n])
    /\ dependencies' = [dependencies EXCEPT ![n] = Append(@, dependency)]
    /\ dependents' = [dependents EXCEPT ![dependency] = @ \cup {n}]
    /\ UNCHANGED <<now, settings, directory, aliasing, tags, score, best>>

\* update_metadata; add_route_tag and remove_route_tag change one tag.
UpdateMetadata(caller, n, metadata) ==
    /\ caller = admin
    /\ n \in DOMAIN routes
    /\ ValidMetadata(metadata)
    /\ tags' = IF metadata = None THEN Delete(tags, {n}) ELSE Put(tags, n, metadata)
    /\ UNCHANGED <<now, settings, directory, aliasing, score, graph, best>>

AddRouteTag(caller, n, tag) ==
    LET held == IF n \in DOMAIN tags THEN tags[n] ELSE {}
    IN  /\ caller = admin
        /\ n \in DOMAIN routes
        /\ tag \notin held
        /\ ValidMetadata(held \cup {tag})
        /\ tags' = Put(tags, n, held \cup {tag})
        /\ UNCHANGED <<now, settings, directory, aliasing, score, graph, best>>

RemoveRouteTag(caller, n, tag) ==
    /\ caller = admin
    /\ n \in DOMAIN routes \cap DOMAIN tags
    /\ tag \in tags[n]
    /\ tags' = [tags EXCEPT ![n] = @ \ {tag}]
    /\ UNCHANGED <<now, settings, directory, aliasing, score, graph, best>>

SetMaxRoutes(caller, cap) ==
    /\ caller = admin
    /\ cap > 0
    /\ maxRoutes' = cap
    /\ UNCHANGED <<now, admin, paused, weights, totalRouted, directory, aliasing, tags, score,
                   graph, best>>

AddAlias(caller, n, a) ==
    /\ caller = admin
    /\ n \in DOMAIN routes
    /\ Available(a)
    /\ alias' = Put(alias, a, n)
    /\ aliases' = IF a \in Range(aliases) THEN aliases ELSE Append(aliases, a)
    /\ UNCHANGED <<now, settings, directory, tags, score, graph>>
    /\ best' = BestLiveContender'

RemoveAlias(caller, a) ==
    /\ caller = admin
    /\ a \in DOMAIN alias
    /\ alias' = Delete(alias, {a})
    /\ aliases' = Without(aliases, {a})
    /\ UNCHANGED <<now, settings, directory, tags, score, graph>>
    /\ best' = BestLiveContender'

SetScoringWeights(caller, w) ==
    /\ caller = admin
    /\ ValidWeights(w)
    /\ weights' = w
    /\ UNCHANGED <<now, admin, paused, maxRoutes, totalRouted, directory, aliasing, tags, score,
                   graph>>
    /\ best' = BestContender'

\* set_route_scores_batch, and set_route_score with a single name.  The last
\* score given for a name is the one that stays.
SetRouteScores(caller, scores) ==
    /\ caller = admin
    /\ DOMAIN scores \subseteq DOMAIN routes
    /\ \A n \in DOMAIN scores : ValidScore(scores[n])
    /\ score' = [n \in DOMAIN score \cup DOMAIN scores |->
                   IF n \in DOMAIN scores THEN scores[n] ELSE score[n]]
    /\ UNCHANGED <<now, settings, directory, aliasing, tags, graph>>
    /\ best' = BestContender'

TransferAdmin(caller, newAdmin) ==
    /\ caller = admin
    /\ admin' = newAdmin
    /\ UNCHANGED <<now, paused, maxRoutes, weights, totalRouted, directory, aliasing, tags, score,
                   graph, best>>

\* A later ledger closes, however much later: routes expire without any call.
Tick ==
    /\ now' \in now + 1 .. MaxLedger
    /\ UNCHANGED <<settings, directory, aliasing, tags, score, graph, best>>

BatchesOf(S) == UNION {[1 .. k -> S] : k \in 1 .. MaxBatch}
Items == [name : Names, address : Contracts]
ScoreMaps == UNION {[S -> Scores] : S \in {S \in SUBSET Names : Cardinality(S) <= MaxBatch}}

ManageRoutes(a) ==
    \/ \E n \in Names, c \in Contracts, m \in Metadata : RegisterRoute(a, n, c, m)
    \/ \E n \in Names, c \in Contracts, t \in Ttls \cup {None} : RegisterRouteWithTtl(a, n, c, t)
    \/ \E items \in BatchesOf(Items), f \in BOOLEAN : RegisterRoutesBatch(a, items, f)
    \/ \E n \in Names, t \in Ttls : ExtendRouteTtl(a, n, t)
    \/ \E n \in Names, c \in Contracts : UpdateRoute(a, n, c)
    \/ \E n \in Names : RemoveRoute(a, n)
    \/ \E ns \in BatchesOf(Names), f \in BOOLEAN : RemoveRoutesBatch(a, ns, f)
    \/ \E n \in Names, on \in BOOLEAN : SetRoutePaused(a, n, on)
    \/ \E n, d \in Names : SetRouteDependency(a, n, d)

ManageDetails(a) ==
    \/ \E n \in Names, m \in Metadata : UpdateMetadata(a, n, m)
    \/ \E n \in Names, t \in Tags : AddRouteTag(a, n, t) \/ RemoveRouteTag(a, n, t)
    \/ \E n, x \in Names : AddAlias(a, n, x)
    \/ \E x \in Names : RemoveAlias(a, x)
    \/ \E scores \in ScoreMaps : SetRouteScores(a, scores)

Configure(a) ==
    \/ \E on \in BOOLEAN : SetPaused(a, on)
    \/ \E cap \in Caps : SetMaxRoutes(a, cap)
    \/ \E w \in Weights : SetScoringWeights(a, w)
    \/ \E b \in Addresses : TransferAdmin(a, b)

Next ==
    \/ \E a \in Addresses, cap \in Caps \cup {None} : Initialize(a, cap)
    \/ \E a \in Addresses : ManageRoutes(a)
    \/ \E a \in Addresses : ManageDetails(a)
    \/ \E a \in Addresses : Configure(a)
    \/ \E n \in Names : Resolve(n)
    \/ \E ns \in BatchesOf(Names) : BatchResolve(ns)
    \/ Tick

Spec == Init /\ [][Next]_vars

-----------------------------------------------------------------------------
(* Properties.                                                             *)

TypeOK ==
    /\ now \in 0 .. MaxLedger
    /\ admin \in Addresses \cup {None}
    /\ paused \in BOOLEAN
    /\ maxRoutes \in Nat \ {0}
    /\ weights \in Weights \cup {DefaultWeights}
    /\ totalRouted \in 0 .. MaxRouted
    /\ routes \in [DOMAIN routes -> Entries] /\ DOMAIN routes \subseteq WellFormed
    /\ names \in Seq(Names) /\ count \in Nat
    /\ alias \in [DOMAIN alias -> Names] /\ DOMAIN alias \subseteq WellFormed
    /\ aliases \in Seq(Names)
    /\ tags \in [DOMAIN tags -> SUBSET Tags]
    /\ score \in [DOMAIN score -> Scores]
    /\ dependencies \in [Names -> Seq(Names)]
    /\ dependents \in [Names -> SUBSET Names]
    /\ best \in Names \cup {None}

\* The indexes say what the keyed storage says: RouteNames lists the registered
\* routes once each, RouteCount is their number, Aliases lists the aliases once
\* each, and metadata and scores exist for registered routes only (issue #1436:
\* a removed route leaves nothing behind for a later one of its name).
IndexesExact ==
    /\ TypeOK
    /\ IsInjective(names) /\ Range(names) = DOMAIN routes
    /\ count = Len(names)
    /\ IsInjective(aliases) /\ Range(aliases) = DOMAIN alias
    /\ \A n \in Names : IsInjective(dependencies[n])
    /\ DOMAIN tags \subseteq DOMAIN routes
    /\ DOMAIN score \subseteq DOMAIN routes

\* A name means one thing: no alias has the name of a route, and every alias
\* stands for a registered route, whatever is removed.
NamesUnambiguous ==
    /\ DOMAIN alias \cap DOMAIN routes = {}
    /\ Range(alias) \subseteq DOMAIN routes

\* Dependents is exactly the inverse of Dependencies, and both ends of every
\* edge are registered: route_has_dependents may trust the index alone.
EdgesMirrored ==
    \A n, m \in Names :
        /\ m \in Range(dependencies[n]) <=> n \in dependents[m]
        /\ m \in Range(dependencies[n]) => {n, m} \subseteq DOMAIN routes

\* No set of routes in which each depends on another of the set: following
\* dependencies always ends, although the cycle check gives up at a depth.
DependenciesAcyclic ==
    \A S \in SUBSET Names : S # {} => \E n \in S : Range(dependencies[n]) \cap S = {}

\* The routes that lie k steps from a route along its dependencies.
StepsAway(name, k) ==
    LET level[i \in 0 .. k] == IF i = 0
                                 THEN {name}
                                 ELSE UNION {Range(dependencies[n]) : n \in level[i - 1]}
    IN  level[k]
\* The routes a route needs, itself included: the least set that has it and,
\* with every route, those it depends on.
NeedsInside(S) == \A n \in S : Range(dependencies[n]) \subseteq S
Needed(name) == {m \in Names : \A S \in SUBSET Names : name \in S /\ NeedsInside(S) => m \in S}

\* resolve_with_dependencies answers with each needed route once, after the
\* routes it needs itself, all of them live; and it only fails for a reason: a
\* route that is paused, has expired, or lies deeper than the limit.  (Deeper
\* routes may be met by a shorter path first, so that not every such graph
\* fails: it depends on the order in which dependencies were added.)
ResolvesInOrder ==
    \A n \in DOMAIN routes :
        LET answer == WithDependencies(n)
        IN  IF answer # None
              THEN /\ IsInjective(answer)
                   /\ Range(answer) = Needed(n)
                   /\ \A j \in DOMAIN answer :
                        /\ Usable(answer[j])
                        /\ Range(dependencies[answer[j]]) \subseteq {answer[i] : i \in 1 .. j - 1}
              ELSE \/ StepsAway(n, MaxRecursionDepth + 1) # {}
                   \/ \E m \in Needed(n) : ~Usable(m)

\* Following dependencies is safe: the two directions agree and no walk runs in
\* a circle.
GraphSound == EdgesMirrored /\ DependenciesAcyclic

\* The listings partition what is stored as resolve judges it: what a page
\* shows would resolve if asked for by name, unless paused; the counts add up
\* to the routes registered; and a tag is in use when some route has it.
ListingsAgree ==
    /\ Stats.active + Stats.paused + Stats.expired = count
    /\ Stats.active + Stats.paused = Len(AllRoutes)
    /\ Stats.active = Cardinality({n \in DOMAIN routes : ~Expired(n) /\ ~routes[n].paused})
    /\ Stats.scored = Cardinality(DOMAIN score)
    /\ AllTags = {t \in Tags : RoutesByTag(t) # << >>}
    /\ \A k \in 0 .. Len(names) :
          RoutesPage(0, k) \o RoutesPage(k, Len(names)) = AllRoutes
    /\ \A n \in Range(AllRoutes) : ~routes[n].paused /\ ~paused /\ CachedBest = None =>
          Resolves(n)

\* While the cached best route counts, it is the best of the live ones, and
\* when nothing is cached there is none, whichever of the two recomputations
\* ran last and whatever expired since.
BestRouteCurrent ==
    /\ best # None => Contender(best)
    /\ CachedBest # None => CachedBest = BestLiveContender
    /\ best = None => BestLiveContender = None
    /\ weights = DefaultWeights /\ CachedBest # None =>
          GetBestRoute(names, None, None) = CachedBest

\* What the router shows of its routes is what it serves: in the listings, and
\* in the route it picks when it may choose.
ServedAsListed == BestRouteCurrent /\ ListingsAgree

\* The doc of resolve: "the highest-scoring non-paused, non-expired route is
\* returned automatically in O(1)", falling back only "if no scored, eligible
\* route exists".
ResolvePicksBestLive ==
    ~paused /\ BestLiveContender # None => \A n \in Names : FinalName(n) = BestLiveContender

\* The doc of resolve: the call fails with RouteNotFound "if no route with
\* `name` exists".
ResolveNeedsTheRoute ==
    \A n \in Names : Resolves(n) => n \in DOMAIN routes \cup DOMAIN alias

\* The abstract directory: what is attached to each registered route.  Its
\* steps need no index, so that the contract implements it says that the
\* indexes never mislead an entry point: no call, batch or not, removes a route
\* that another needs, leaves an alias behind, hands a removed route's score or
\* dependencies to its successor, closes a circle or passes the cap.
Entered == [n \in DOMAIN routes |->
              [needs |-> Range(dependencies[n]),
               score |-> IF n \in DOMAIN score THEN score[n] ELSE None,
               tags  |-> IF n \in DOMAIN tags THEN tags[n] ELSE None]]

Directory == INSTANCE RouteDirectory WITH entries <- Entered, cap <- maxRoutes

KeepsDirectory == Directory!Spec

=============================================================================
