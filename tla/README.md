# stellar-router in TLA+

TLA+ models of the Soroban contracts of this repository and of its two services,
the TLC runs that check them on small instances, and TLAPS proofs of what
matters most for every value of the constants. `PROJECT.json` lists the runs,
the source lines behind each definition, the hazards the properties are aimed at
and the theorems.

- [The system](#the-system)
- [How the code becomes a model](#how-the-code-becomes-a-model)
- [router-timelock](#router-timelock)
- [router-core](#router-core)
- [router-access](#router-access)
- [router-middleware](#router-middleware)
- [router-multicall](#router-multicall)
- [The parts that stand alone](#the-parts-that-stand-alone): registry, execution, quote, collector, address limiter
- [The api-server's status hub](#the-api-servers-status-hub)
- [The exporter's server](#the-exporters-server)
- [What is proved](#what-is-proved)
- [Where the code departs from its comments](#where-the-code-departs-from-its-comments)
- [What is not modelled](#what-is-not-modelled)
- [Plan](#plan)

Everything is run in this directory:

    tlc -workers 2 -config MCTimelockHistory.cfg MCTimelockHistory.tla
    tlapm RouterTimelockProofs.tla      # likewise RouterCoreProofs, RouterAccessProofs, RouterMiddlewareProofs,
                                        # RouterMulticallProofs, ServiceProofs, StandaloneProofs, VectorLemmas

## The system

A suite of Soroban (Stellar) smart contracts plus two off-chain services.

| component | state it keeps | operations | what makes it correct |
|---|---|---|---|
| **router-timelock** | admin, minimum delay, pending cap, operations and their dependencies, an index of pending and one of finalized operations | initialize, queue, cancel, execute, update_description, cleanup_expired, set_min_delay, transfer_admin | nothing is executed early, late, twice or before its dependencies; indexes, listings and storage agree; reclaiming storage never breaks a live operation |
| **router-core** | admin, pause flag, caps, routes with expiry, aliases, tags, scores and weights, the dependency graph with its inverse, the cached best route | register (single, with TTL, batch), update, remove (single, batch), resolve (single, batch, with dependencies), pause, alias, tag, score, link, configure | one name means one thing; removal leaves nothing behind; the graph stays acyclic and mirrored; cache and listings answer like the scan they replace |
| **router-registry** | versioned contract entries, version lists, name list, address index | register (checked, bulk), deprecate (one, many, all), constraint lookups | versions sorted and complete; deprecation permanent; lookup picks the greatest allowed version |
| **router-access** | super admin, roles with expiry, role parents, blacklist, member and role indexes, counts | grant, revoke, expire, blacklist, hierarchy, transfer | indexes and counts match the grants; no hierarchy circle; every record of a member is listed, expired or barred |
| **router-middleware** | per-route configuration, rate windows, circuit breakers, call log, guard | configure, pre_call, post_call, resets | breaker transitions, window limits, bounded log; views predict enforcement |
| **router-multicall** | admin, batch limits, stored results of the last batches, re-entrancy guard | execute_batch, set_max_batch_size | a required failure leaves nothing; stored window contiguous; guard released |
| **router-execution** | retry and backoff settings, counters, a history of the executions that succeeded | execute with retries and an optional first simulation, simulate, estimate_fee | one effect per execution or none; attempts and delays as announced and bounded |
| **router-quote** | default fee, fee and tier schedule per route, index of configured routes | set and unset fees and tiers; one, many, best, sorted quotes | every amount is charged what was last asked for it; the best quote is the one sorted first |
| **router-common** | none | admin macros, TTL extension, event names | guards used by every contract |
| **api-server** | WebSocket subscriptions, connection slots, a broadcast channel, rate buckets per address | WebSocket tasks, POST /simulate, the sweeper, graceful shutdown | who watches a transaction hears how it ended; counters cover what is open; a window admits its limit |
| **metrics exporter** | gauges, rate buckets and their eviction order, nonce cache | scrape loop, /metrics, /ready, /health | no replay accepted; nobody refused early; gauges as fresh as readiness says |

The contracts do not call each other's storage; router-multicall and
router-execution call other contracts through the host, and the timelock's and
the core's admin may be any account, so the contracts are modelled apart. The
services read the contracts through an RPC node, which may fail or lag; they
never write.

**What is hard.** In the contracts there are no threads: the host runs one
invocation at a time and an error rolls all of it back. The hard parts are
elsewhere: every contract keeps several *indexes of the same facts* (a list, a
count, an inverse, a cache) that a dozen entry points must update alike; *time*
changes answers without any call (operations, routes and grants expire); *storage
is reclaimed* and names or ids are used again; *batches* go on past failed items;
calls to other contracts *fail and are retried*; the *order* of legal
calls by admins, keepers and users is arbitrary. The services are concurrent:
tasks *interleave* on shared maps, a receiver *lags* behind a channel, clients
leave half-way, shutdown *races* what is in flight, and a scrape fails after it
has set half of its gauges.

## How the code becomes a model

- One action per entry point that changes storage. `Err` and panics are rolled
  back by the host, so an error return is a guard, not a step. `require_auth`
  means the caller is who it says; the admin check is the guard `caller = admin`.
- Where other code runs between two steps of one invocation (multicall,
  execution) or of one task (the services), each step is an action: one call out,
  or one atomic access to a shared map, counter or channel.
- A family of keys (`DataKey::Op(id)`) is a function whose domain is the set of
  keys present; a `Vec` is a sequence. `Vectors.tla` holds the few operations
  used on them: `Kept`, `Without` and `Among` (rebuild a vector without some entries, or
  with only some), `Put`, `Delete`. `Accounts.tla` adds what registry, execution and quote share.
- The ledger clock only moves forward, by any amount: `Tick`. A ledger closes every few
  seconds, so a time no ledger has may be the very one something was due or expired at.
- Queries that only read are operators; properties compare them with the state.
- Strings, addresses and payloads are members of small sets; hashes are records
  of what is hashed, hence collision free. Events and storage TTL are left out.
  Unsigned integers keep their limit (`MaxTimestamp`, `MaxLedger`, `MaxU64`,
  `MaxI128`) where the code checks for overflow or saturates.
- Recursion that the code bounds by a depth is a recursive function of that
  depth (`WithinDepth`, `HasBlockedDependency`, `NoPathBack`, `ResolvedFrom`), so
  the modules stay within what the prover reads.
- A definition named `...Slip` is a plausible mistake in the definition after it
  (a dropped guard, an off-by-one, a missing reset). Nothing uses it; the lists
  below say which property fails when it takes that definition's place. They
  show that each property depends on the code it is about.

## router-timelock

| module | role |
|---|---|
| `RouterTimelock` | the contract; properties; the inductive invariant `IInv` |
| `RouterTimelockHistory` | the contract plus the set of operations ever executed |
| `TimelockPromise` | what the contract promises, without storage, index or status |
| `MCTimelock`, `MCTimelockHistory` | instances for TLC |
| `RouterTimelockProofs` | the proofs |

Variables are the storage keys: `ops` is `Op(id)`, `deps` is `Deps(id)`,
`pending` and `finalized` are the two index vectors. `Queue`, `Cancel`,
`Execute`, `UpdateDescription`, `CleanupExpired`, `SetMinDelay`,
`TransferAdmin`, `Initialize` are the entry points; `Status` is
get_operation_status, `OperationsByStatus`, `OperationCountByStatus` and
`PendingOperations` the listings, each with its own conditions. `CleanupExpired`
walks both vectors in order up to its limit and keeps what live pending
operations reference, as the code does.

| run | shows | bounds |
|---|---|---|
| `timelock_safety` | `IInv`, `NoLiveCycle`, `ListingsAgree`, `StatusLifecycle` and the refinement `KeepsPromise` | one admin, three ids (etas 1 to 3, time 0 to 3), up to two dependencies each, graces 0 and 1 so that `eta + grace` both fits and overflows, cap 2 or none, clean-up limits 1 and 2, depth limit 1 so that chains reach it and circles of two would not |
| `timelock_liveness` | `Reclaimed` | time to 5, etas to 3, so that every window can end and queueing ceases |

`KeepsPromise` covers the terms an operation was announced with: they do not
change while it waits, whatever becomes of the admin and the minimum delay.
`StatusLifecycle` says how a status may follow another, however much time passes in
between: a clock that jumps over a whole window takes a queued operation straight to
expired, but none is executed that was not ready, and an operation blocked by one
that can never be executed is never ready again, through expiry and reclamation of
what it depends on. `ListingsAgree` compares the listings with the status, and the
count of a status, which has conditions of its own (`CountedAs`), with both.
Three ids are enough for a circle longer than a pair, for a chain beyond the
depth limit and for a clean-up that stops between entries; times to 3 with
delays from 1 let an id be queued, finalized, reclaimed and queued again.

Fairness in `timelock_liveness`: `WF_vars(Tick)` (ledgers keep closing) and
`WF_vars(Cleanup)`: cleanup_expired needs no admin, so any keeper may call it,
with a limit above zero. Nothing is asked of the admin but what `Reclaimed` states as
its premise, `QueueingCeases`: an admin who goes on queueing operations that depend on
an expired one keeps it stored for as long, because clean-up spares what a live
operation depends on.

Slips: `DueSlip` (one ledger early) breaks `IInv`; `ReferencedSlip` (protecting
only what is already due) `NoLiveCycle`; `ListedAsSlip` (blocked operations not
left out of ready and queued) `ListingsAgree`; `DependenciesExecutedSlip`
(cancelled counts as done) `StatusLifecycle`; `IsExpiredSlip` `KeepsPromise`;
`PendingGarbageSlip` `Reclaimed`.

## router-core

| module | role |
|---|---|
| `RouterCore` | the contract; properties; the mapping to `RouteDirectory` |
| `RouteDirectory` | the directory it implements, without index, cache or depth limit |
| `MCRouterCore` | scores, weights, metadata and symmetry for TLC |
| `MCRouterCoreNames` | two instances of `RouterCore` with inputs of their own, and a specification that behaves like either |
| `RouterCoreProofs` | proofs of its properties and of the refinement |

Each index is a variable updated the way the code updates it: `names` and
`count` (RouteNames, RouteCount), `alias` and `aliases`, `dependencies` and
`dependents`, `best` (BestRoute). `ForgetRoutes` is what both removal functions
clear; `Removed` is the loop of remove_routes_batch, where a removal frees the
next one; `Accepted` the items register_routes_batch enters in either mode.
`BestContender` and `BestLiveContender` are the *two* functions named
recompute_best_route: the one in `lib.rs` lets an expired route win, the one in
`scoring.rs`, used by the alias entry points, does not. Of the queries,
`GetBestRoute`, `WithDependencies` (resolve_with_dependencies, its recursion as
`ResolvedFrom`), `AllRoutes`, `RoutesPage`, `RoutesByTag`, `AllTags` and `Stats`
are modelled.

| run | shows | bounds |
|---|---|---|
| `core_names` | `IndexesExact`, `NamesUnambiguous`, `GraphSound`, `ResolvesInOrder` and the refinement `KeepsDirectory` | no scores or time, and one of two sets of inputs: three well-formed names and one malformed, batches of two, caps 0, 2 and 3, one tag, depth limit 1 so that the check gives up within three names; or four names, single entry points, depth limit 2: diamonds, and chains that pass the limit |
| `core_selection` | `ServedAsListed`: the cached best route and all listings | two names, times to 3, TTLs of 1, one tag, two valid scores and an invalid one, three weightings of which one is invalid, ordering the scores both ways |

The inputs are split because their product is out of reach: an empty set of
TTLs, scores or weights switches the entry points that need it off. Every entry
point fires in some run.

The cache is right in a precise sense: while the cached route counts (exists and
has not expired) it *is* the best live route. What it does not guarantee is
listed below. `ResolvesInOrder` says what a route gets from
resolve_with_dependencies: all it needs, each once, needs first, all live; or an
error, and then something it needs is not live, or lies deeper than the limit
along *some* path. Whether a diamond at the limit resolves depends on the order
its edges were added in, because the depth is checked before a route already
resolved is recognised.

Slips: `ClearIndexesSlip` (counter kept) breaks `IndexesExact`; `AvailableSlip`
(aliases not consulted) `NamesUnambiguous`; `RemovedSlip` (an item is free to go
when all that need it are in the batch, whether or not they go themselves)
`KeepsDirectory`; `ClearEdgesSlip` (inverse not updated) `GraphSound`;
`ResolvedFromSlip` (what is resolved is not recognised) `ResolvesInOrder`;
`SetRoutePausedSlip` (cache not refreshed) `ServedAsListed`.

## router-access

| module | role |
|---|---|
| `RouterAccess` | the contract; properties |
| `MCAccess` | limits and symmetry for TLC |
| `RouterAccessProofs` | proofs of its properties |

A grant is recorded under HasRole and RoleExpiry (`holds`, `expiry`), in
RoleMembers and AddressRoles (`members`, `addressRoles`) and in RoleMemberCount
(`count`). `Granted` is the loop of grant_role_batch: the positions of a batch
that get the grant, each judged by `GetsGrant` after the ones before it.
`Activate` and `Deactivate` are the helpers that write the records. `Ancestor` is
the walk up the hierarchy and `Lineage` the roles it meets. `RoleMembers`,
`IsRoleExpired` and `HasRole` are the queries that `MembersAccountedFor` relates.

grant_role_internal is left half merged in the tree and does not compile: it
holds both the version before issue #1433 and the one after it. The model
follows the comment of #1433, which the other half agrees with in effect: every
check first, then the role is listed, then activate_role_grant once.

Run `access`: two accounts, two roles, grants that run out at the next tick,
batches of two (which may repeat an account), caps of one and two members and
one and two roles changed at any time, hierarchy limit 3. Two accounts are
enough for a transfer, an inheritance and a blacklisting of either side of it. Two
roles never reach the depth limit; that chains can outgrow it is said below.

`MembersAccountedFor` explains every *record* of a member: it is listed, reported
expired or barred. get_role_members does not list who holds a role by inheritance;
of those the property says that some grant on the account's own list carries the
role and has not run out.

Slips: `DeactivateSlip` (the account's list kept) breaks `RecordsAgree`;
`HasDirectRoleSlip` (the ledger of expiry excluded) `MembersAccountedFor`;
`NoRoleParentCycleSlip` (only a role that is its own parent refused)
`HierarchyAcyclic`; `UnblacklistSlip` (count not restored) `NeverUndercounts`;
`SetRoleParentSlip` (both roles held against the same room) `RolesWithinCap`.

## router-middleware

| module | role |
|---|---|
| `RouterMiddleware` | the contract for one route, with views |
| `RouterMiddlewareHistory` | what storage forgets: admissions, reports, failures in a row, the time of opening |
| `MCMiddleware` | route configurations for TLC |
| `RouterMiddlewareProofs` | proofs of its safety properties |

`rates`, `breaker` and `pruned` are the route's RouteCallState and the time of
its last prune, `log` is the ring of entries with its head and count, `override`
the callers' own limits. `PreCall` is the whole hook: switches, breaker
transition, prune, window, limit. A call over the limit under the strategy
"reject" is an error, so its count of violations is rolled back with it; the
other strategies record it. `ConfigureRoute` reallocates the log when its size
changes. `BreakerView`, `RateLimitState`, `RouteRateLimitStats`, `ReadLog`,
`CallLogFiltered` and `CallLogLength` are the views. reset_guard is not an
action: the guard is set and removed within pre_call, which calls nobody, so it
is never seen set.

| run | shows | bounds |
|---|---|---|
| `middleware_rates` | `ViewPredictsPreCall`, `LimitHolds` | two callers, limits with a burst and with overrides of other windows, five calls in times 0 to 5, prune interval 2 so that pruning falls inside and outside windows |
| `middleware_state` | `LogIsTail`, `TripsAtThreshold`, `OpenBlocks`, `CircuitRecovers` | thresholds 0 to 2, recovery 0 to 2, log sizes 0 to 2 and one too many, four reports in a log (two rounds of the ring), times 0 to 4 |

The runs split the inputs, limits in one and reports in the other; they meet only
in `PreCall`, whose breaker part is in both. Rate limits and breaker share no
state.

`LimitHolds` says what fixed windows do guarantee: fewer than twice the limit in
any stretch of one window's length, through pruning and resets. `OpenBlocks` also
says that a call finds the circuit as the view showed it just before. `CircuitRecovers` is exercised
with a recovery window of 1 only, and the sum of opening and window never saturates in
the runs: that is left to the theorem `CircuitBlocks`.

Fairness in `middleware_state`: `WF(Tick)`, and `WF` of some caller's `PreCall`
(someone keeps calling the route; without calls an open circuit stays open, by
design). Reports of failures cease at `ReportsUntil`: without that bound late
failures postpone recovery for ever, see below.

Slips: `EffectiveWindowSlip` (override's window ignored, issue #1196) breaks
`ViewPredictsPreCall`; `CheckAndIncrementSlip` (window start not reset)
`LimitHolds`; `AppendLogSlip` (count taken for length, issue #812) `LogIsTail`;
`HandleFailureSlip` (one failure more) `TripsAtThreshold`; `RecoveredSlip`
(a window of 0 recovers at once) `OpenBlocks`; `BlockedSlip` (no recovery)
`CircuitRecovers`.

## router-multicall

| module | role |
|---|---|
| `RouterMulticall` | the contract, a batch being an invocation of several steps |
| `AtomicBatches` | batches that happen in one step |
| `MCMulticall` | calls for TLC |
| `RouterMulticallProofs` | the proofs |

Other contracts run during a batch. `frame` is the invocation
under way and what the host would roll back to; `Begin` makes the checks,
`CallSucceeds`, `OptionalCallFails` and `RequiredCallFails` are the calls,
`Finish` stores, prunes and returns, `Trap` is the host ending it when the
instruction budget is spent. The host lets no called contract call back into this
one. The model allows more than that: while `frame` is set the other entry points
may run too, and are undone if the batch is. So no property rests on the host's ban;
nor do the runs show that the contract's own guard would be needed. `effects` counts what successful calls did elsewhere, `receipt` is the
value returned, `GetBatchResults` the query.

Run `multicall`: `ResultsWindow` and the refinement `BatchesAreAtomic`; three
batches with a window of two, so that one leaves it; up to two calls, required
or optional, with and without a budget, one with too many arguments; sizes 0, 1
and 2, so that the size may shrink under a running batch.

Slips: `PruneSlip` (pruning only by batches that store, issue #1441) breaks
`ResultsWindow`; `OptionalCallFailsSlip` (a failed required call is passed over)
`BatchesAreAtomic`.

## The parts that stand alone

Registry, execution, quote, the exporter's collector and the api-server's limiter
share no state and never call one another, so run `standalone` checks the *sum*
of their state spaces: `MCStandalone` picks one of the five at the start and runs
it, the other variables keep their initial values. Collector and limiter end at
their bounds and then stutter; the contracts' deadlocks are checked. The proofs are in
`StandaloneProofs`.

**router-registry** (`RouterRegistry`, implementing `VersionCatalog`). `entries`
is the keyed record, `versions`, `names` and `index` are the indexes write_entry
keeps. A version is a number, a constraint an operator with a base; `Malformed`
stands for the strings parse_constraint rejects (a prefix of two characters is
tried before one of one). `Accepted` is what bulk_register enters: it follows the
running maximum per name the code keeps beside the storage (issue #1443), and
`WriteEntries` writes a batch at once, each index in the order the loop would.
`Lookup` is the walk of latest_matching from the newest version.
`LookupsMeanWhatTheySay` compares it with its meaning for every constraint in
every state, and the queries by version, name and address with each other;
`KeepsCatalog` is the refinement: a history per name that only grows, releases
retired once. Two names, two contracts, versions 0 to 2, batches of up to two
registrations (so one name may come twice, in either order) and two
deprecations, two reasons. `MaxVersion` is also the largest version, so nothing
lies beyond it.

**router-execution** (`RouterExecution`, implementing `ExecutionAccount`). An
execution is an invocation of several steps: `Execute` makes the checks and takes
the snapshot the host returns to, `SimulatesFirst` and `SimulationFails` are the
call before the loop, `AttemptSucceeds`, `AttemptFails` and `LastAttemptFails`
the calls of the loop, with the delay each failure announces; `Trap` is the
budget. A simulation *is* an invocation: its success is taken for the first
attempt (issue #1194). `KeepsAccount` is the refinement: an execution takes
effect once and is counted and recorded once, or not at all. `ReceiptHonest`
relates attempts, announced delays and the fee recorded with the caller's and the
admin's limit at the time of the call, which the receipt remembers (`allowed`), and
the delays with the cap of the backoff; the first one is the admin's base and may be
above it, see `DelaysCapped` below. Requests of 0 to 2
retries under caps of 1 and 2, with fees on both sides of the minimum and two
requests that are refused; backoffs that grow by a half and threefold up to the
cap and from it; histories of 1 to 3; the count saturates at 2.

**router-quote** (`RouterQuote`). `routeFee`, `routeTiers` and `defaultFee` shadow
one another; `asked` remembers the tiers as they were given, before `SortTiers`,
the insertion sort with its binary search (`FindInsertionIndex`).
`ChargesAsPromised` compares every amount's fee with what the docs promise for
the tiers as given, and the index of configured routes with the fees there are;
`BestLeadsSorted` relates get_quotes, get_best_quote and get_quotes_sorted, ties
and all. Three routes and an index of two, so that one is turned away; tiers of
equal, negative and rising thresholds; amounts on both sides of each.

**The collector** (`ScrapeLoop`). One task asks the configured contracts in
turn. Ledgers close between any two of its calls, each call may fail, and a gauge
is modelled by the ledger its value was read from, or 0 for a default: a call that
succeeds may hold no value (a contract's own error is inside a good answer, and what
cannot be parsed is nothing), the collector then sets the default and goes on
(`Readings`). So the gauge of a route gone since the listing is set to the default,
while that of a route whose call fails stays as it was. `ScrapeFails` ends a contract's
scrape where it stands: what it has set stays set. Failures that collector.rs
passes over (is_paused, a single route) are `PausedUnknown` and `RouteMissed`.
`GaugesHonest`: between two cycles /ready answers 200 exactly when no scrape of
the last cycle failed, and then every gauge that cycle should set was set by it, to a
value of a ledger since it began or to the default, unless the call for its route
failed: what is shown is never left from an earlier cycle without a failure behind it.
In the tree as it stands the RPC client cannot invoke a contract at all (its
`build_invoke_xdr` returns an error), so every scrape that needs it fails; the model
is of the collector over its interface, the trait `RpcClient`. Two cycles over three contracts, two ledgers, one route that comes and
goes.

**The address limiter** (`AddressLimiter`). A request reads the clock
(`CallArrives`), holds its bucket's entry while it counts (`CheckAndRemaining`)
and, if refused, looks the entry up again (`Refuse`); the sweeper reads the clock
once and then visits the entries (`SweepVisits`). Between these anything may
happen. `AddressLimitSound`: a window admits no more than its limit, each
admitted request with a remainder of its own; two windows of an address begin a
window apart, *unless* a request that read the clock before the sweep recreates
the bucket; the wait a refused client is told is less than a second short. Three
requests of one address (addresses share nothing), a limit of two, a window of
two seconds of two parts each, one tick after it.

Slips: `WriteIndexSlip` (first registration of an address wins) breaks
`IndexesExact`; `LookupSlip` (only the newest match is looked at)
`LookupsMeanWhatTheySay`; `RetireSlip` (a reason overwritten) `KeepsCatalog`;
`ExecuteSlip` (the admin's limit not consulted) `ReceiptHonest`; `AttemptSucceedsSlip`
(called again after the simulation, issue #1194) `KeepsAccount`;
`UnsetRouteFeeSlip` (tiers kept) `ChargesAsPromised`; `GetBestQuoteSlip` (the last
of equal ones wins) `BestLeadsSorted`; `ScrapeFailsSlip` (only the last contract's
result counts) `GaugesHonest`; `WindowOverSlip` (swept a part of a second early)
`AddressLimitSound`.

## The api-server's status hub

`StatusHub`: the state all tasks share (`connections`, `subscribers`, the
broadcast channel as a `log` with a position `rx` per receiver), the task behind
each WebSocket, POST /simulate, and shutdown. One action per atomic access:
remove_subscriber decrements under the entry's lock and removes after it
(`FinishRemove`); a slot is taken before the upgrade (`Upgrade`) and given back
by the task (`Release`), so a failed upgrade (`UpgradeFails`) keeps it. A
receiver more than `Capacity` behind loses the oldest events (`Lag`). The loop awaits
its own sends: after a confirmation, an error, an update or a ping the task waits
(`sending`) until its client has taken the message (`Sent`), and neither reads,
receives nor ticks meanwhile. `Drained`
and `DrainDeadline` are the two ways the server ends. A client may close or a
send fail at any time (`HangUp`); a client that leaves during /simulate drops the
handler (`Abandon`). The requests are those of `HttpRequests`, which the
exporter's server shares.

| run | shows | bounds |
|---|---|---|
| `hub` | `CountersSound`, `NothingSkipped` | two sockets, two transactions of which one is watched, two requests (three together), two slots, a channel of two so that receivers lag, one repeated subscription to an id (`MaxRepeats`), an idle limit of one interval |
| `hub_liveness` | `EveryEventArrives`, `PendingResolved` | one socket, which the properties speak of one by one and which the events of two requests reach without another; one subscription, so that a second is over the limit; an idle limit of two intervals |

What goes wrong is counted, not excluded: `repeats` are subscriptions to an id the
client is subscribed to already, `leaked` are slots whose upgrade failed.
`CountersSound` says that the slots counted are exactly those held and those leaked,
so no other step loses one or gives one back twice, and that an entry counts at most
those interested and the repeated subscriptions it saw. It may count fewer: a task
removes an entry after another has raised it. No property bounds that.

Fairness: weak for the steps of a task once it is past its loop and for the RPC's
answer (it has a timeout): the runtime polls every task that is ready. Strong for
`RecvMatching` and `PingTick`, because the select of the loop picks at random among
its ready arms, and other arms may interrupt each again and again. None for clients,
none for shutdown, and none for `Sent`: a client need not take what it is sent, and
its task then stays where it is. `EveryEventArrives` therefore has the premise
`Reads`, that what is sent to the client is taken or fails in the end. That a client
which stays connected and does not read is let go is not true of the code: while a
send blocks, no arm of the select, the ping timer's included, is polled
(websocket.rs, lines 95, 112, 155 and 168), and its slot stays taken.

Slips: `UnsubscribeSlip` (the count stays) breaks `CountersSound`; `DeliverSlip`
(jumps to the newest event) `NothingSkipped`; `PingTickSlip` (silence never adds
up) `EveryEventArrives`; `DrainedSlip` (stops without draining)
`PendingResolved`. The proofs are in `ServiceProofs`.

## The exporter's server

`MetricsServer`: what a request goes through before its handler. The limiter's
check is four steps on two shared structures (`Arrive` looks whether the bucket is
there, `InsertBucket` puts it, `Count` counts, `Track` lists it for eviction); the
nonce cache's check_and_add is five (`CheckNonce` with the sweep, `LookUp`,
`MakeRoom`, `EvictOldest`, `AddNonce`). `progress` is what each request's task keeps
on its stack, among it the time it read and the nonce it is about to evict. The
proofs are in `ServiceProofs`.

Run `exporter`: `LimiterSound` (no bucket escapes eviction, the list stays within
its bound, nobody is refused before its limit was spent) and `ReplaysExplained`
(a nonce is accepted twice within its time to live only if it was being checked
twice at once, or was evicted). How many the limiter admits is not bounded: when one
task overwrites the bucket of another, or evicts it, what was counted is lost. Three requests of two clients with two nonces, in
every interleaving, one bucket and one nonce of room, limit 1, time 0 to 2 with a
window of 1 and a time to live of 2.

Slips: `CountedSlip` (count not reset with the window) breaks `LimiterSound`;
`SweptSlip` (swept by the interval instead of the time to live)
`ReplaysExplained`.

## What is proved

The theorems hold for every value of the constants that meets the named
assumptions of the modules. These say that numbers are naturals or integers and
that the inputs enumerated have the types the code gives them; that the value
for an absent entry is none of the others (`NoneAssumption`, `NoneIsNoAddress`,
`RegistryNone`, `MiddlewareNone`, `ExecutionNone`, `MulticallNone`, `HubNone`,
`ServerNone`); and of the code's own constants no more than is used: a default cap
above zero (core), at least one window before an entry is stale (middleware),
`Scale <= MaxMultiplier` (execution: 100 against 1000; without it a multiplier could
be forced below one and `ComputeBackoff` would shrink), a whole number of seconds in a
window (address limiter), limits of the hub and room in the limiter's list above zero.
The hub's sockets are finitely many.

| module | theorems |
|---|---|
| `RouterTimelockProofs` | `IInvHolds`, and from it `TypeCorrect`, `IndexesStayExact`, `LiveDepsSurvive`, `CapHolds`, `NoLiveDeadlock`, `ListingsStayTrue`, `StatusesFollowLifecycle`, and `ImplementsPromise`, the refinement `HistorySpec => KeepsPromise` |
| `RouterCoreProofs` | `IndexesStayExact`, `NamesStayUnambiguous`, `GraphStaysSound`, `BestStaysCurrent`, `ShownAsServed`, `AnswersStayInOrder`, and `ImplementsDirectory`, the refinement `Spec => KeepsDirectory` |
| `RouterAccessProofs` | `TypeCorrect`, `RecordsStayExact`, `CountsSuffice`, `NoCircle`, `NeverLockedOut`, `CapOnRoles`, `NobodyLeftOut` |
| `RouterMiddlewareProofs` | `LimitsHold`, `LogStaysTail`, `CircuitTrips`, `CircuitBlocks`, `ViewsPredict` |
| `RouterMulticallProofs` | `ResultsStayInWindow`, and `BatchesStayAtomic`, the refinement `Spec => BatchesAreAtomic` |
| `ServiceProofs` | `CountersStaySound`, `NothingIsSkipped`; `LimiterStaysSound`, `ReplaysStayExplained` |
| `StandaloneProofs` | `IndexesStayExact`, `LookupsStayTrue`, and `ImplementsCatalog`, the refinement `Spec => KeepsCatalog`; `ReceiptsStayHonest` and `AccountIsKept`, the refinement `ExecutionSpec => KeepsAccount`; `ChargesStayAsPromised`, `BestStaysFirst`; `GaugesStayHonest`; `LimitStaysSound` |
| `VectorLemmas` | lemmas: what `Without`, `Kept` and `Among` keep, in which order, and how much; concatenation; cardinalities; and induction on the naturals stated for sets, which is how the proofs reason about recursive functions |

The run `timelock_safety` lists `IInv` where the theorems also name its parts
(`TypeOK`, `IndexesMatchOps`, `LiveDepsKept`, `PendingWithinCap`). The other
inductive invariants are part of the proofs; `BestRouteCurrent` is a conjunct of
`ServedAsListed`; `SuperAdminCanAct` and the access module's `TypeOK` are proved and
not run again.

**Timelock.** The inductive invariant is `IInv`. `IndexesMatchOps` and `LiveDepsKept` are not
inductive without each other (clean-up reads the pending index to find what is
referenced), nor without `EtaOfId` and `Configured`, which say that an id's eta
lay in the future when it was queued. `NoLiveCycle` needs the idea: a live
operation stands in the pending index *behind* every pending operation it
depends on (`DepsPrecede`), because queue appends, clean-up keeps the order, and
what an id is queued again on is not live by the time its eta could come round.
A set of live operations that all wait on the set has a member that stands
first, whose dependency would have to stand before it. That an id is never
executed twice follows from `ExecutedWasDue` and `PerformedWasDue`: what was
executed was due, what is queued is not.

`ListingsAgree` compares the three listings, each with its own conditions, with
the one status; it rests on the indexes being exact. `StatusLifecycle` is about
pairs of states: a step executes only what is due, live and has its dependencies
done, and moves no clock while it does (`StepAdvances`). Being blocked is a
recursion of bounded depth, so its levels are compared one by one
(`BlockedLevels`): what blocks an operation is a dependency that is cancelled,
expired, gone or itself blocked, and each of these is for good, also after
clean-up has removed what was in the way.

**Core.** The inductive invariant `Inv` has one part per group of variables that
change together: `Settled`, `Listed` (routes, list, count), `Aliased`, `Linked`
(both sides of the graph), `Attached` (tags and scores belong to routes), `Ranked`
(the cache). The graph part needs the depth limit not at all: the walk
`NoPathBack` either meets the limit, and then the dependency is refused, or has
seen everything below. A set of routes that each depend on a member of the set
meets every level of that walk, so the link that would close such a set is
refused. Batches remove what is free to go in turn; what they remove
is closed under dependents (`Free`), and so is the set removed at once. `Ranked`
is where the two recomputations meet: one may cache an expired route, the other
never does, so what is invariant is not that the cache is the best but `BestKnown`:
a route is cached only if it contends, nothing is cached only if no live route is
there, and no live route beats the cached one *if* that is live. Scores, weights,
pausing, time and removal each keep that. `ImplementsDirectory` maps each action to one step of the
abstract directory or a stutter; `ShownAsServed` reads the listings off `Inv`.
`AnswersStayInOrder` is about the walk of `ResolvedFrom`, which follows the graph
with the calls' depth growing and what is resolved threaded through, so that its
proof is an induction on the depth left (`CallAnswers`) and, within a call, on the
dependencies in turn (`LoopAnswers`). What a call adds lies in every set that is
closed under dependencies and has its name. The routes a dependency needs lie in
the largest closed set without the name (`Avoiding`), because there are no
circles; so a name that was not resolved when its call began is not resolved by
its dependencies either, and appears once. A failure is handed up to the depth
limit or to an unusable route, both of which the name needs.

**Registry.** `RegistryInv`: the types, `VersionsExact` (each list is ascending and
is exactly the versions of the entries), and `IndexFollows` (the address index
has exactly the addresses of entries, leads each to an entry of its own, and none of
the same name is newer). The work is in bulk_register: the running maximum per name
that the code keeps beside the storage enters exactly an ascending subsequence
per name, whatever was refused in between, so that writing the batch at once
appends ascending versions. The walk from the newest version then answers
the greatest allowed one because the list is ascending and complete.

**Access.** The inductive invariant is `Inv`: the properties, and two facts.
`SuperAdminFree` adds that nobody is blacklisted before there is a super admin;
without it `initialize` could name a barred one. `WalksEnd` says that every walk
up the hierarchy, whatever its length, comes to a top. It is stronger than the
absence of circles and is what set_role_parent keeps: its check walks up from
the new parent p without meeting r, so that walk is the same after the link, a
walk from r is one step longer, and any other is as before until it meets r
(`LinkingKeepsEnds`). A walk that ends cannot have come by its starting point
twice. These are inductions on the length of the walk; so is `ChosenInTurn`,
that the loop of grant_role_batch has a result (each account judged after those
before it), from which `BatchGrants` gets that a batch grants a set of accounts,
each once. `CountsSuffice` needs `RecordsAgree`: a count can only be compared
with the number of active members because those are among the members listed,
finitely many, and `unblacklist` finds every role of the account in its list.
It is stated for roles without parents, where who holds the role is decided by
the role's own grants (`TopHasRole`). `NobodyLeftOut` follows from the records and
from what the three queries have in common, their look at the clock.

**Middleware.** `MiddlewareInv` relates storage to the history it forgets.
*Limits* (`Held`): while a caller is held to a limit, its past admissions are
`Spread`, that is fewer than twice the limit lie in any stretch of a window's
length, and the entry in storage accounts for the ones that can still be in one
stretch with a new one: `InWindow` counts those since the window opened, and
those before it that are close enough are fewer than the limit; if there is no
entry, `NoWindow` says the last window is over. Pruning removes only entries whose window is
over, because an entry becomes stale after at least one window; a change of the
limit starts the account anew, as the property does. *Log* (`Ring`, `RingOf`): the
position of the i-th of the last calls is `Slot(head, i, r)`; the ring is full, or
has room and starts at the beginning, and appending moves the head by one round the
ring. *Breaker*: the failures a closed breaker counts are those in a row
(`Counted`), and it dates an opening no earlier than it was (`OpenedFirst`).
*Views* (`ViewsAgree`): only finitely many callers have an entry (`EntriesFinite`), so the
folds of the route's totals exist (`FoldExists`), and the sum is at least and the
minimum at most what each caller adds (`SumCovers`, `MinCovers`); the pruning that
pre_call does first takes only entries that the view reads as over (`PruneUnseen`).

**Multicall.** `MulticallInv` has two faces. Between batches, `WindowOK`: the
batches counted are among the last MaxStoredBatches, and the result of a call is
stored exactly if its batch is counted and the call is below the count. While a
batch runs, that is what `Running` says of the snapshot it would be rolled back
to; what is stored is the snapshot's results and the outcomes so far under the
batch's own number (`StoredSoFar`), which no counted batch has; the effects are the
snapshot's and one for each success; and no outcome so far is one that should have
ended the batch (`CameOut`). Whatever the called contracts do to the
configuration leaves all of this alone. A batch that stores nothing still prunes
the oldest, and the window moves by one either way (`WindowMoves`). For the
refinement a batch under way is shown as its snapshot, so that only the step
that returns Ok is seen, and that step is the whole batch.

**Execution.** `FrameOK` is the strengthening: while an execution runs, the
snapshot taken for roll-back is what storage still holds, its target has been
reached at most once, and the k-th delay announced is the k-th backoff. `BackoffRises`
is the induction on the retries. The refinement shows the history newest first,
so the mapping reverses it; an execution under way is shown as its snapshot.

**Quote.** The invariant says that the tiers stored for a route are a stable
ordering of those asked for (`TiersSorted`): `Insertions` shows that the insertion
sort with its binary search (`InsertionPlace`, on the rounds of the search) yields an
order `p` of the positions, and that any two have the same result. A scan that stops at the first
threshold above the amount then finds the last among the highest thresholds
reached, which is what the docs promise. `BestIsHead`: the loop of get_best_quote
keeps the first of the highest, and that is the head of the sorted list.

**Collector.** `ReadSoFar`: what the loop has passed is fresh, that is, set in
this cycle to a value of one of its ledgers or to a default, or missed in a way that
does not fail its contract: the totals of the contracts passed, the calls of this
contract before the current one, and the routes listed that are not to do any more.
A contract not yet passed has failed in fewer
cycles than there were (`ErrorsOK`). The count of calculated quotes is held back
until the second call, so both move together (`QuotesOrdered`).

**Address limiter.** `LimiterInv`: those admitted to one window hold different
remainders between 0 and the limit, so they are no more than it (an injection into
an interval). `Outdated`: a window that began is the current one, or began
a window's length before the current one or before the last sweep of its
address; hence two windows are apart unless a request read its clock before the
sweep.

**Hub.** `CountersSound` is inductive: a task that loses interest in an id leaves the
set of those interested and lowers the count in the same step, or stays among them,
through `removing`, until it has removed the entry; what two tasks do between each
other can make the count too low but never too high, but for repeated subscriptions,
which are forgotten with the entry (`InterestLost`, `OvercountsKept`). Slots are given
back only by a task that held one, and lost only by an upgrade that fails
(`SlotsKept`).
`NothingSkipped` needs `Stream`: a socket that is not open is sent nothing, one that is
not yet open subscribes to nothing, and what was sent lies behind the receiver; a
receiver that starts at the end of the channel has nothing to account for but by
subscriptions made later, and those count from where the channel was then.

**The exporter's limiter.** `LimiterInv`. A bucket is in the map before it is in the
list; between the two the request that inserted it still has to list it
(`Inserting`), also when another overwrites the bucket, and whoever lists its own
cuts the front off no deeper than that (`TrackCuts`). That nobody is refused early is
about what buckets forget: a bucket counts no more than the requests of its client
that were counted since its window began (`Backed`), and that stays true when it is
evicted, overwritten or begun anew, because what was counted stays counted
(`CountsAreFinal`). A request that finds too many therefore has that many others
within the window (`CountsOne`), and keeps them until it is refused.

**The nonce cache.** `ReplayInv` speaks of accepted requests without rivals whose nonce
was not evicted (`Alone`). The nonce of such a request is in the cache with its
timestamp, or its time is over (`Cached`); so another that looks it up in vain does so
after that time (`Late`), and `Explained` carries this from the look-up to the
acceptance. The one that added it last may be a third request: then that one was
late too. Two that check the same nonce at once are rivals of each other from the
moment the later one begins.

**Only model-checked.** Liveness (`Reclaimed`, `CircuitRecovers`, `EveryEventArrives`,
`PendingResolved`), which is beyond the prover.

## Where the code departs from its comments

The modules state sentences of docs, comments and tests that do not hold of the
code, after their properties. No run lists them; each has a counterexample, found
by running the cfg named or by adding the property to it.

| property | cfg | the comment, and what happens |
|---|---|---|
| `BlockedMeansUnfulfillable` | `MCTimelockDepth` | a blocked operation "can never execute": the deepest chain queue accepts is reported blocked, one level of the two limits being counted differently |
| `NoCircularDependency` | `MCTimelockDepth` | "no circular references": b depends on a; a is cancelled and reclaimed once b has expired; a is queued again depending on b. Harmless while `NoLiveCycle` holds |
| `NoTwins` | `MCTimelockDepth`, two descriptions | update_description makes a second operation with the same description, target and eta |
| `ListedOnce` | `MCTimelockHistory` | overflow is treated as expired, "consistent with" the other functions: the listing of queued operations does not look at the expiry, so such an operation is in both |
| `ResolvePicksBestLive` | `MCRouterCoreBest` | resolve returns the best non-expired route: an expired cached route hides the next best, and resolve falls back to the name asked for |
| `ResolveNeedsTheRoute` | `MCRouterCoreBest` | RouteNotFound "if no route with `name` exists": any name is answered with the cached best route |
| `ChainsWalkable` | `MCAccessChains` | a chain accepted "is guaranteed to be fully walkable": the depth is measured upward from the new parent only; a chain linked from its bottom up grows past what the role check walks |
| `CountIsActive` | `MCAccess` | RoleMemberCount still counts grants that ran out |
| `CapHolds` | `MCAccess` | a is blacklisted, b granted in its place, a cleared: one member too many |
| `NoExpiredGrantMade` | `MCAccess` | the holder's own grant ran out but it inherits the role: the transfer makes an expired grant |
| `OpenedAtIsOpening` | `MCMiddlewareState` | a failure reported while the circuit is open moves opened_at and postpones recovery |
| `CheckPredictsPreCall` | `MCMiddlewareRates` | check_caller_rate_limit looks at the caller's override only |
| `BreakerViewIsNext` | `MCMiddlewareState` | get_circuit_breaker_state answers for the next call: with the breaker switched off it shows a transition that call does not make |
| `DelaysCapped` | `MCStandaloneDelays` | a delay is "always <= MAX_BACKOFF_MS": the first is the base itself, which may be larger |
| `NoStaleEvents` | `MCStatusHubStale` | clients get no stale events: a receiver starts when it connects and waits, so a later subscription is served events from before it |
| `NothingLeft` | `MCStatusHubStale` | cleanup removes all subscriptions: a second subscription to the same id is counted twice, remembered once |
| `AcceptedOnce` | `MCMetricsServer` | check_and_add returns true for a nonce not seen before: two tasks look it up before either adds it |
| `CacheWithinSize` | `MCMetricsServer` | eviction bounds the cache: two tasks pick the same victim |
| `NeverPanics` | `MCMetricsServer` | a request is allowed or rejected: its bucket may be evicted between insertion and count, and unwrap panics |
| `NoGhostRoutes` | `MCStandalone` | the gauges show the routes there are: the gauge of a removed route keeps its last value |
| `RetrySuffices` | `MCStandalone` | "Retry after N second(s)": whole seconds are cut off, so that N may be too few |

Met while reading, without a property: a WebSocket client that stays connected and does
not read keeps its task at a send and its slot, the idle timeout notwithstanding; router-execution says every outcome is
logged by an event, but those of failures are rolled back with them, and so
`TotalErrors` stays zero; its `simulate` is a real invocation. get_best_route of
router-core weighs by its arguments or the defaults, never by the configured
weights.

The tree also holds merge artefacts that do not compile (router-core
set_max_routes publishes with too many arguments and set_scoring_weights
publishes its event twice; router-access grant_role_internal; duplicate getters
in router-middleware). The model follows the evident reading of both halves.

## What is not modelled

- Events, logging, and storage TTL (a contract nobody calls for weeks is archived
  by the host; that is outside the code). Hash collisions. Failures of the host.
- In router-middleware, more than one route: no property relates two.
- router-common: events, TTL and the admin macros; the guard a macro expands to is
  part of each action.
- In api-server: the RPC client, the read-only handlers, CORS and the OpenAPI
  page. In the exporter: the RPC client, the bearer token and the text of
  /metrics. They keep no state, or compute one answer from one request.
- The integration tests, and the tests inside the source files. These make up
  more than half of the lines of the contracts, so the share of lines the models
  stand for looks smaller than the share of the behaviour.

## Plan

Done: all eight contracts, the hub, both limiters, the nonce cache and the
collector are modelled and checked. Proved: every safety property of the runs, and
the refinements of timelock, core, registry, multicall and execution.

Left: nothing that the prover reaches. The four liveness properties stay with TLC.
