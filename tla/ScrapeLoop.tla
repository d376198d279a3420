----------------------------- MODULE ScrapeLoop -----------------------------
(***************************************************************************)
(* The metrics exporter's collector: one task that asks the contracts, one *)
(* after the other, through the RPC node, and sets the gauges to what they *)
(* answer.  Ledgers close between any two of its calls, any call may fail  *)
(* or time out, and the gauges may be read at any time.                    *)
(*                                                                         *)
(* What a gauge shows is modelled by when it was true: the ledger its      *)
(* value was read from, or 0 where the collector puts a default because    *)
(* the answer held nothing it understands.                                 *)
(*                                                                         *)
(* Nothing uses the definitions named Slip: each misstates the definition  *)
(* after it the way a plausible mistake would.                             *)
(***************************************************************************)
EXTENDS Integers, Sequences, FiniteSets, Vectors

CONSTANTS
    Configured,   \* the contracts whose id is not empty
    RouteNames,   \* routes registered with the core, or configured in the middleware
    MaxLedgers,   \* bounds for TLC: ledgers that close
    MaxCycles     \* and cycles of the loop

\* The order they are scraped in.
ContractOrder == <<"core", "middleware", "registry", "quote", "execution">>

ASSUME ScrapeConfigured == Configured \subseteq Range(ContractOrder)
ASSUME ScrapeBounds == MaxLedgers \in Nat \ {0} /\ MaxCycles \in Nat

\* A route is known to its contract: <<contract, "route", route>>, the label of
\* its gauge.  The label of a gauge that is not about routes is <<contract, call>>.
RouteLabels == {"core", "middleware"} \X {"route"} \X RouteNames

VARIABLES
    ledgers,   \* for every ledger closed so far, the routes there are
    scrape,    \* where the loop is
    gauges,    \* the gauges set so far: label -> ledger, or 0 for a default
    scrapeErrors,    \* scrape_errors_total
    up         \* router_up

\* What happened in the cycle under way, or in the last one: the ledger it began
\* in, the contracts that failed, the routes listed, those whose call failed,
\* and the labels of the gauges set to a default.
VARIABLE cycle

scrapeVars == <<ledgers, scrape, gauges, scrapeErrors, up, cycle>>

Ledger == Len(ledgers)
RoutesNow == ledgers[Ledger]

Asleep == [contract |-> "none", call |-> 0, todo |-> {}, held |-> << >>]
AtStart(c) == [contract |-> c, call |-> 1, todo |-> {}, held |-> << >>]

\* What is asked of a contract before its routes, and the gauge each answer
\* sets: "list" sets none, and the quote contract's are held back until both
\* have come.
CallsTo == [core |-> <<"total_routed", "is_paused", "list">>,
            middleware |-> <<"total_calls", "list">>,
            registry |-> <<"get_all_names">>,
            quote |-> <<"quote_calculated", "fee_estimated">>,
            execution |-> <<"entries">>]

\* The gauges a scrape of c sets that is not about routes.
Totals(c) == {<<c, CallsTo[c][i]>> : i \in {j \in DOMAIN CallsTo[c] : CallsTo[c][j] # "list"}}

AskingRoutes == scrape.contract # "none" /\ scrape.call > Len(CallsTo[scrape.contract])
Asking(c, call) == scrape.contract = c /\ ~AskingRoutes /\ CallsTo[c][scrape.call] = call

ScrapeInit ==
    /\ \E R \in SUBSET RouteLabels : ledgers = <<R>>
    /\ scrape = Asleep
    /\ gauges = << >>
    /\ scrapeErrors = [c \in Configured |-> 0]
    /\ up = FALSE
    /\ cycle = [number |-> 0, since |-> 0,
                failed |-> {}, listed |-> {}, missed |-> {}, blank |-> {}]

\* The contracts still to come after c, in order.
StillToCome(c) ==
    LET place(d) == CHOOSE i \in DOMAIN ContractOrder : ContractOrder[i] = d
    IN  {d \in Configured : c = "none" \/ place(d) > place(c)}

FirstOfThem(S) ==
    ContractOrder[CHOOSE i \in DOMAIN ContractOrder :
        ContractOrder[i] \in S /\ \A j \in 1 .. i - 1 : ContractOrder[j] \notin S]

\* scrape_all goes on to the next contract, or ends the cycle: run sets router_up
\* and goes to sleep.
GoOn(failed) ==
    IF StillToCome(scrape.contract) = {}
      THEN scrape' = Asleep /\ up' = (failed = {})
      ELSE scrape' = AtStart(FirstOfThem(StillToCome(scrape.contract))) /\ up' = up

\* The sleep is over.
Begin ==
    /\ scrape = Asleep
    /\ cycle.number < MaxCycles
    /\ cycle' = [number |-> cycle.number + 1, since |-> Ledger,
                 failed |-> {}, listed |-> {}, missed |-> {}, blank |-> {}]
    /\ GoOn({})
    /\ UNCHANGED <<ledgers, gauges, scrapeErrors>>

ScrapeFailsSlip ==
    /\ scrape.contract # "none"
    /\ ~AskingRoutes
    /\ ~Asking("core", "is_paused")
    /\ scrapeErrors' = [scrapeErrors EXCEPT ![scrape.contract] = @ + 1]
    /\ cycle' = [cycle EXCEPT !.failed = @ \cup {scrape.contract}]
    /\ GoOn({})
    /\ UNCHANGED <<ledgers, gauges>>

\* scrape_and_record, for a scrape that ends in an error: the gauges it has set
\* keep their new values.
ScrapeFails ==
    /\ scrape.contract # "none"
    /\ ~AskingRoutes
    /\ ~Asking("core", "is_paused")
    /\ scrapeErrors' = [scrapeErrors EXCEPT ![scrape.contract] = @ + 1]
    /\ cycle' = [cycle EXCEPT !.failed = @ \cup {scrape.contract}]
    /\ GoOn(cycle'.failed)
    /\ UNCHANGED <<ledgers, gauges>>

\* What an answer to a call that succeeds may hold: a value, of this ledger, or
\* nothing that is understood.
Readings == {Ledger, 0}

\* set, for one gauge.
Show(label, value) ==
    /\ gauges' = Put(gauges, label, value)
    /\ cycle' = [cycle EXCEPT !.blank = IF value = 0 THEN @ \cup {label} ELSE @]

\* An answer that sets one gauge, and is not the last: call_u64 and call_bool
\* fail unless they understand it.
TotalRead ==
    /\ \/ Asking("core", "total_routed")
       \/ Asking("core", "is_paused")
       \/ Asking("middleware", "total_calls")
    /\ LET label == <<scrape.contract, CallsTo[scrape.contract][scrape.call]>>
       IN  Show(label, Ledger)
    /\ scrape' = [scrape EXCEPT !.call = @ + 1]
    /\ UNCHANGED <<ledgers, scrapeErrors, up>>

\* is_paused could not be read: the router counts as not paused.
PausedUnknown ==
    /\ Asking("core", "is_paused")
    /\ Show(<<"core", "is_paused">>, 0)
    /\ scrape' = [scrape EXCEPT !.call = @ + 1]
    /\ UNCHANGED <<ledgers, scrapeErrors, up>>

\* get_all_routes and get_configured_routes.  An answer that is no list counts
\* as an empty one.
RoutesListed ==
    /\ scrape.contract # "none"
    /\ Asking(scrape.contract, "list")
    /\ \E labels \in {{label \in RoutesNow : label[1] = scrape.contract}, {}} :
           /\ cycle' = [cycle EXCEPT !.listed = @ \cup labels]
           /\ IF labels = {} THEN GoOn(cycle.failed)
              ELSE scrape' = [scrape EXCEPT !.call = @ + 1, !.todo = labels] /\ up' = up
    /\ UNCHANGED <<ledgers, gauges, scrapeErrors>>

NextRoute(label) ==
    IF scrape.todo = {label} THEN GoOn(cycle.failed)
    ELSE scrape' = [scrape EXCEPT !.todo = @ \ {label}] /\ up' = up

\* The call succeeds.  When the route is gone by now, or the state it asks for
\* is not understood, the gauge gets the default.
RouteRead(label) ==
    /\ AskingRoutes /\ label \in scrape.todo
    /\ \E value \in Readings :
          /\ value # 0 => label \in RoutesNow
          /\ Show(label, value)
    /\ NextRoute(label)
    /\ UNCHANGED <<ledgers, scrapeErrors>>

\* The call fails: the route's gauge stays as it is.
RouteMissed(label) ==
    /\ AskingRoutes /\ label \in scrape.todo
    /\ cycle' = [cycle EXCEPT !.missed = @ \cup {label}]
    /\ NextRoute(label)
    /\ UNCHANGED <<ledgers, gauges, scrapeErrors>>

\* scrape_registry and scrape_execution make one call.  No list of names counts
\* as none, and an entry that is missing as 0.
OnlyCallRead ==
    /\ Asking("registry", "get_all_names") \/ Asking("execution", "entries")
    /\ \E value \in Readings :
          Show(<<scrape.contract, CallsTo[scrape.contract][1]>>, value)
    /\ GoOn(cycle.failed)
    /\ UNCHANGED <<ledgers, scrapeErrors>>

\* An answer without events counts as none.
QuotesCounted ==
    /\ Asking("quote", "quote_calculated")
    /\ \E value \in Readings : scrape' = [scrape EXCEPT !.call = @ + 1, !.held = <<value>>]
    /\ UNCHANGED <<ledgers, gauges, scrapeErrors, up, cycle>>

FeesCounted ==
    /\ Asking("quote", "fee_estimated")
    /\ \E value \in Readings :
          /\ gauges' = Put(Put(gauges, <<"quote", "quote_calculated">>, scrape.held[1]),
                           <<"quote", "fee_estimated">>, value)
          /\ cycle' = [cycle EXCEPT !.blank =
                 @ \cup {label \in Totals("quote") : gauges'[label] = 0}]
    /\ GoOn(cycle.failed)
    /\ UNCHANGED <<ledgers, scrapeErrors>>

\* A ledger closes.  The core's routes come and go, the middleware's stay.
LedgerCloses ==
    /\ Ledger < MaxLedgers
    /\ \E R \in SUBSET RouteLabels :
          /\ {label \in RoutesNow : label[1] = "middleware"} \subseteq R
          /\ ledgers' = Append(ledgers, R)
    /\ UNCHANGED <<scrape, gauges, scrapeErrors, up, cycle>>

ScrapeNext ==
    \/ Begin \/ ScrapeFails
    \/ TotalRead \/ PausedUnknown \/ RoutesListed
    \/ \E label \in scrape.todo : RouteRead(label) \/ RouteMissed(label)
    \/ OnlyCallRead \/ QuotesCounted \/ FeesCounted
    \/ LedgerCloses

ScrapeSpec == ScrapeInit /\ [][ScrapeNext]_scrapeVars

\* ready_handler: 200 or 503.
Ready == up

-----------------------------------------------------------------------------
(* Properties.                                                             *)

\* What /metrics shows can be relied on.  Between two cycles the exporter is up
\* exactly when no scrape of the last one failed; and then every gauge but of a
\* route whose call failed was set by that cycle, to what a ledger since its
\* start held or to the default, and never is what an earlier cycle saw.  At any
\* time, a contract that failed has been counted, and of the quotes and fees
\* counted the quotes are no newer.
GaugesHonest ==
    /\ scrape = Asleep /\ cycle.number > 0 =>
          /\ Ready <=> cycle.failed = {}
          /\ Ready =>
                \A label \in (cycle.listed \cup UNION {Totals(c) : c \in Configured}) \ cycle.missed :
                   /\ label \in DOMAIN gauges
                   /\ gauges[label] >= cycle.since \/ (gauges[label] = 0 /\ label \in cycle.blank)
    /\ \A c \in Configured : /\ scrapeErrors[c] <= cycle.number
                             /\ c \in cycle.failed => scrapeErrors[c] > 0
    /\ <<"quote", "fee_estimated">> \in DOMAIN gauges =>
          \/ gauges[<<"quote", "fee_estimated">>] = 0
          \/ gauges[<<"quote", "quote_calculated">>] <= gauges[<<"quote", "fee_estimated">>]

\* Not so: that the routes /metrics shows are routes the last scrape met.  The
\* gauge of a route that was removed keeps its last value.
NoGhostRoutes ==
    scrape = Asleep /\ Ready => DOMAIN gauges \cap RouteLabels \subseteq cycle.listed

=============================================================================
