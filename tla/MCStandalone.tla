---------------------------- MODULE MCStandalone ----------------------------
(***************************************************************************)
(* Five parts for TLC that share no state and do not call one another: the *)
(* contracts RouterRegistry, RouterExecution and RouterQuote, the metrics  *)
(* exporter's collector and the api-server's limiter.  A behaviour of this *)
(* module runs one of them, so that the states to check are the sum of     *)
(* theirs instead of the product.                                          *)
(***************************************************************************)
EXTENDS RouterRegistry, RouterExecution, RouterQuote, ScrapeLoop, AddressLimiter, TLC

VARIABLE part  \* the one that runs

registry == vars
all == <<part, registry, executionVars, quoteVars, scrapeVars, limiterVars>>

StandaloneInit ==
    /\ part \in {"registry", "execution", "quote", "collector", "limiter"}
    /\ Init
    /\ ExecutionInit
    /\ QuoteInit
    /\ ScrapeInit
    /\ part # "collector" => ledgers = <<{}>>
    /\ LimiterInit

StandaloneNext ==
    /\ UNCHANGED part
    /\ \/ part = "registry" /\ Next
          /\ UNCHANGED <<executionVars, quoteVars, scrapeVars, limiterVars>>
       \/ part = "execution" /\ ExecutionNext
          /\ UNCHANGED <<registry, quoteVars, scrapeVars, limiterVars>>
       \/ part = "quote" /\ QuoteNext
          /\ UNCHANGED <<registry, executionVars, scrapeVars, limiterVars>>
       \/ part = "collector" /\ ScrapeNext
          /\ UNCHANGED <<registry, executionVars, quoteVars, limiterVars>>
       \/ part = "limiter" /\ LimiterNext
          /\ UNCHANGED <<registry, executionVars, quoteVars, scrapeVars>>
       \/ part \in {"collector", "limiter"} /\ UNCHANGED all  \* their bounds end these two

StandaloneSpec == StandaloneInit /\ [][StandaloneNext]_all

\* In every property the registry's names and contracts are interchangeable,
\* and so are the routes.
StandaloneSymmetry == Permutations(Names) \cup Permutations(Contracts) \cup Permutations(Routes)

-----------------------------------------------------------------------------
(* Requests with 0 to 2 retries under caps of 1 and 2, with fees below and *)
(* above the minimum, and two that are refused.                            *)

Request(simulate, retries, args, amount) ==
    [target |-> CHOOSE t \in Targets : TRUE, simulate |-> simulate, retries |-> retries, args |-> args,
     amount |-> amount]

SomeRequests ==
    {Request(FALSE, 0, 0, 1), Request(FALSE, 2, 1, 4), Request(TRUE, 2, 0, 4),
     Request(FALSE, 1, 2, 1), Request(FALSE, 1, 0, 0)}

\* Backoffs that grow by a half and threefold, up to the cap and from above it;
\* that stay at zero and at a base; and one with a multiplier too small.
Backoff(base, multiplier) == [base |-> base, multiplier |-> multiplier]

SomeBackoffs ==
    {Backoff(2, 3), Backoff(1, 6), Backoff(5, 3), Backoff(0, 6), Backoff(3, 2), Backoff(2, 1)}

\* One that starts above the cap.
LongBackoffs == {Backoff(5, 3)}

\* min_amount may be negative in a call, and so may an amount.
SomeThresholds == {-1, 0, 2}
SomeAmounts == {-1, 1, 2, 4}

=============================================================================
