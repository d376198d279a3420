--------------------------- MODULE AddressLimiter ---------------------------
(***************************************************************************)
(* The api-server's rate limiter: one bucket per remote address, and a     *)
(* task that sweeps out buckets whose window is over.                      *)
(*                                                                         *)
(* Requests are served in parallel.  A request reads the clock, then holds *)
(* its bucket's entry while it counts, and, if refused, looks the entry up *)
(* again to say when to retry; the sweeper reads the clock once and then   *)
(* visits the entries one by one.  The clock counts parts of a second.     *)
(*                                                                         *)
(* Nothing uses the definitions named Slip: each misstates the definition  *)
(* after it the way a plausible mistake would.                             *)
(***************************************************************************)
EXTENDS Integers, FiniteSets, Vectors

CONSTANTS
    Addressees,     \* remote addresses
    Calls,          \* how many requests are made, taken in order
    CallLimit,      \* RateLimitConfig::max_requests
    LimitWindow,    \* RateLimitConfig::window, in parts of a second
    Second,         \* how many parts a second has
    LastMoment      \* a bound for TLC on the clock

\* validate_rate_limit_args
ASSUME LimiterLimits ==
    /\ {CallLimit, LimitWindow, Second} \subseteq Nat \ {0}
    /\ {Calls, LastMoment} \subseteq Nat
    /\ LimitWindow % Second = 0

CallIds == 1 .. Calls

VARIABLES
    moment,    \* the clock
    windows,   \* RateLimiter.buckets: address -> [count, start]
    call,      \* per request, where it is and what it remembers
    sweeper    \* the sweeper's clock reading, the entries still to visit, its next tick

\* What the limiter does not keep.
VARIABLES
    maker,     \* address -> the request that began the current window
    sweptAt    \* per address, the reading of the last sweep that removed its bucket

limiterVars == <<moment, windows, call, sweeper, maker, sweptAt>>

LimiterInit ==
    /\ moment = 0
    /\ windows = << >>
    /\ call = [i \in CallIds |-> [at |-> "new"]]
    /\ sweeper = [read |-> 0, left |-> {}, due |-> 0]
    /\ maker = << >>
    /\ sweptAt = [a \in Addressees |-> 0]

\* check_and_remaining reads the clock.
CallArrives(i, a) ==
    /\ call[i].at = "new"
    /\ \A j \in 1 .. i - 1 : call[j].at # "new"
    /\ call' = [call EXCEPT ![i] = [at |-> "arrived", address |-> a, stamp |-> moment]]
    /\ UNCHANGED <<moment, windows, sweeper, maker, sweptAt>>

\* The rest of it holds the entry.
CheckAndRemaining(i) ==
    /\ call[i].at = "arrived"
    /\ LET a == call[i].address
           stamp == call[i].stamp
           begins == a \notin DOMAIN windows \/ stamp - windows[a].start >= LimitWindow
           count == IF begins THEN 1 ELSE windows[a].count + 1
           in == IF begins THEN i ELSE maker[a]
       IN  /\ windows' = Put(windows, a, [count |-> count,
                                          start |-> IF begins THEN stamp ELSE windows[a].start])
           /\ maker' = Put(maker, a, in)
           /\ call' = [call EXCEPT ![i] =
                [at |-> IF count <= CallLimit THEN "admitted" ELSE "refused",
                 address |-> a, stamp |-> stamp, in |-> in, late |-> stamp < sweptAt[a],
                 remaining |-> IF count <= CallLimit THEN CallLimit - count ELSE 0]]
    /\ UNCHANGED <<moment, sweeper, sweptAt>>

\* retry_after_secs: whole seconds, at least one.
RetryAfterSecs(a) ==
    LET left == windows[a].start + LimitWindow - moment
    IN  IF a \in DOMAIN windows /\ left \div Second > 1 THEN left \div Second ELSE 1

\* A 429 is answered.
Refuse(i) ==
    /\ call[i].at = "refused"
    /\ call' = [call EXCEPT ![i] =
         [at |-> "answered", address |-> call[i].address, stamp |-> call[i].stamp,
          told |-> moment, retry |-> RetryAfterSecs(call[i].address),
          opens |-> IF call[i].address \in DOMAIN windows
                      THEN windows[call[i].address].start + LimitWindow ELSE moment]]
    /\ UNCHANGED <<moment, windows, sweeper, maker, sweptAt>>

\* The interval ticks at once, then every window; ticks missed are made up for.
SweepBegins ==
    /\ sweeper.left = {}
    /\ moment >= sweeper.due
    /\ sweeper' = [read |-> moment, left |-> Addressees, due |-> sweeper.due + LimitWindow]
    /\ UNCHANGED <<moment, windows, call, maker, sweptAt>>

WindowOverSlip(a) == sweeper.read - windows[a].start >= LimitWindow - 1

WindowOver(a) == sweeper.read - windows[a].start >= LimitWindow

SweepVisits(a) ==
    /\ a \in sweeper.left
    /\ sweeper' = [sweeper EXCEPT !.left = @ \ {a}]
    /\ IF a \in DOMAIN windows /\ WindowOver(a)
         THEN /\ windows' = Delete(windows, {a})
              /\ maker' = Delete(maker, {a})
              /\ sweptAt' = [sweptAt EXCEPT ![a] = sweeper.read]
         ELSE UNCHANGED <<windows, maker, sweptAt>>
    /\ UNCHANGED <<moment, call>>

TimePasses ==
    /\ moment < LastMoment
    /\ moment' = moment + 1
    /\ UNCHANGED <<windows, call, sweeper, maker, sweptAt>>

LimiterNext ==
    \/ \E i \in CallIds :
          \/ \E a \in Addressees : CallArrives(i, a)
          \/ CheckAndRemaining(i)
          \/ Refuse(i)
    \/ SweepBegins
    \/ \E a \in Addressees : SweepVisits(a)
    \/ TimePasses

LimiterSpec == LimiterInit /\ [][LimiterNext]_limiterVars

-----------------------------------------------------------------------------
(* Properties.                                                             *)

\* One window admits no more than the limit, whose remainder each admitted
\* request was told.  Two windows of an address begin at least a window apart,
\* unless the request that began one had read the clock before the sweep that
\* removed the bucket.  A refused request is told to wait for less than a
\* second short of what it takes.
AddressLimitSound ==
    LET admitted == {i \in CallIds : call[i].at = "admitted"}
        begun == {i \in admitted : call[i].in = i /\ ~call[i].late}
    IN  /\ \A i \in admitted :
              LET same == {j \in admitted : call[j].in = call[i].in}
              IN  /\ Cardinality(same) <= CallLimit
                  /\ \A j \in same : i # j => call[i].remaining # call[j].remaining
        /\ \A i, j \in begun :
              i # j /\ call[i].address = call[j].address =>
                 \/ call[i].stamp - call[j].stamp >= LimitWindow
                 \/ call[j].stamp - call[i].stamp >= LimitWindow
        /\ \A i \in CallIds :
              call[i].at = "answered" => call[i].told + (call[i].retry + 1) * Second > call[i].opens

\* Not so: rate_limit.rs tells a refused client to "Retry after N second(s)";
\* seconds are cut off, so that may be too early.
RetrySuffices ==
    \A i \in CallIds :
        call[i].at = "answered" => call[i].told + call[i].retry * Second >= call[i].opens

=============================================================================
