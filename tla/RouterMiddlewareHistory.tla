---------------------- MODULE RouterMiddlewareHistory -----------------------
(***************************************************************************)
(* RouterMiddleware with what its storage does not remember: when each     *)
(* caller was let through, which calls were reported, how many failures    *)
(* came in a row, and when the circuit opened.                             *)
(***************************************************************************)
EXTENDS RouterMiddleware

VARIABLES
    admitted,  \* per caller, the times of calls under the limit as it stands
    reported,  \* the calls reported since the log was last cleared
    streak,    \* the failures reported since the last success or reset
    opened     \* when the circuit last opened

history == <<admitted, reported, streak, opened>>
historyVars == <<vars, history>>

HistoryInit ==
    /\ Init
    /\ admitted = [c \in Callers |-> << >>]
    /\ reported = << >>
    /\ streak = 0
    /\ opened = 0

\* A change of what limits c: the count of what it was let through starts anew.
LimitChanges(c) ==
    \/ config' # config
    \/ override'[c] # override[c]
    \/ strategy' # strategy
    \/ c \in DOMAIN rates \ DOMAIN rates'

RememberAdminister ==
    /\ Administer
    /\ admitted' = [c \in Callers |-> IF LimitChanges(c) THEN << >> ELSE admitted[c]]
    /\ reported' = IF log = log' THEN reported ELSE << >>
    /\ streak' = IF breaker = breaker' THEN streak ELSE 0
    /\ UNCHANGED opened

RememberPreCall(c) ==
    /\ PreCall(c)
    /\ admitted' = IF config # None /\ LimitOf(c) # None /\ strategy = "reject"
                     THEN [admitted EXCEPT ![c] = Append(@, now)]
                     ELSE admitted
    /\ UNCHANGED <<reported, streak, opened>>

RememberPostCall(c, success) ==
    /\ PostCall(c, success)
    /\ reported' = IF config.retention = 0 THEN reported ELSE Append(reported, Call(c, success))
    /\ streak' = IF config.threshold = 0 THEN streak ELSE IF success THEN 0 ELSE streak + 1
    /\ opened' = IF ~breaker.open /\ breaker'.open THEN now ELSE opened
    /\ UNCHANGED admitted

HistoryNext ==
    \/ RememberAdminister
    \/ Tick /\ UNCHANGED history
    \/ \E c \in Callers : RememberPreCall(c) \/ \E s \in BOOLEAN : RememberPostCall(c, s)

HistorySpec == HistoryInit /\ [][HistoryNext]_historyVars

\* Ledgers keep closing, and someone keeps calling the route.
FairSpec ==
    /\ HistorySpec
    /\ WF_historyVars(Tick /\ UNCHANGED history)
    /\ WF_historyVars(\E c \in Callers : RememberPreCall(c))

\* A caller held to a limit is let through fewer than twice that often in any
\* stretch as long as its window, however the stretch lies across the windows
\* and whatever pruning forgets in between.
InStretch(c, from, window) ==
    {j \in DOMAIN admitted[c] : from <= admitted[c][j] /\ admitted[c][j] < from + window}

LimitHolds ==
    config # None /\ strategy = "reject" =>
        \A c \in Callers : LimitOf(c) # None =>
            \A i \in DOMAIN admitted[c] :
                Cardinality(InStretch(c, admitted[c][i], LimitOf(c).window)) < 2 * LimitOf(c).calls

\* get_call_log answers the last calls reported, oldest first, as many as the
\* route retains, and the summary counts all of them: through growth, wrapping,
\* clearing and changes of the log's size (issues #812, #1193).
LogIsTail ==
    LET n == Len(reported)
        kept == IF config = None THEN 0 ELSE Min(config.retention, n)
    IN  /\ TypeOK
        /\ ReadLog = SubSeq(reported, n - kept + 1, n)
        /\ CallLogLength = kept
        /\ Len(CallLogFiltered(TRUE)) + Len(CallLogFiltered(FALSE)) = kept
        /\ IF n = 0 THEN summary = None
           ELSE summary = [total |-> n,
                           successes |-> Cardinality({i \in 1 .. n : reported[i].success}),
                           failures |-> Cardinality({i \in 1 .. n : ~reported[i].success}),
                           last |-> reported[n].time]

\* A report opens a closed circuit exactly when the failures in a row reach the
\* threshold as it stands now.
TripsAtThreshold ==
    [][Closed /\ streak' = streak + 1 => (breaker'.open <=> streak' >= config.threshold)]_historyVars

\* No call passes an open circuit before its recovery window, counted from when
\* it opened, is over; none ever does when there is no such window; and the call finds the
\* circuit as get_circuit_breaker_state showed it.
OpenBlocks ==
    [][total' = total + 1 /\ config # None /\ config.threshold > 0 =>
         /\ breaker.open =>
              config.recovery > 0 /\ now >= Saturating(opened + config.recovery)
         /\ breaker' = BreakerView]_historyVars

\* Once reports of failures cease, an open circuit with a recovery window lets
\* a call through again without the admin's help, as long as middleware and
\* route stay on (or the bound on calls is reached).
Tripped == breaker.open /\ config.threshold > 0 /\ config.recovery > 0
Off == ~enabled \/ ~config.enabled

CircuitRecovers == Tripped ~> (~Tripped \/ Off \/ total = MaxCalls)

\* What the docs say of opened_at: when the circuit was last opened.
OpenedAtIsOpening == breaker.open => breaker.openedAt = opened

=============================================================================
