------------------------------ MODULE StatusHub -----------------------------
(***************************************************************************)
(* The api-server's transaction status updates: the state all its tasks    *)
(* share, the task behind each WebSocket, the events POST /simulate        *)
(* publishes, and shutdown.                                                *)
(*                                                                         *)
(* Tasks run in parallel.  A step of this module is what a task does on    *)
(* the shared state in one atomic access: an update of the connection      *)
(* counter, of one entry of the concurrent map, one send or receive on the *)
(* broadcast channel.                                                      *)
(*                                                                         *)
(* A task that sends to its client waits until the message is taken, and   *)
(* polls nothing else meanwhile.  The send may fail at any time, and the   *)
(* task then leaves its loop as it does when the client closes: both are   *)
(* HangUp.                                                                 *)
(*                                                                         *)
(* Nothing uses the definitions named Slip: each misstates the definition  *)
(* after it the way a plausible mistake would.                             *)
(***************************************************************************)
EXTENDS HttpRequests, Sequences, FiniteSets

CONSTANTS
    Sockets,           \* WebSocket clients
    TxIds,             \* transaction ids
    Watched,           \* those clients ask about
    MaxConnections,    \* MAX_WS_CONNECTIONS, 100 in the code
    MaxSubscriptions,  \* MAX_SUBSCRIPTIONS_PER_CONNECTION, 100 in the code
    Capacity,          \* of the broadcast channel, 1000 in the code
    IdleTicks,         \* IDLE_TIMEOUT over PING_INTERVAL, 2 in the code
    MaxLoad,           \* bounds for TLC: clients connected and requests made, together,
    MaxRepeats         \* and subscriptions to an id the client is subscribed to

ASSUME HubNone == None \notin TxIds
ASSUME HubWatched == Watched \subseteq TxIds
ASSUME HubLimits ==
    /\ {MaxConnections, MaxSubscriptions, Capacity, IdleTicks, MaxRequests, MaxLoad}
         \subseteq Nat \ {0}
    /\ MaxRepeats \in Nat
    /\ IsFiniteSet(Sockets)

VARIABLES
    server,         \* "serving", "draining", then "drained" or "forced"
    connections,    \* ws_connection_count
    subscribers,    \* tx_subscribers, 0 where the map has no entry
    log,            \* every event sent on tx_status_tx, [tx, status, request]
    task,           \* per socket, where its task is
    subscriptions,  \* per socket, the HashSet of its task
    removing,       \* per socket, the entry remove_subscriber is about to remove
    rx,             \* per socket, how much of log its receiver has passed
    sending,        \* per socket, whether its task waits for the client to take a message
    silent,         \* per socket, whole ping intervals without a word from the client
    request         \* per request, where it is, and the tx_id it carries

\* What each client got to see, which the server does not keep.
VARIABLES
    sent,           \* per socket, the positions in log of the updates sent to it
    since,          \* per socket and id, the length of log when it last subscribed
    missed          \* per socket, the last position its receiver lost by lagging

\* What went wrong in the counters, which the server does not keep either.
VARIABLES
    repeats,        \* per id, repeated subscriptions since it last had no entry
    leaked          \* slots whose upgrade failed

shared == <<connections, subscribers>>
seen == <<sent, since, missed>>
faults == <<repeats, leaked>>
sockets == <<task, subscriptions, removing, rx, sending, silent>>
vars == <<server, shared, log, sockets, request, seen, faults>>

TransactionStatus == {"Pending", "Confirmed", "Failed"}
Events == [tx : TxIds, status : TransactionStatus, request : Requests]

\* A task that holds a connection slot.
Holding(c) == task[c] \in {"upgrading", "open", "cleanup"}

Running == server \in {"serving", "draining"}

\* The task of c is in its loop: at the select, or in an arm at a send.
InLoop(c) == Running /\ task[c] = "open" /\ removing[c] = None
Waiting(c) == InLoop(c) /\ ~sending[c]

\* The workload stays within its bound.
Bounded ==
    Cardinality({c \in Sockets : task[c] # "closed"})
        + Cardinality({r \in Requests : request[r].at # "new"}) < MaxLoad

-----------------------------------------------------------------------------
(* AppState.                                                               *)

Init ==
    /\ server = "serving"
    /\ connections = 0
    /\ subscribers = [t \in TxIds |-> 0]
    /\ log = << >>
    /\ task = [c \in Sockets |-> "closed"]
    /\ subscriptions = [c \in Sockets |-> {}]
    /\ removing = [c \in Sockets |-> None]
    /\ rx = [c \in Sockets |-> 0]
    /\ sending = [c \in Sockets |-> FALSE]
    /\ silent = [c \in Sockets |-> 0]
    /\ request = [r \in Requests |-> [at |-> "new", tx |-> None]]
    /\ sent = [c \in Sockets |-> << >>]
    /\ since = [c \in Sockets |-> [t \in TxIds |-> 0]]
    /\ missed = [c \in Sockets |-> 0]
    /\ repeats = [t \in TxIds |-> 0]
    /\ leaked = 0

BroadcastStatus(t, status, r) ==
    log' = IF t = None THEN log
                       ELSE Append(log, [tx |-> t, status |-> status, request |-> r])

AddSubscriber(t) == subscribers' = [subscribers EXCEPT ![t] = @ + 1]

\* The entry is looked up under its lock, and decremented; the last one is
\* removed, but only after the lock was dropped: FinishRemove.
RemoveSubscriber(c, t) ==
    /\ subscribers' = [subscribers EXCEPT ![t] = IF @ > 1 THEN @ - 1 ELSE @]
    /\ removing' = [removing EXCEPT ![c] = IF subscribers[t] = 1 THEN t ELSE None]

FinishRemove(c) ==
    /\ Running
    /\ removing[c] # None
    /\ subscribers' = [subscribers EXCEPT ![removing[c]] = 0]
    /\ removing' = [removing EXCEPT ![c] = None]
    /\ repeats' = [repeats EXCEPT ![removing[c]] = 0]
    /\ UNCHANGED <<server, connections, log, task, subscriptions, rx, sending, silent,
                   request, seen, leaked>>

TryAcquire(c) ==
    /\ connections < MaxConnections
    /\ connections' = connections + 1
    /\ task' = [task EXCEPT ![c] = "upgrading"]

-----------------------------------------------------------------------------
(* ws_handler: a slot is taken before the connection is upgraded, and a    *)
(* client without one is told so and closed.                               *)

Upgrade(c) ==
    /\ server = "serving" /\ Bounded
    /\ task[c] = "closed"
    /\ \/ TryAcquire(c)
       \/ /\ connections >= MaxConnections
          /\ task' = [task EXCEPT ![c] = "refused"]
          /\ UNCHANGED connections
    /\ UNCHANGED <<server, subscribers, log, subscriptions, removing, rx, sending, silent,
                   request, seen, faults>>

CloseRefused(c) ==
    /\ Running
    /\ task[c] = "refused"
    /\ task' = [task EXCEPT ![c] = "closed"]
    /\ UNCHANGED <<server, shared, log, subscriptions, removing, rx, sending, silent,
                   request, seen, faults>>

\* The client is gone before the upgrade: the task is never started, and
\* nothing else gives the slot back.
UpgradeFails(c) ==
    /\ Running
    /\ task[c] = "upgrading"
    /\ task' = [task EXCEPT ![c] = "closed"]
    /\ leaked' = leaked + 1
    /\ UNCHANGED <<server, shared, log, subscriptions, removing, rx, sending, silent,
                   request, seen, repeats>>

\* handle_socket, up to its loop: the receiver starts at the end of the
\* channel.  The first tick of the ping timer is at once, and consumed.
Open(c) ==
    /\ Running
    /\ task[c] = "upgrading"
    /\ task' = [task EXCEPT ![c] = "open"]
    /\ rx' = [rx EXCEPT ![c] = Len(log)]
    /\ UNCHANGED <<server, shared, log, subscriptions, removing, sending, silent, request,
                   seen, faults>>

-----------------------------------------------------------------------------
(* handle_socket: messages of the client.  Each sets last_activity, so the *)
(* ticks so far no longer count: the next one finds less than an interval. *)

Heard(c) == silent' = [silent EXCEPT ![c] = -1]

\* The task waits for its client to take a message.
Sends(c) == sending' = [sending EXCEPT ![c] = TRUE]

Sent(c) ==
    /\ InLoop(c)
    /\ sending[c]
    /\ sending' = [sending EXCEPT ![c] = FALSE]
    /\ UNCHANGED <<server, shared, log, task, subscriptions, removing, rx, silent, request,
                   seen, faults>>

\* A subscription is confirmed.
Subscribe(c, t) ==
    /\ Waiting(c)
    /\ Cardinality(subscriptions[c]) < MaxSubscriptions
    /\ t \in subscriptions[c] => repeats[t] < MaxRepeats
    /\ subscriptions' = [subscriptions EXCEPT ![c] = @ \cup {t}]
    /\ AddSubscriber(t)
    /\ repeats' = [repeats EXCEPT ![t] = IF t \in subscriptions[c] THEN @ + 1 ELSE @]
    /\ Heard(c)
    /\ Sends(c)
    /\ since' = [since EXCEPT ![c][t] = IF t \in subscriptions[c] THEN @ ELSE Len(log)]
    /\ UNCHANGED <<server, connections, log, task, removing, rx, request, sent, missed,
                   leaked>>

\* One over the limit is answered with an error.
OverLimit(c) ==
    /\ Waiting(c)
    /\ Cardinality(subscriptions[c]) >= MaxSubscriptions
    /\ Heard(c)
    /\ Sends(c)
    /\ UNCHANGED <<server, shared, log, task, subscriptions, removing, rx, request, seen,
                   faults>>

UnsubscribeSlip(c, t) ==
    /\ Waiting(c)
    /\ subscriptions' = [subscriptions EXCEPT ![c] = @ \ {t}]
    /\ Heard(c)
    /\ UNCHANGED <<server, shared, log, task, removing, rx, sending, request, seen, faults>>

Unsubscribe(c, t) ==
    /\ Waiting(c)
    /\ subscriptions' = [subscriptions EXCEPT ![c] = @ \ {t}]
    /\ RemoveSubscriber(c, t)
    /\ Heard(c)
    /\ since' = [since EXCEPT ![c][t] = 0]
    /\ UNCHANGED <<server, connections, log, task, rx, sending, request, sent, missed,
                   faults>>

\* A pong, or a message that does not parse.
OtherMessage(c) ==
    /\ Waiting(c)
    /\ Heard(c)
    /\ UNCHANGED <<server, shared, log, task, subscriptions, removing, rx, sending, request,
                   seen, faults>>

-----------------------------------------------------------------------------
(* handle_socket: the receiver, which recv_matching leaves alone while     *)
(* there are no subscriptions.  Being cancelled by another arm of the      *)
(* select loses nothing.                                                   *)

Behind(c) == Waiting(c) /\ subscriptions[c] # {} /\ rx[c] < Len(log)
Lagged(c) == Len(log) - rx[c] > Capacity

\* The channel kept the last Capacity events only.
Lag(c) ==
    /\ Behind(c)
    /\ Lagged(c)
    /\ rx' = [rx EXCEPT ![c] = Len(log) - Capacity]
    /\ missed' = [missed EXCEPT ![c] = Len(log) - Capacity]
    /\ UNCHANGED <<server, shared, log, task, subscriptions, removing, sending, silent,
                   request, sent, since, faults>>

Skip(c) ==
    /\ Behind(c)
    /\ ~Lagged(c)
    /\ log[rx[c] + 1].tx \notin subscriptions[c]
    /\ rx' = [rx EXCEPT ![c] = @ + 1]
    /\ UNCHANGED <<server, shared, log, task, subscriptions, removing, sending, silent,
                   request, seen, faults>>

\* After an update the receiver is taken afresh, as a late subscriber's is.
DeliverSlip(c) ==
    /\ Behind(c)
    /\ ~Lagged(c)
    /\ log[rx[c] + 1].tx \in subscriptions[c]
    /\ rx' = [rx EXCEPT ![c] = Len(log)]
    /\ sent' = [sent EXCEPT ![c] = Append(@, rx[c] + 1)]
    /\ Sends(c)
    /\ UNCHANGED <<server, shared, log, task, subscriptions, removing, silent, request,
                   since, missed, faults>>

Deliver(c) ==
    /\ Behind(c)
    /\ ~Lagged(c)
    /\ log[rx[c] + 1].tx \in subscriptions[c]
    /\ rx' = [rx EXCEPT ![c] = @ + 1]
    /\ sent' = [sent EXCEPT ![c] = Append(@, rx[c] + 1)]
    /\ Sends(c)
    /\ UNCHANGED <<server, shared, log, task, subscriptions, removing, silent, request,
                   since, missed, faults>>

RecvMatching(c) == Lag(c) \/ Skip(c) \/ Deliver(c)

-----------------------------------------------------------------------------
(* handle_socket: the end of the loop, and the cleanup after it.           *)

\* What is left is the cleanup: receiver and timer are of no use any more.
LeaveLoop(c) ==
    /\ task' = [task EXCEPT ![c] = "cleanup"]
    /\ rx' = [rx EXCEPT ![c] = 0]
    /\ sending' = [sending EXCEPT ![c] = FALSE]
    /\ silent' = [silent EXCEPT ![c] = 0]
    /\ sent' = [sent EXCEPT ![c] = << >>]
    /\ since' = [since EXCEPT ![c] = [t \in TxIds |-> 0]]
    /\ missed' = [missed EXCEPT ![c] = 0]

PingTickSlip(c) ==
    /\ Waiting(c)
    /\ silent' = [silent EXCEPT ![c] = 0]
    /\ Sends(c)
    /\ UNCHANGED <<server, shared, log, task, subscriptions, removing, rx, request, seen,
                   faults>>

\* A ping, unless the client was silent for the idle timeout.
PingTick(c) ==
    /\ Waiting(c)
    /\ \/ /\ silent[c] + 1 < IdleTicks
          /\ silent' = [silent EXCEPT ![c] = @ + 1]
          /\ Sends(c)
          /\ UNCHANGED <<task, rx, seen>>
       \/ /\ silent[c] + 1 >= IdleTicks
          /\ LeaveLoop(c)
    /\ UNCHANGED <<server, shared, log, subscriptions, removing, request, faults>>

HangUp(c) ==
    /\ InLoop(c)
    /\ LeaveLoop(c)
    /\ UNCHANGED <<server, shared, log, subscriptions, removing, request, faults>>

\* One turn of the loop over the subscriptions; those left are in the set.
Cleanup(c) ==
    /\ Running
    /\ task[c] = "cleanup"
    /\ removing[c] = None
    /\ \E t \in subscriptions[c] :
          /\ subscriptions' = [subscriptions EXCEPT ![c] = @ \ {t}]
          /\ RemoveSubscriber(c, t)
    /\ UNCHANGED <<server, connections, log, task, rx, sending, silent, request, seen,
                   faults>>

Release(c) ==
    /\ Running
    /\ task[c] = "cleanup"
    /\ removing[c] = None
    /\ subscriptions[c] = {}
    /\ connections' = connections - 1
    /\ task' = [task EXCEPT ![c] = "closed"]
    /\ UNCHANGED <<server, subscribers, log, subscriptions, removing, rx, sending, silent,
                   request, seen, faults>>

-----------------------------------------------------------------------------
(* handlers::simulate, for requests that pass its validation: one that     *)
(* does not changes nothing.                                               *)

Simulate(r, t) ==
    /\ server = "serving" /\ Bounded
    /\ request[r].at = "new" /\ \A q \in 1 .. (r - 1) : request[q].at # "new"
    /\ request' = [request EXCEPT ![r] = [at |-> "running", tx |-> t]]
    /\ BroadcastStatus(t, "Pending", r)
    /\ UNCHANGED <<server, shared, sockets, seen, faults>>

\* SorobanRpcClient::simulate answers, or falls back to an estimate that does
\* not claim success; it never returns an error.
Answer(r) ==
    /\ Running
    /\ request[r].at = "running"
    /\ request' = [request EXCEPT ![r].at = "done"]
    /\ \E wouldSucceed \in BOOLEAN :
          BroadcastStatus(request[r].tx, IF wouldSucceed THEN "Confirmed" ELSE "Failed", r)
    /\ UNCHANGED <<server, shared, sockets, seen, faults>>

\* The HTTP client disconnects while the RPC is awaited: the handler's future
\* is dropped there.
Abandon(r) ==
    /\ Running
    /\ request[r].at = "running"
    /\ request' = [request EXCEPT ![r].at = "dropped"]
    /\ UNCHANGED <<server, shared, log, sockets, seen, faults>>

-----------------------------------------------------------------------------
(* main: graceful shutdown.  When main returns, all tasks are gone.        *)

ShutdownSignal ==
    /\ server = "serving"
    /\ server' = "draining"
    /\ UNCHANGED <<shared, log, sockets, request, seen, faults>>

Exit(how) ==
    /\ server' = how
    /\ connections' = 0
    /\ subscribers' = [t \in TxIds |-> 0]
    /\ log' = << >>
    /\ task' = [c \in Sockets |-> "closed"]
    /\ subscriptions' = [c \in Sockets |-> {}]
    /\ removing' = [c \in Sockets |-> None]
    /\ rx' = [c \in Sockets |-> 0]
    /\ sending' = [c \in Sockets |-> FALSE]
    /\ silent' = [c \in Sockets |-> 0]
    /\ request' = [r \in Requests |-> [at |-> "new", tx |-> None]]
    /\ sent' = [c \in Sockets |-> << >>]
    /\ since' = [c \in Sockets |-> [t \in TxIds |-> 0]]
    /\ missed' = [c \in Sockets |-> 0]
    /\ repeats' = [t \in TxIds |-> 0]
    /\ leaked' = 0

DrainedSlip ==
    /\ server = "draining"
    /\ Exit("drained")

\* serve resolves, which upgraded connections do not hold up.
Drained ==
    /\ server = "draining"
    /\ \A r \in Requests : request[r].at # "running"
    /\ Exit("drained")

DrainDeadline ==
    /\ server = "draining"
    /\ Exit("forced")

-----------------------------------------------------------------------------
Client(c) ==
    \/ Upgrade(c) \/ UpgradeFails(c) \/ HangUp(c) \/ Sent(c) \/ OverLimit(c) \/ OtherMessage(c)
    \/ \E t \in Watched : Subscribe(c, t) \/ Unsubscribe(c, t)

Task(c) ==
    \/ CloseRefused(c) \/ Open(c) \/ RecvMatching(c) \/ PingTick(c)
    \/ FinishRemove(c) \/ Cleanup(c) \/ Release(c)

Http(r) == Answer(r) \/ Abandon(r) \/ \E t \in TxIds \cup {None} : Simulate(r, t)

Next ==
    \/ \E c \in Sockets : Client(c) \/ Task(c)
    \/ \E r \in Requests : Http(r)
    \/ ShutdownSignal \/ Drained \/ DrainDeadline

Spec == Init /\ [][Next]_vars

\* The runtime polls every task that is ready, and select picks among its ready
\* arms at random, so that none is passed over for ever, as long as the task gets
\* back to its select; RPC requests time out.  Clients do as they like, and need
\* not take what is sent to them.
FairSpec ==
    /\ Spec
    /\ \A c \in Sockets :
          /\ SF_vars(RecvMatching(c))
          /\ WF_vars(FinishRemove(c) \/ Cleanup(c) \/ Release(c))
          /\ SF_vars(PingTick(c))
    /\ \A r \in Requests : WF_vars(Answer(r))

-----------------------------------------------------------------------------
(* Properties.                                                             *)

\* Every variable has its type.
TypeOK ==
    /\ server \in {"serving", "draining", "drained", "forced"}
    /\ connections \in 0 .. MaxConnections
    /\ subscribers \in [TxIds -> Nat]
    /\ log \in Seq(Events)
    /\ task \in [Sockets -> {"closed", "refused", "upgrading", "open", "cleanup"}]
    /\ subscriptions \in [Sockets -> SUBSET TxIds]
    /\ removing \in [Sockets -> TxIds \cup {None}]
    /\ rx \in [Sockets -> Nat]
    /\ sending \in [Sockets -> BOOLEAN]
    /\ silent \in [Sockets -> -1 .. IdleTicks]
    /\ request \in [Requests -> [at : {"new", "running", "done", "dropped"},
                                 tx : TxIds \cup {None}]]
    /\ sent \in [Sockets -> Seq(Nat)]
    /\ since \in [Sockets -> [TxIds -> Nat]]
    /\ missed \in [Sockets -> Nat]
    /\ repeats \in [TxIds -> Nat]
    /\ leaked \in Nat

\* The slots counted are those of the tasks that hold one and of the upgrades that
\* failed: nothing else loses one or gives one back twice, so the server never
\* serves more than its limit and the counter, which is decremented without a
\* check, never wraps.
SlotsCoverSockets == connections = Cardinality({c \in Sockets : Holding(c)}) + leaked

\* Subscribed connections, and those about to remove the entry.
Interested(t) == {c \in Sockets : t \in subscriptions[c] \/ removing[c] = t}

\* A transaction's entry in tx_subscribers counts no more than those interested
\* in it and the repeated subscriptions it saw: whatever the order in which tasks
\* decrement and remove, only a repeated subscription makes the map fill up with
\* the departed.
NeverOvercounts ==
    \A t \in TxIds : subscribers[t] <= Cardinality(Interested(t)) + repeats[t]

\* The counters the tasks share are sound, each in its type.
CountersSound == TypeOK /\ SlotsCoverSockets /\ NeverOvercounts

\* The updates a connection gets are in the order they were published, each
\* once; and none published since it subscribed is passed over, unless the
\* receiver lagged more than the channel holds.
NothingSkipped ==
    \A c \in Sockets : task[c] = "open" =>
        /\ \A i, j \in 1 .. Len(sent[c]) : i < j => sent[c][i] < sent[c][j]
        /\ \A i \in 1 .. rx[c] :
              \/ log[i].tx \notin subscriptions[c]
              \/ i <= since[c][log[i].tx] \/ i <= missed[c]
              \/ \E k \in 1 .. Len(sent[c]) : sent[c][k] = i

\* An update waits for the connection.
Due(c) ==
    /\ task[c] = "open"
    /\ \E i \in (rx[c] + 1) .. Len(log) :
          log[i].tx \in subscriptions[c] /\ i > since[c][log[i].tx]

\* The client takes in the end whatever is sent to it, or the send fails.
Reads(c) == sending[c] ~> ~sending[c]

\* A connection whose client reads, and that stays and stays subscribed, is not
\* kept waiting for an update: its receiver catches up, whatever the client and
\* the other arms of the select do meanwhile.  And a client that reads, but of
\* which nothing is heard, is let go.
EveryEventArrives ==
    \A c \in Sockets : Reads(c) =>
        /\ Due(c) ~> ~Due(c)
        /\ (task[c] = "open") ~> (task[c] # "open" \/ silent[c] = -1)

Told(r, statuses) == \E i \in 1 .. Len(log) : log[i].request = r /\ log[i].status \in statuses

\* A transaction announced as pending gets an outcome, though the server be
\* shutting down meanwhile: it drains before it stops.  Only a client that
\* leaves while the RPC is awaited, or the drain deadline, prevents it.
PendingResolved ==
    \A r \in Requests :
        Told(r, {"Pending"})
            ~> (Told(r, {"Confirmed", "Failed"}) \/ request[r].at = "dropped" \/ server = "forced")

-----------------------------------------------------------------------------
(* What the code does not keep.                                            *)

\* Clients get no stale events: only what was published after they subscribed
\* (tests.rs, line 655).  The receiver of a connection starts when it connects,
\* and waits while nothing is subscribed.
NoStaleEvents ==
    [][\A c \in Sockets : Len(sent'[c]) > Len(sent[c])
          => LET i == sent'[c][Len(sent'[c])] IN i > since[c][log[i].tx]]_vars

\* Cleanup removes all subscriptions, however the loop was left (websocket.rs,
\* line 176).  A second subscription to the same id is counted and never removed.
NothingLeft ==
    (\A c \in Sockets : task[c] = "closed" /\ removing[c] = None)
        => \A t \in TxIds : subscribers[t] = 0

=============================================================================
