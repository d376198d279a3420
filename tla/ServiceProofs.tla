---------------------------- MODULE ServiceProofs ---------------------------
(***************************************************************************)
(* The api-server's status hub and the metrics exporter's HTTP server,     *)
(* whose tasks share maps and counters: their safety properties hold for   *)
(* any number of clients and requests, in every interleaving.              *)
(***************************************************************************)
EXTENDS StatusHub, MetricsServer, FiniteSetTheorems, TLAPS

-----------------------------------------------------------------------------
(* The hub: types.                                                         *)

TaskStates == {"closed", "refused", "upgrading", "open", "cleanup"}

LEMMA HubStarts == Init => TypeOK /\ SlotsCoverSockets /\ NeverOvercounts
<1> SUFFICES ASSUME Init
             PROVE  TypeOK /\ SlotsCoverSockets /\ NeverOvercounts
  OBVIOUS
<1>n. {MaxConnections, IdleTicks} \subseteq Nat \ {0}
  BY HubLimits
<1>1. TypeOK
  <2>1. << >> \in Seq(Events) /\ << >> \in Seq(Nat) /\ 0 \in 0 .. MaxConnections /\ 0 \in -1 .. IdleTicks
    BY <1>n
  <2>2. [at |-> "new", tx |-> None] \in [at : {"new", "running", "done", "dropped"}, tx : TxIds \cup {None}]
    OBVIOUS
  <2> QED
    BY <2>1, <2>2 DEF Init, TypeOK
<1>2. SlotsCoverSockets
  <2>1. {c \in Sockets : Holding(c)} = {}
    BY DEF Init, Holding
  <2>2. Cardinality({}) = 0 /\ connections = 0 /\ leaked = 0
    BY FS_EmptySet DEF Init
  <2> QED
    BY <2>1, <2>2 DEF SlotsCoverSockets
<1>3. NeverOvercounts
  <2>1. \A t \in TxIds : IsFiniteSet(Interested(t))
    BY HubLimits, FS_Subset DEF Interested
  <2>2. \A t \in TxIds : Cardinality(Interested(t)) \in Nat
    BY <2>1, FS_CardinalityType
  <2> QED
    BY <2>2 DEF Init, NeverOvercounts
<1> QED
  BY <1>1, <1>2, <1>3

\* The steps of the hub, one by one.
LEMMA HubSteps ==
    ASSUME Next
    PROVE  \/ \E c \in Sockets :
                 \/ Upgrade(c) \/ UpgradeFails(c) \/ HangUp(c)
                 \/ Sent(c) \/ OverLimit(c) \/ OtherMessage(c)
                 \/ CloseRefused(c) \/ Open(c) \/ Lag(c) \/ Skip(c) \/ Deliver(c) \/ PingTick(c)
                 \/ FinishRemove(c) \/ Cleanup(c) \/ Release(c)
                 \/ \E t \in TxIds : Subscribe(c, t) \/ Unsubscribe(c, t)
           \/ \E r \in Requests :
                 Answer(r) \/ Abandon(r) \/ \E t \in TxIds \cup {None} : Simulate(r, t)
           \/ ShutdownSignal
           \/ \E how \in {"drained", "forced"} : Exit(how)
  BY HubWatched DEF Next, Client, Task, Http, RecvMatching, Drained, DrainDeadline

LEMMA HubTypesKept ==
    ASSUME TypeOK, SlotsCoverSockets, Next
    PROVE  TypeOK'
<1>n. /\ MaxConnections \in Nat \ {0} /\ IdleTicks \in Nat \ {0} /\ Capacity \in Nat \ {0}
      /\ MaxRequests \in Nat
  BY HubLimits
<1>t. /\ server \in {"serving", "draining", "drained", "forced"}
      /\ connections \in 0 .. MaxConnections
      /\ subscribers \in [TxIds -> Nat]
      /\ log \in Seq(Events)
      /\ task \in [Sockets -> TaskStates]
      /\ subscriptions \in [Sockets -> SUBSET TxIds]
      /\ removing \in [Sockets -> TxIds \cup {None}]
      /\ rx \in [Sockets -> Nat]
      /\ sending \in [Sockets -> BOOLEAN]
      /\ silent \in [Sockets -> -1 .. IdleTicks]
      /\ request \in [Requests -> [at : {"new", "running", "done", "dropped"}, tx : TxIds \cup {None}]]
      /\ sent \in [Sockets -> Seq(Nat)]
      /\ since \in [Sockets -> [TxIds -> Nat]]
      /\ missed \in [Sockets -> Nat]
      /\ repeats \in [TxIds -> Nat] /\ leaked \in Nat
  BY DEF TypeOK, TaskStates
<1> DEFINE Fine == TypeOK'
<1>1. ASSUME NEW c \in Sockets, Upgrade(c) \/ UpgradeFails(c) \/ CloseRefused(c)
      PROVE  Fine
  <2>1. UNCHANGED <<server, subscribers, log, subscriptions, removing, rx, sending, silent, request,
                    seen, repeats>>
    BY <1>1 DEF Upgrade, UpgradeFails, CloseRefused, shared, faults
  <2>2. connections' \in 0 .. MaxConnections
    BY <1>1, <1>n, <1>t DEF Upgrade, TryAcquire, UpgradeFails, CloseRefused, shared
  <2>3. task' \in [Sockets -> TaskStates]
    BY <1>1, <1>t DEF Upgrade, TryAcquire, UpgradeFails, CloseRefused, TaskStates
  <2>4. leaked' \in Nat
    BY <1>1, <1>t DEF Upgrade, UpgradeFails, CloseRefused, faults
  <2> QED
    BY <1>t, <2>1, <2>2, <2>3, <2>4 DEF TypeOK, seen, TaskStates
<1>2. ASSUME NEW c \in Sockets, HangUp(c) \/ PingTick(c)
      PROVE  Fine
  <2>1. UNCHANGED <<server, connections, subscribers, log, subscriptions, removing, request, repeats,
                    leaked>>
    BY <1>2 DEF HangUp, PingTick, shared, faults
  <2>2. \/ LeaveLoop(c)
        \/ /\ silent[c] + 1 < IdleTicks /\ Sends(c)
           /\ silent' = [silent EXCEPT ![c] = @ + 1] /\ UNCHANGED <<task, rx, seen>>
    BY <1>2 DEF HangUp, PingTick
  <2>3. /\ task' \in [Sockets -> TaskStates] /\ rx' \in [Sockets -> Nat]
        /\ sending' \in [Sockets -> BOOLEAN]
        /\ silent' \in [Sockets -> -1 .. IdleTicks] /\ sent' \in [Sockets -> Seq(Nat)]
        /\ since' \in [Sockets -> [TxIds -> Nat]] /\ missed' \in [Sockets -> Nat]
    <3>1. CASE LeaveLoop(c)
      <4>1. << >> \in Seq(Nat) /\ [t \in TxIds |-> 0] \in [TxIds -> Nat] /\ 0 \in -1 .. IdleTicks
        BY <1>n
      <4> QED
        BY <1>t, <3>1, <4>1 DEF LeaveLoop, TaskStates
    <3>2. CASE /\ silent[c] + 1 < IdleTicks /\ Sends(c)
               /\ silent' = [silent EXCEPT ![c] = @ + 1] /\ UNCHANGED <<task, rx, seen>>
      <4>1. silent[c] + 1 \in -1 .. IdleTicks
        BY <1>n, <1>t, <3>2
      <4> QED
        BY <1>t, <3>2, <4>1 DEF seen, Sends
    <3> QED
      BY <2>2, <3>1, <3>2
  <2> QED
    BY <1>t, <2>1, <2>3 DEF TypeOK, TaskStates
<1>3. ASSUME NEW c \in Sockets, Sent(c) \/ OverLimit(c) \/ OtherMessage(c)
      PROVE  Fine
  <2>1. -1 \in -1 .. IdleTicks
    BY <1>n
  <2>2. silent' \in [Sockets -> -1 .. IdleTicks]
    BY <1>3, <1>t, <2>1 DEF Sent, OverLimit, OtherMessage, Heard
  <2>3. sending' \in [Sockets -> BOOLEAN]
    BY <1>3, <1>t DEF Sent, OverLimit, OtherMessage, Sends
  <2>4. UNCHANGED <<server, shared, log, task, subscriptions, removing, rx, request, seen, faults>>
    BY <1>3 DEF Sent, OverLimit, OtherMessage
  <2> QED
    BY <1>t, <2>2, <2>3, <2>4 DEF TypeOK, shared, seen, faults, TaskStates
<1>4. ASSUME NEW c \in Sockets, Open(c) \/ Lag(c) \/ Skip(c) \/ Deliver(c)
      PROVE  Fine
  <2>1. UNCHANGED <<server, connections, subscribers, log, subscriptions, removing, silent, request,
                    since, repeats, leaked>>
    BY <1>4 DEF Open, Lag, Skip, Deliver, shared, seen, faults
  <2>0. sending' \in [Sockets -> BOOLEAN]
    BY <1>4, <1>t DEF Open, Lag, Skip, Deliver, Sends
  <2>2. Len(log) \in Nat /\ rx[c] \in Nat /\ rx[c] + 1 \in Nat
    BY <1>t
  <2>3. task' \in [Sockets -> TaskStates]
    BY <1>4, <1>t DEF Open, Lag, Skip, Deliver, TaskStates
  <2>4. Lag(c) => Len(log) - Capacity \in Nat
    BY <1>n, <2>2 DEF Lag, Lagged
  <2>5. rx' \in [Sockets -> Nat] /\ missed' \in [Sockets -> Nat]
    <3>1. CASE Lag(c)
      BY <1>t, <2>4, <3>1 DEF Lag
    <3>2. CASE Open(c) \/ Skip(c) \/ Deliver(c)
      <4>1. missed' = missed
        BY <3>2 DEF Open, Skip, Deliver, seen
      <4>2. rx' = [rx EXCEPT ![c] = Len(log)] \/ rx' = [rx EXCEPT ![c] = rx[c] + 1]
        BY <3>2 DEF Open, Skip, Deliver
      <4> QED
        BY <1>t, <2>2, <4>1, <4>2
    <3> QED
      BY <1>4, <3>1, <3>2
  <2>6. sent' \in [Sockets -> Seq(Nat)]
    <3>1. Append(sent[c], rx[c] + 1) \in Seq(Nat)
      BY <1>t, <2>2
    <3> QED
      BY <1>4, <1>t, <3>1 DEF Open, Lag, Skip, Deliver, seen
  <2> QED
    BY <1>t, <2>0, <2>1, <2>3, <2>5, <2>6 DEF TypeOK, TaskStates
<1>5. ASSUME NEW c \in Sockets, FinishRemove(c) \/ Cleanup(c)
      PROVE  Fine
  <2>1. UNCHANGED <<server, connections, log, task, rx, sending, silent, request, seen, leaked>>
    BY <1>5 DEF FinishRemove, Cleanup, faults
  <2>2. /\ subscribers' \in [TxIds -> Nat] /\ removing' \in [Sockets -> TxIds \cup {None}]
        /\ subscriptions' \in [Sockets -> SUBSET TxIds] /\ repeats' \in [TxIds -> Nat]
    <3>1. CASE FinishRemove(c)
      BY <1>t, <3>1 DEF FinishRemove
    <3>2. CASE Cleanup(c)
      <4>1. PICK t \in subscriptions[c] :
              subscriptions' = [subscriptions EXCEPT ![c] = @ \ {t}] /\ RemoveSubscriber(c, t)
        BY <3>2 DEF Cleanup
      <4>2. t \in TxIds
        BY <1>t
      <4>3. (IF subscribers[t] > 1 THEN subscribers[t] - 1 ELSE subscribers[t]) \in Nat
        BY <1>t, <4>2
      <4> QED
        BY <1>t, <3>2, <4>1, <4>2, <4>3 DEF RemoveSubscriber, Cleanup, faults
    <3> QED
      BY <1>5, <3>1, <3>2
  <2> QED
    BY <1>t, <2>1, <2>2 DEF TypeOK, seen, TaskStates
<1>6. ASSUME NEW c \in Sockets, Release(c)
      PROVE  Fine
  <2>1. UNCHANGED <<server, subscribers, log, subscriptions, removing, rx, sending, silent, request,
                    seen, faults>>
    BY <1>6 DEF Release
  <2>2. connections >= 1
    <3>1. PICK H : H = {d \in Sockets : Holding(d)}
      OBVIOUS
    <3>2. IsFiniteSet(H)
      BY <3>1, HubLimits, FS_Subset
    <3>3. c \in H
      BY <1>6, <3>1 DEF Release, Holding
    <3>4. Cardinality(H) \in Nat /\ Cardinality(H) # 0
      BY <3>2, <3>3, FS_CardinalityType, FS_EmptySet
    <3>5. connections = Cardinality(H) + leaked
      BY <3>1 DEF SlotsCoverSockets
    <3> QED
      BY <1>t, <3>4, <3>5
  <2>3. connections' \in 0 .. MaxConnections
    BY <1>6, <1>n, <1>t, <2>2 DEF Release
  <2>4. task' \in [Sockets -> TaskStates]
    BY <1>6, <1>t DEF Release, TaskStates
  <2> QED
    BY <1>t, <2>1, <2>3, <2>4 DEF TypeOK, seen, faults, TaskStates
<1>7. ASSUME NEW c \in Sockets, NEW t \in TxIds, Subscribe(c, t) \/ Unsubscribe(c, t)
      PROVE  Fine
  <2>1. UNCHANGED <<server, connections, log, task, rx, request, sent, missed, leaked>>
    BY <1>7 DEF Subscribe, Unsubscribe, faults
  <2>0. sending' \in [Sockets -> BOOLEAN] /\ repeats' \in [TxIds -> Nat]
    <3>1. sending' \in [Sockets -> BOOLEAN]
      BY <1>7, <1>t DEF Subscribe, Unsubscribe, Sends
    <3>2. repeats[t] \in Nat /\ repeats[t] + 1 \in Nat
      BY <1>t
    <3>3. PICK n \in Nat : repeats' = [repeats EXCEPT ![t] = n] \/ repeats' = repeats
      BY <1>7, <3>2 DEF Subscribe, Unsubscribe, faults
    <3> QED
      BY <1>t, <3>1, <3>3
  <2>2. silent' \in [Sockets -> -1 .. IdleTicks]
    <3>1. -1 \in -1 .. IdleTicks
      BY <1>n
    <3> QED
      BY <1>7, <1>t, <3>1 DEF Subscribe, Unsubscribe, Heard
  <2>3. subscriptions' \in [Sockets -> SUBSET TxIds]
    <3>1. PICK S : subscriptions' = [subscriptions EXCEPT ![c] = S] /\ S \in SUBSET TxIds
      <4>1. subscriptions[c] \in SUBSET TxIds
        BY <1>t
      <4>2. subscriptions[c] \cup {t} \in SUBSET TxIds /\ subscriptions[c] \ {t} \in SUBSET TxIds
        BY <4>1
      <4> QED
        BY <1>7, <4>2 DEF Subscribe, Unsubscribe
    <3> QED
      BY <1>t, <3>1
  <2>4. removing' \in [Sockets -> TxIds \cup {None}]
    <3>1. removing' = removing \/ \E v \in TxIds \cup {None} : removing' = [removing EXCEPT ![c] = v]
      BY <1>7 DEF Subscribe, Unsubscribe, RemoveSubscriber
    <3> QED
      BY <1>t, <3>1
  <2>5. subscribers' \in [TxIds -> Nat]
    <3>1. (IF subscribers[t] > 1 THEN subscribers[t] - 1 ELSE subscribers[t]) \in Nat
          /\ subscribers[t] + 1 \in Nat
      BY <1>t
    <3> QED
      BY <1>7, <1>t, <3>1 DEF Subscribe, Unsubscribe, AddSubscriber, RemoveSubscriber
  <2>6. since' \in [Sockets -> [TxIds -> Nat]]
    <3>1. PICK n \in Nat : since' = [since EXCEPT ![c][t] = n]
      <4>1. Len(log) \in Nat /\ since[c][t] \in Nat
        BY <1>t
      <4>2. CASE Subscribe(c, t)
        <5>1. since' = [since EXCEPT ![c][t] = IF t \in subscriptions[c] THEN since[c][t] ELSE Len(log)]
          BY <4>2 DEF Subscribe
        <5> QED
          BY <4>1, <5>1
      <4>3. CASE Unsubscribe(c, t)
        BY <4>3 DEF Unsubscribe
      <4> QED
        BY <1>7, <4>2, <4>3
    <3>2. since' = [since EXCEPT ![c] = [since[c] EXCEPT ![t] = n]]
      BY <3>1
    <3>3. [since[c] EXCEPT ![t] = n] \in [TxIds -> Nat]
      BY <1>t
    <3> QED
      BY <1>t, <3>2, <3>3
  <2> QED
    BY <1>t, <2>0, <2>1, <2>2, <2>3, <2>4, <2>5, <2>6 DEF TypeOK, TaskStates
<1>8. ASSUME NEW r \in Requests, Answer(r) \/ Abandon(r) \/ \E t \in TxIds \cup {None} : Simulate(r, t)
      PROVE  Fine
  <2>1. UNCHANGED <<server, connections, subscribers, sockets, seen, faults>>
    BY <1>8 DEF Answer, Abandon, Simulate, shared
  <2>2. request' \in [Requests -> [at : {"new", "running", "done", "dropped"}, tx : TxIds \cup {None}]]
    <3>1. PICK u \in TxIds \cup {None}, at \in {"running", "done", "dropped"} :
            request' = [request EXCEPT ![r] = [at |-> at, tx |-> u]]
      <4>1. request[r].tx \in TxIds \cup {None} /\ request[r] = [at |-> request[r].at, tx |-> request[r].tx]
        BY <1>t
      <4>2. \A at : [request[r] EXCEPT !.at = at] = [at |-> at, tx |-> request[r].tx]
        BY <4>1
      <4>3. CASE \E t \in TxIds \cup {None} : Simulate(r, t)
        BY <4>3 DEF Simulate
      <4>4. CASE Answer(r)
        <5>1. request' = [request EXCEPT ![r] = [request[r] EXCEPT !.at = "done"]]
          BY <4>4 DEF Answer
        <5> QED
          BY <4>1, <4>2, <5>1
      <4>5. CASE Abandon(r)
        <5>1. request' = [request EXCEPT ![r] = [request[r] EXCEPT !.at = "dropped"]]
          BY <4>5 DEF Abandon
        <5> QED
          BY <4>1, <4>2, <5>1
      <4> QED
        BY <1>8, <4>3, <4>4, <4>5
    <3> QED
      BY <1>t, <3>1
  <2>3. log' \in Seq(Events)
    <3>1. ASSUME NEW u \in TxIds \cup {None}, NEW s \in TransactionStatus, BroadcastStatus(u, s, r)
          PROVE  log' \in Seq(Events)
      <4>1. u # None => [tx |-> u, status |-> s, request |-> r] \in Events
        BY DEF Events
      <4> QED
        BY <1>t, <3>1, <4>1 DEF BroadcastStatus
    <3>2. request[r].tx \in TxIds \cup {None}
      BY <1>t
    <3>3. {"Pending", "Confirmed", "Failed"} = TransactionStatus
      BY DEF TransactionStatus
    <3>4. CASE \E t \in TxIds \cup {None} : Simulate(r, t)
      BY <3>1, <3>3, <3>4 DEF Simulate
    <3>5. CASE Answer(r)
      <4>1. PICK s \in TransactionStatus : BroadcastStatus(request[r].tx, s, r)
        BY <3>3, <3>5 DEF Answer
      <4> QED
        BY <3>1, <3>2, <4>1
    <3>6. CASE Abandon(r)
      BY <1>t, <3>6 DEF Abandon
    <3> QED
      BY <1>8, <3>4, <3>5, <3>6
  <2> QED
    BY <1>t, <2>1, <2>2, <2>3 DEF TypeOK, sockets, seen, faults, TaskStates
<1>9. ASSUME ShutdownSignal
      PROVE  Fine
  BY <1>9, <1>t DEF ShutdownSignal, TypeOK, shared, sockets, seen, faults, TaskStates
<1>10. ASSUME NEW how \in {"drained", "forced"}, Exit(how)
       PROVE  Fine
  <2>1. << >> \in Seq(Events) /\ << >> \in Seq(Nat) /\ 0 \in 0 .. MaxConnections /\ 0 \in -1 .. IdleTicks
    BY <1>n
  <2>2. [at |-> "new", tx |-> None] \in [at : {"new", "running", "done", "dropped"}, tx : TxIds \cup {None}]
    OBVIOUS
  <2> QED
    BY <1>10, <2>1, <2>2 DEF Exit, TypeOK
<1> HIDE DEF Fine
<1>11. Fine
  BY <1>1, <1>2, <1>3, <1>4, <1>5, <1>6, <1>7, <1>8, <1>9, <1>10, HubSteps
<1> QED
  BY <1>11 DEF Fine

-----------------------------------------------------------------------------
(* The hub: the counters its tasks share.                                  *)

LEMMA SlotsKept ==
    ASSUME TypeOK, SlotsCoverSockets, Next
    PROVE  SlotsCoverSockets'
<1> DEFINE H == {c \in Sockets : Holding(c)}
<1>t. connections \in Nat /\ leaked \in Nat /\ task \in [Sockets -> TaskStates]
  BY HubLimits DEF TypeOK, TaskStates
<1>1. \A S \in SUBSET Sockets : IsFiniteSet(S) /\ Cardinality(S) \in Nat
  BY HubLimits, FS_Subset, FS_CardinalityType
<1>2. H \in SUBSET Sockets /\ connections = Cardinality(H) + leaked
  BY DEF SlotsCoverSockets
<1>3. \/ connections' = connections /\ leaked' = leaked /\ H' = H
      \/ connections' = connections + 1 /\ leaked' = leaked /\ \E c \in Sockets \ H : H' = H \cup {c}
      \/ connections' = connections /\ leaked' = leaked + 1 /\ \E c \in H : H' = H \ {c}
      \/ connections' = connections - 1 /\ leaked' = leaked /\ \E c \in H : H' = H \ {c}
      \/ connections' = 0 /\ leaked' = 0 /\ H' = {}
  <2>1. ASSUME NEW c \in Sockets, Upgrade(c)
        PROVE  /\ leaked' = leaked
               /\ \/ connections' = connections /\ H' = H
                  \/ connections' = connections + 1 /\ c \notin H /\ H' = H \cup {c}
    BY <1>t, <2>1 DEF Upgrade, TryAcquire, Holding, faults
  <2>2. ASSUME NEW c \in Sockets, CloseRefused(c) \/ Open(c)
        PROVE  connections' = connections /\ leaked' = leaked /\ H' = H
    BY <1>t, <2>2 DEF CloseRefused, Open, Holding, shared, faults
  <2>3. ASSUME NEW c \in Sockets, HangUp(c) \/ PingTick(c)
        PROVE  connections' = connections /\ leaked' = leaked /\ H' = H
    <3>1. task[c] = "open" /\ UNCHANGED <<connections, leaked>>
      BY <2>3 DEF HangUp, PingTick, Waiting, InLoop, shared, faults
    <3>2. task' = task \/ task' = [task EXCEPT ![c] = "cleanup"]
      BY <2>3 DEF HangUp, PingTick, LeaveLoop
    <3> QED
      BY <1>t, <3>1, <3>2 DEF Holding
  <2>4. ASSUME NEW c \in Sockets, UpgradeFails(c)
        PROVE  connections' = connections /\ leaked' = leaked + 1 /\ c \in H /\ H' = H \ {c}
    BY <1>t, <2>4 DEF UpgradeFails, Holding, shared
  <2>5. ASSUME NEW c \in Sockets, Release(c)
        PROVE  connections' = connections - 1 /\ leaked' = leaked /\ c \in H /\ H' = H \ {c}
    BY <1>t, <2>5 DEF Release, Holding, faults
  <2>6. ASSUME NEW how, Exit(how)
        PROVE  connections' = 0 /\ leaked' = 0 /\ H' = {}
    BY <2>6 DEF Exit, Holding
  <2>7. ASSUME NEW c \in Sockets, \/ Sent(c) \/ OverLimit(c) \/ OtherMessage(c)
                                  \/ Lag(c) \/ Skip(c) \/ Deliver(c)
                                  \/ FinishRemove(c) \/ Cleanup(c)
                                  \/ \E t \in TxIds : Subscribe(c, t) \/ Unsubscribe(c, t)
        PROVE  UNCHANGED <<connections, leaked, task>>
    BY <2>7 DEF Sent, OverLimit, OtherMessage, Lag, Skip, Deliver, FinishRemove, Cleanup, Subscribe,
                Unsubscribe, shared, faults
  <2>8. ASSUME \/ ShutdownSignal
               \/ \E r \in Requests :
                     Answer(r) \/ Abandon(r) \/ \E t \in TxIds \cup {None} : Simulate(r, t)
        PROVE  UNCHANGED <<connections, leaked, task>>
    BY <2>8 DEF ShutdownSignal, Answer, Abandon, Simulate, shared, sockets, faults
  <2>9. ASSUME UNCHANGED <<connections, leaked, task>>
        PROVE  connections' = connections /\ leaked' = leaked /\ H' = H
    BY <2>9 DEF Holding
  <2> HIDE DEF H
  <2> QED
    BY HubSteps, <2>1, <2>2, <2>3, <2>4, <2>5, <2>6, <2>7, <2>8, <2>9
<1>4. SlotsCoverSockets' <=> connections' = Cardinality(H') + leaked'
  BY DEF SlotsCoverSockets
<1> HIDE DEF H
<1>5. IsFiniteSet(H) /\ Cardinality(H) \in Nat
  BY <1>1, <1>2
<1>6. \A c \in Sockets \ H : Cardinality(H \cup {c}) = Cardinality(H) + 1
  BY <1>5, FS_AddElement
<1>7. \A c \in H : Cardinality(H \ {c}) = Cardinality(H) - 1
  BY <1>5, FS_RemoveElement
<1>8. Cardinality({}) = 0
  BY FS_EmptySet
<1> QED
  BY <1>t, <1>2, <1>3, <1>4, <1>5, <1>6, <1>7, <1>8

\* A task gives up an id, which it may never have subscribed to: the count of the
\* id follows.
LEMMA InterestLost ==
    ASSUME TypeOK, NEW c \in Sockets, NEW t \in TxIds, removing[c] = None,
           subscriptions' = [subscriptions EXCEPT ![c] = @ \ {t}],
           RemoveSubscriber(c, t), NEW s \in TxIds, NEW n \in Nat,
           subscribers[s] <= Cardinality(Interested(s)) + n
    PROVE  subscribers'[s] <= Cardinality(Interested(s)') + n
<1>t. /\ subscribers \in [TxIds -> Nat] /\ subscriptions \in [Sockets -> SUBSET TxIds]
      /\ removing \in [Sockets -> TxIds \cup {None}] /\ None \notin TxIds
  BY HubNone DEF TypeOK
<1>1. PICK I, J : I = Interested(s) /\ J = Interested(s)'
  OBVIOUS
<1>2. I \in SUBSET Sockets /\ J \in SUBSET Sockets
  BY <1>1 DEF Interested
<1>3. \A S \in SUBSET Sockets : IsFiniteSet(S) /\ Cardinality(S) \in Nat
  BY HubLimits, FS_Subset, FS_CardinalityType
<1>4. Cardinality(I) \in Nat /\ Cardinality(J) \in Nat /\ subscribers[s] \in Nat
  BY <1>2, <1>3, <1>t
<1>5. CASE s # t
  <2>1. J = I
    BY <1>1, <1>t, <1>5 DEF Interested, RemoveSubscriber
  <2>2. subscribers'[s] = subscribers[s]
    BY <1>t, <1>5 DEF RemoveSubscriber
  <2> QED
    BY <1>1, <2>1, <2>2
<1>6. CASE s = t /\ subscribers[t] > 1
  <2>1. J = I \ {c}
    BY <1>1, <1>t, <1>6 DEF Interested, RemoveSubscriber
  <2>2. subscribers'[t] = subscribers[t] - 1
    BY <1>t, <1>6 DEF RemoveSubscriber
  <2>3. Cardinality(J) >= Cardinality(I) - 1
    <3>1. CASE c \in I
      <4>1. Cardinality(I \ {c}) = Cardinality(I) - 1
        BY <1>2, <1>3, <3>1, FS_RemoveElement
      <4> QED
        BY <1>4, <2>1, <4>1
    <3>2. CASE c \notin I
      <4>1. I \ {c} = I
        BY <3>2
      <4>2. J = I
        BY <2>1, <4>1
      <4> QED
        BY <1>4, <4>2
    <3> QED
      BY <3>1, <3>2
  <2> QED
    BY <1>1, <1>4, <1>6, <2>2, <2>3
<1>7. CASE s = t /\ subscribers[t] = 1
  <2>1. J = I \cup {c}
    BY <1>1, <1>t, <1>7 DEF Interested, RemoveSubscriber
  <2>2. I \subseteq J /\ IsFiniteSet(J)
    BY <1>2, <1>3, <2>1
  <2>3. Cardinality(I) <= Cardinality(J)
    BY <2>2, FS_Subset
  <2>4. subscribers'[t] = subscribers[t]
    BY <1>t, <1>7 DEF RemoveSubscriber
  <2> QED
    BY <1>1, <1>4, <1>7, <2>3, <2>4
<1>8. CASE s = t /\ subscribers[t] = 0
  <2>1. subscribers'[t] = 0
    BY <1>t, <1>8 DEF RemoveSubscriber
  <2> QED
    BY <1>1, <1>4, <1>8, <2>1
<1>9. subscribers[t] \in Nat
  BY <1>t
<1> QED
  BY <1>5, <1>6, <1>7, <1>8, <1>9

LEMMA OvercountsKept ==
    ASSUME TypeOK, NeverOvercounts, Next
    PROVE  NeverOvercounts'
<1> SUFFICES ASSUME NEW s \in TxIds
             PROVE  subscribers'[s] <= Cardinality(Interested(s)') + repeats'[s]
  BY DEF NeverOvercounts
<1> DEFINE Fine == subscribers'[s] <= Cardinality(Interested(s)') + repeats'[s]
<1>0. subscribers[s] <= Cardinality(Interested(s)) + repeats[s]
  BY DEF NeverOvercounts
<1>t. /\ subscribers \in [TxIds -> Nat] /\ subscriptions \in [Sockets -> SUBSET TxIds]
      /\ removing \in [Sockets -> TxIds \cup {None}] /\ None \notin TxIds
      /\ repeats \in [TxIds -> Nat]
  BY HubNone DEF TypeOK
<1>f. \A S \in SUBSET Sockets : IsFiniteSet(S) /\ Cardinality(S) \in Nat
  BY HubLimits, FS_Subset, FS_CardinalityType
<1>z. ASSUME subscribers'[s] = 0, repeats'[s] \in Nat
      PROVE  Fine
  <2>1. Interested(s)' \in SUBSET Sockets
    BY DEF Interested
  <2>2. Cardinality(Interested(s)') \in Nat
    BY <1>f, <2>1
  <2> QED
    BY <1>z, <2>2
<1>1. ASSUME NEW c \in Sockets, NEW t \in TxIds, Subscribe(c, t)
      PROVE  Fine
  <2>1. PICK I, J : I = Interested(s) /\ J = Interested(s)'
    OBVIOUS
  <2>2. I \in SUBSET Sockets /\ Cardinality(I) \in Nat /\ subscribers[s] \in Nat /\ repeats[s] \in Nat
    <3>1. I \in SUBSET Sockets
      BY <2>1 DEF Interested
    <3> QED
      BY <1>f, <1>t, <3>1
  <2>3. CASE s = t /\ t \notin subscriptions[c]
    <3>1. J = I \cup {c} /\ c \notin I
      BY <1>1, <1>t, <2>1, <2>3 DEF Subscribe, Waiting, InLoop, Interested
    <3>2. subscribers'[s] = subscribers[s] + 1 /\ repeats'[s] = repeats[s]
      BY <1>1, <1>t, <2>3 DEF Subscribe, AddSubscriber
    <3>3. Cardinality(J) = Cardinality(I) + 1
      BY <1>f, <2>2, <3>1, FS_AddElement
    <3> QED
      BY <1>0, <2>1, <2>2, <3>2, <3>3
  <2>4. CASE s = t /\ t \in subscriptions[c]
    <3>1. J = I
      BY <1>1, <1>t, <2>1, <2>4 DEF Subscribe, Interested
    <3>2. subscribers'[s] = subscribers[s] + 1 /\ repeats'[s] = repeats[s] + 1
      BY <1>1, <1>t, <2>4 DEF Subscribe, AddSubscriber
    <3> QED
      BY <1>0, <2>1, <2>2, <3>1, <3>2
  <2>5. CASE s # t
    <3>1. J = I
      BY <1>1, <1>t, <2>1, <2>5 DEF Subscribe, Interested
    <3>2. subscribers'[s] = subscribers[s] /\ repeats'[s] = repeats[s]
      BY <1>1, <1>t, <2>5 DEF Subscribe, AddSubscriber
    <3> QED
      BY <1>0, <2>1, <3>1, <3>2
  <2> QED
    BY <2>3, <2>4, <2>5
<1>2. ASSUME NEW c \in Sockets, (\E t \in TxIds : Unsubscribe(c, t)) \/ Cleanup(c)
      PROVE  Fine
  <2>1. PICK t \in TxIds : /\ removing[c] = None
                           /\ subscriptions' = [subscriptions EXCEPT ![c] = @ \ {t}]
                           /\ RemoveSubscriber(c, t)
    BY <1>2, <1>t DEF Unsubscribe, Waiting, InLoop, Cleanup
  <2>2. repeats' = repeats /\ repeats[s] \in Nat
    BY <1>2, <1>t DEF Unsubscribe, Cleanup, faults
  <2> QED
    BY <1>0, <2>1, <2>2, InterestLost
<1>3. ASSUME NEW c \in Sockets, FinishRemove(c)
      PROVE  Fine
  <2>1. PICK u \in TxIds : u = removing[c]
    BY <1>3, <1>t DEF FinishRemove
  <2>2. CASE s = u
    <3>1. subscribers'[s] = 0 /\ repeats'[s] \in Nat
      BY <1>3, <1>t, <2>1, <2>2 DEF FinishRemove
    <3> QED
      BY <1>z, <3>1
  <2>3. CASE s # u
    <3>1. /\ Interested(s)' = Interested(s) /\ subscribers'[s] = subscribers[s]
          /\ repeats'[s] = repeats[s]
      BY <1>3, <1>t, <2>1, <2>3 DEF FinishRemove, Interested
    <3> QED
      BY <1>0, <3>1
  <2> QED
    BY <2>2, <2>3
<1>4. ASSUME UNCHANGED <<subscribers, subscriptions, removing, repeats>>
      PROVE  Fine
  <2>1. Interested(s)' = Interested(s)
    BY <1>4 DEF Interested
  <2> QED
    BY <1>0, <1>4, <2>1
<1>5. ASSUME NEW how, Exit(how)
      PROVE  Fine
  <2>1. subscribers'[s] = 0 /\ repeats'[s] \in Nat
    BY <1>5 DEF Exit
  <2> QED
    BY <1>z, <2>1
<1>6. ASSUME NEW c \in Sockets, \/ Upgrade(c) \/ UpgradeFails(c) \/ HangUp(c)
                                \/ Sent(c) \/ OverLimit(c) \/ OtherMessage(c)
                                \/ CloseRefused(c) \/ Open(c) \/ Lag(c) \/ Skip(c) \/ Deliver(c)
                                \/ PingTick(c) \/ Release(c)
      PROVE  UNCHANGED <<subscribers, subscriptions, removing, repeats>>
  BY <1>6 DEF Upgrade, UpgradeFails, HangUp, Sent, OverLimit, OtherMessage, CloseRefused, Open, Lag,
              Skip, Deliver, PingTick, Release, shared, faults
<1>7. ASSUME \/ ShutdownSignal
             \/ \E r \in Requests :
                   Answer(r) \/ Abandon(r) \/ \E t \in TxIds \cup {None} : Simulate(r, t)
      PROVE  UNCHANGED <<subscribers, subscriptions, removing, repeats>>
  BY <1>7 DEF ShutdownSignal, Answer, Abandon, Simulate, shared, sockets, faults
<1> HIDE DEF Fine
<1>8. Fine
  BY HubSteps, <1>1, <1>2, <1>3, <1>4, <1>5, <1>6, <1>7
<1> QED
  BY <1>8 DEF Fine

\* Whatever the order in which tasks come and go, decrement and remove, and
\* whatever the clients send: the connections counted are those that hold a slot
\* and those whose upgrade failed, and an id's subscribers counted are at most
\* those interested and the repeated subscriptions.
THEOREM CountersStaySound == Spec => []CountersSound
<1> DEFINE Inv == TypeOK /\ SlotsCoverSockets /\ NeverOvercounts
<1>1. Inv /\ [Next]_vars => Inv'
  <2>1. ASSUME Inv, UNCHANGED vars
        PROVE  Inv'
    BY <2>1 DEF vars, shared, sockets, seen, faults, TypeOK, SlotsCoverSockets, NeverOvercounts,
                Holding, Interested
  <2>2. ASSUME Inv, Next
        PROVE  Inv'
    BY <2>2, HubTypesKept, SlotsKept, OvercountsKept
  <2> QED
    BY <2>1, <2>2
<1> QED
  BY <1>1, HubStarts, PTL DEF Spec, CountersSound

-----------------------------------------------------------------------------
(* The hub: what a connection is sent.                                     *)

\* The receiver of c passed over event i for a reason.
Accounted(c, i) ==
    \/ log[i].tx \notin subscriptions[c]
    \/ i <= since[c][log[i].tx] \/ i <= missed[c]
    \/ \E k \in 1 .. Len(sent[c]) : sent[c][k] = i

\* A socket subscribes to nothing before it is open and is sent nothing after;
\* while it is, it was sent events its receiver has passed, in order.
Stream(c) ==
    /\ task[c] \in {"closed", "refused", "upgrading"} => subscriptions[c] = {}
    /\ task[c] # "open" => sent[c] = << >>
    /\ task[c] = "open" =>
          /\ rx[c] <= Len(log)
          /\ \A k \in 1 .. Len(sent[c]) : sent[c][k] <= rx[c]
          /\ \A i, j \in 1 .. Len(sent[c]) : i < j => sent[c][i] < sent[c][j]
          /\ \A i \in 1 .. rx[c] : Accounted(c, i)

StreamTypes ==
    /\ log \in Seq(Events)
    /\ task \in [Sockets -> TaskStates]
    /\ subscriptions \in [Sockets -> SUBSET TxIds]
    /\ rx \in [Sockets -> Nat]
    /\ sent \in [Sockets -> Seq(Nat)]
    /\ since \in [Sockets -> [TxIds -> Nat]]
    /\ missed \in [Sockets -> Nat]

\* What a step leaves alone of socket d.
Untouched(d) ==
    /\ task'[d] = task[d] /\ subscriptions'[d] = subscriptions[d] /\ rx'[d] = rx[d]
    /\ sent'[d] = sent[d] /\ since'[d] = since[d] /\ missed'[d] = missed[d]

LEMMA UntouchedStream ==
    ASSUME NEW d \in Sockets, Stream(d), StreamTypes, Untouched(d),
           \/ log' = log
           \/ \E e \in Events : log' = Append(log, e)
    PROVE  Stream(d)'
<1>1. PICK n \in Nat : n = Len(log) /\ n <= Len(log') /\ \A i \in 1 .. n : log'[i] = log[i]
  <2>1. PICK n \in Nat : n = Len(log)
    BY DEF StreamTypes
  <2>2. n <= Len(log') /\ \A i \in 1 .. n : log'[i] = log[i]
    <3>1. CASE log' = log
      BY <2>1, <3>1
    <3>2. ASSUME NEW e \in Events, log' = Append(log, e)
          PROVE  n <= Len(log') /\ \A i \in 1 .. n : log'[i] = log[i]
      <4>1. log \in Seq(Events)
        BY DEF StreamTypes
      <4>2. PICK q : q = Append(log, e)
        OBVIOUS
      <4>3. Len(q) = n + 1 /\ \A i \in 1 .. n : q[i] = log[i]
        BY <2>1, <4>1, <4>2
      <4> QED
        BY <3>2, <4>2, <4>3
    <3> QED
      BY <3>1, <3>2
  <2> QED
    BY <2>1, <2>2
<1>2. ASSUME task[d] = "open"
      PROVE  \A i \in 1 .. rx[d] : Accounted(d, i)'
  <2>1. rx[d] \in Nat /\ rx[d] <= n
    BY <1>1, <1>2 DEF Stream, StreamTypes
  <2>2. ASSUME NEW i \in 1 .. rx[d]
        PROVE  Accounted(d, i)'
    <3>1. Accounted(d, i) /\ log'[i] = log[i]
      BY <1>1, <1>2, <2>1 DEF Stream
    <3> QED
      BY <3>1 DEF Accounted, Untouched
  <2> QED
    BY <2>2
<1>3. task[d] = "open" => rx[d] <= Len(log')
  BY <1>1 DEF Stream, StreamTypes
<1> QED
  BY <1>2, <1>3 DEF Stream, Untouched

\* A socket that is not open is sent nothing.
LEMMA ClosedStream ==
    ASSUME NEW d \in Sockets, task'[d] # "open", sent'[d] = << >>,
           task'[d] \in {"closed", "refused", "upgrading"} => subscriptions'[d] = {}
    PROVE  Stream(d)'
  BY DEF Stream

\* The receiver takes the next event.
LEMMA TakesNext ==
    ASSUME NEW c \in Sockets, Stream(c), StreamTypes, Skip(c) \/ Deliver(c)
    PROVE  Stream(c)'
<1>1. /\ task[c] = "open" /\ task' = task /\ log' = log /\ subscriptions' = subscriptions
      /\ since' = since /\ missed' = missed /\ rx' = [rx EXCEPT ![c] = rx[c] + 1]
      /\ rx[c] < Len(log)
  BY DEF Skip, Deliver, Behind, Waiting, InLoop, seen
<1>2. PICK n \in Nat, s \in Seq(Nat) : n = rx[c] /\ s = sent[c]
  BY DEF StreamTypes
<1>3. PICK m \in Nat : m = Len(s) /\ DOMAIN s = 1 .. m
  BY <1>2
<1>4. Len(log) \in Nat
  BY DEF StreamTypes
<1>5. rx'[c] = n + 1 /\ n + 1 <= Len(log')
  BY <1>1, <1>2, <1>4 DEF StreamTypes
<1>6. /\ \A k \in 1 .. m : s[k] <= n
      /\ \A i, j \in 1 .. m : i < j => s[i] < s[j]
      /\ \A i \in 1 .. n : Accounted(c, i)
  BY <1>1, <1>2, <1>3 DEF Stream
<1>7. \A i : i \in 1 .. n + 1 => i = n + 1 \/ i \in 1 .. n
  BY <1>2
<1>8. \A k \in 1 .. m : s[k] \in Nat
  BY <1>2, <1>3
<1>9. CASE Skip(c)
  <2>1. sent' = sent /\ log[n + 1].tx \notin subscriptions[c]
    BY <1>2, <1>9 DEF Skip, seen
  <2>2. \A i \in 1 .. n + 1 : Accounted(c, i)'
    BY <1>1, <1>6, <1>7, <2>1 DEF Accounted
  <2>3. \A k \in 1 .. m : s[k] <= n + 1
    BY <1>2, <1>6, <1>8
  <2> QED
    BY <1>1, <1>2, <1>3, <1>5, <1>6, <2>1, <2>2, <2>3 DEF Stream
<1>10. CASE Deliver(c)
  <2>1. sent'[c] = Append(s, n + 1)
    BY <1>2, <1>10 DEF Deliver, StreamTypes
  <2>2. PICK q : q = Append(s, n + 1)
    OBVIOUS
  <2>3. Len(q) = m + 1 /\ q[m + 1] = n + 1 /\ \A k \in 1 .. m : q[k] = s[k]
    BY <1>2, <1>3, <2>2
  <2>4. \A k : k \in 1 .. m + 1 => k = m + 1 \/ k \in 1 .. m
    BY <1>3
  <2>5. \A k \in 1 .. m + 1 : q[k] <= n + 1
    BY <1>2, <1>6, <1>8, <2>3, <2>4
  <2>6. \A i, j \in 1 .. m + 1 : i < j => q[i] < q[j]
    <3>1. ASSUME NEW i \in 1 .. m + 1, NEW j \in 1 .. m + 1, i < j
          PROVE  q[i] < q[j]
      <4>1. i \in 1 .. m
        BY <1>3, <3>1
      <4>2. CASE j = m + 1
        <5>1. q[i] = s[i] /\ q[j] = n + 1
          BY <2>3, <4>1, <4>2
        <5>2. s[i] \in Nat /\ s[i] <= n
          BY <1>6, <1>8, <4>1
        <5> QED
          BY <1>2, <5>1, <5>2
      <4>3. CASE j \in 1 .. m
        BY <1>6, <2>3, <3>1, <4>1, <4>3
      <4> QED
        BY <2>4, <4>2, <4>3
    <3> QED
      BY <3>1
  <2>7. ASSUME NEW i \in 1 .. n + 1
        PROVE  Accounted(c, i)'
    <3>1. CASE i = n + 1
      <4>1. m + 1 \in 1 .. Len(q) /\ q[m + 1] = i
        BY <1>3, <2>3, <3>1
      <4> QED
        BY <2>1, <2>2, <4>1 DEF Accounted
    <3>2. CASE i \in 1 .. n
      <4>1. Accounted(c, i)
        BY <1>6, <3>2
      <4>2. \A k \in 1 .. m : k \in 1 .. Len(q) /\ q[k] = s[k]
        BY <1>3, <2>3
      <4>3. (\E k \in 1 .. m : s[k] = i) => \E k \in 1 .. Len(q) : q[k] = i
        BY <4>2
      <4> QED
        BY <1>1, <1>2, <1>3, <2>1, <2>2, <4>1, <4>3 DEF Accounted
    <3> QED
      BY <1>7, <3>1, <3>2
  <2> QED
    BY <1>1, <1>5, <2>1, <2>2, <2>3, <2>5, <2>6, <2>7 DEF Stream
<1> QED
  BY <1>9, <1>10

\* The receiver is told how much it lost.
LEMMA LosesSome ==
    ASSUME NEW c \in Sockets, Stream(c), StreamTypes, Lag(c)
    PROVE  Stream(c)'
<1>1. /\ task[c] = "open" /\ task' = task /\ log' = log /\ subscriptions' = subscriptions
      /\ since' = since /\ sent' = sent /\ Len(log) - rx[c] > Capacity
      /\ rx' = [rx EXCEPT ![c] = Len(log) - Capacity]
      /\ missed' = [missed EXCEPT ![c] = Len(log) - Capacity]
  BY DEF Lag, Lagged, Behind, Waiting, InLoop
<1>2. Capacity \in Nat \ {0} /\ Len(log) \in Nat /\ rx[c] \in Nat
  BY HubLimits DEF StreamTypes
<1>3. PICK n \in Nat : n = Len(log) - Capacity
  <2>1. Len(log) - Capacity \in Nat
    BY <1>1, <1>2
  <2> QED
    BY <2>1
<1>4. rx'[c] = n /\ missed'[c] = n /\ n <= Len(log) /\ rx[c] < n
  BY <1>1, <1>2, <1>3 DEF StreamTypes
<1>5. \A i \in 1 .. n : Accounted(c, i)'
  BY <1>4 DEF Accounted
<1>6. PICK s \in Seq(Nat) : s = sent[c]
  BY DEF StreamTypes
<1>7. \A k \in 1 .. Len(s) : s[k] <= n
  <2>1. \A k \in 1 .. Len(s) : s[k] <= rx[c] /\ s[k] \in Nat
    BY <1>1, <1>6 DEF Stream
  <2> QED
    BY <1>2, <1>4, <2>1
<1> QED
  BY <1>1, <1>4, <1>5, <1>6, <1>7 DEF Stream

\* The client subscribes, to what it is not subscribed to from here on, or
\* unsubscribes.
LEMMA Resubscribes ==
    ASSUME NEW c \in Sockets, NEW t \in TxIds, Stream(c), StreamTypes,
           Subscribe(c, t) \/ Unsubscribe(c, t)
    PROVE  Stream(c)'
<1>1. /\ task[c] = "open" /\ task' = task /\ log' = log /\ rx' = rx /\ sent' = sent /\ missed' = missed
  BY DEF Subscribe, Unsubscribe, Waiting, InLoop
<1>2. PICK n \in Nat : n = rx[c] /\ n <= Len(log) /\ Len(log) \in Nat
  BY <1>1 DEF Stream, StreamTypes
<1>3. ASSUME NEW i \in 1 .. n
      PROVE  Accounted(c, i)'
  <2>1. Accounted(c, i) /\ i <= Len(log)
    BY <1>1, <1>2 DEF Stream
  <2>2. PICK u \in TxIds : u = log[i].tx
    <3>1. log \in Seq(Events) /\ i \in 1 .. Len(log)
      BY <1>2, <2>1 DEF StreamTypes
    <3>2. log[i] \in Events
      BY <3>1
    <3> QED
      BY <3>2 DEF Events
  <2>3. CASE Subscribe(c, t)
    <3>1. /\ subscriptions'[c] = subscriptions[c] \cup {t}
          /\ since'[c][t] = IF t \in subscriptions[c] THEN since[c][t] ELSE Len(log)
          /\ \A v \in TxIds : v # t => since'[c][v] = since[c][v]
      BY <2>3 DEF Subscribe, StreamTypes
    <3>2. CASE u = t /\ t \notin subscriptions[c]
      BY <1>1, <2>1, <2>2, <3>1, <3>2 DEF Accounted
    <3>3. CASE u = t /\ t \in subscriptions[c]
      BY <1>1, <2>1, <2>2, <3>1, <3>3 DEF Accounted
    <3>4. CASE u # t
      BY <1>1, <2>1, <2>2, <3>1, <3>4 DEF Accounted
    <3> QED
      BY <3>2, <3>3, <3>4
  <2>4. CASE Unsubscribe(c, t)
    <3>1. /\ subscriptions'[c] = subscriptions[c] \ {t}
          /\ \A v \in TxIds : v # t => since'[c][v] = since[c][v]
      BY <2>4 DEF Unsubscribe, StreamTypes
    <3> QED
      BY <1>1, <2>1, <2>2, <3>1 DEF Accounted
  <2> QED
    BY <2>3, <2>4
<1> QED
  BY <1>1, <1>2, <1>3 DEF Stream

LEMMA StreamsKept ==
    ASSUME TypeOK, \A c \in Sockets : Stream(c), Next, NEW d \in Sockets
    PROVE  Stream(d)'
<1>t. StreamTypes
  BY DEF TypeOK, StreamTypes, TaskStates
<1>0. Stream(d)
  OBVIOUS
<1>1. ASSUME NEW c \in Sockets, Upgrade(c) \/ UpgradeFails(c) \/ CloseRefused(c)
      PROVE  Stream(d)'
  <2>1. UNCHANGED <<log, subscriptions, rx, sent, since, missed>>
    BY <1>1 DEF Upgrade, UpgradeFails, CloseRefused, seen
  <2>2. task'[c] # "open" /\ task[c] \in {"closed", "refused", "upgrading"}
        /\ \A e \in Sockets : e # c => task'[e] = task[e]
    BY <1>1, <1>t DEF Upgrade, TryAcquire, UpgradeFails, CloseRefused, StreamTypes
  <2>3. CASE d = c
    BY <1>0, <2>1, <2>2, <2>3, ClosedStream DEF Stream
  <2>4. CASE d # c
    <3>1. Untouched(d)
      BY <2>1, <2>2, <2>4 DEF Untouched
    <3> QED
      BY <1>0, <1>t, <2>1, <3>1, UntouchedStream
  <2> QED
    BY <2>3, <2>4
<1>2. ASSUME NEW c \in Sockets, Open(c)
      PROVE  Stream(d)'
  <2>1. UNCHANGED <<log, subscriptions, sent, since, missed>>
    BY <1>2 DEF Open, seen
  <2>2. /\ task[c] = "upgrading" /\ task'[c] = "open" /\ rx'[c] = Len(log)
        /\ \A e \in Sockets : e # c => task'[e] = task[e] /\ rx'[e] = rx[e]
    BY <1>2, <1>t DEF Open, StreamTypes
  <2>3. CASE d = c
    <3>1. sent'[c] = << >> /\ subscriptions'[c] = {}
      BY <1>0, <2>1, <2>2, <2>3 DEF Stream
    <3>2. \A i : Accounted(c, i)'
      BY <3>1 DEF Accounted
    <3>3. rx'[c] <= Len(log')
      BY <1>t, <2>1, <2>2 DEF StreamTypes
    <3> QED
      BY <2>2, <2>3, <3>1, <3>2, <3>3 DEF Stream
  <2>4. CASE d # c
    <3>1. Untouched(d)
      BY <2>1, <2>2, <2>4 DEF Untouched
    <3> QED
      BY <1>0, <1>t, <2>1, <3>1, UntouchedStream
  <2> QED
    BY <2>3, <2>4
<1>3. ASSUME NEW c \in Sockets, HangUp(c) \/ PingTick(c)
      PROVE  Stream(d)'
  <2>1. UNCHANGED <<log, subscriptions>>
    BY <1>3 DEF HangUp, PingTick, shared
  <2>2. UNCHANGED <<task, rx, seen>> \/ LeaveLoop(c)
    BY <1>3 DEF HangUp, PingTick
  <2>3. CASE UNCHANGED <<task, rx, seen>>
    <3>1. Untouched(d)
      BY <2>1, <2>3 DEF Untouched, seen
    <3> QED
      BY <1>0, <1>t, <2>1, <3>1, UntouchedStream
  <2>4. CASE LeaveLoop(c) /\ d # c
    <3>1. Untouched(d)
      BY <1>t, <2>1, <2>4 DEF Untouched, LeaveLoop, StreamTypes
    <3> QED
      BY <1>0, <1>t, <2>1, <3>1, UntouchedStream
  <2>5. CASE LeaveLoop(c) /\ d = c
    <3>1. task'[d] = "cleanup" /\ sent'[d] = << >>
      BY <1>t, <2>5 DEF LeaveLoop, StreamTypes
    <3> QED
      BY <3>1, ClosedStream
  <2> QED
    BY <2>2, <2>3, <2>4, <2>5
<1>4. ASSUME NEW c \in Sockets, Skip(c) \/ Deliver(c) \/ Lag(c)
      PROVE  Stream(d)'
  <2>1. CASE d = c
    BY <1>0, <1>4, <1>t, <2>1, TakesNext, LosesSome
  <2>2. CASE d # c
    <3>1. Untouched(d) /\ log' = log
      BY <1>4, <1>t, <2>2 DEF Untouched, Skip, Deliver, Lag, seen, StreamTypes
    <3> QED
      BY <1>0, <1>t, <3>1, UntouchedStream
  <2> QED
    BY <2>1, <2>2
<1>5. ASSUME NEW c \in Sockets, NEW t \in TxIds, Subscribe(c, t) \/ Unsubscribe(c, t)
      PROVE  Stream(d)'
  <2>1. CASE d = c
    BY <1>0, <1>5, <1>t, <2>1, Resubscribes
  <2>2. CASE d # c
    <3>1. Untouched(d) /\ log' = log
      BY <1>5, <1>t, <2>2 DEF Untouched, Subscribe, Unsubscribe, StreamTypes
    <3> QED
      BY <1>0, <1>t, <3>1, UntouchedStream
  <2> QED
    BY <2>1, <2>2
<1>6. ASSUME NEW c \in Sockets, Cleanup(c) \/ Release(c)
      PROVE  Stream(d)'
  <2>1. UNCHANGED <<log, rx, sent, since, missed>>
    BY <1>6 DEF Cleanup, Release, seen
  <2>2. CASE d = c
    <3>1. task[c] = "cleanup" /\ task'[c] # "open"
          /\ (task'[c] \in {"closed", "refused", "upgrading"} => subscriptions'[c] = {})
      BY <1>6, <1>t DEF Cleanup, Release, StreamTypes
    <3> QED
      BY <1>0, <2>1, <2>2, <3>1, ClosedStream DEF Stream
  <2>3. CASE d # c
    <3>1. Untouched(d)
      BY <1>6, <1>t, <2>1, <2>3 DEF Untouched, Cleanup, Release, StreamTypes
    <3> QED
      BY <1>0, <1>t, <2>1, <3>1, UntouchedStream
  <2> QED
    BY <2>2, <2>3
<1>7. ASSUME UNCHANGED <<task, subscriptions, rx, sent, since, missed>>,
             log' = log \/ \E e \in Events : log' = Append(log, e)
      PROVE  Stream(d)'
  <2>1. Untouched(d)
    BY <1>7 DEF Untouched
  <2> QED
    BY <1>0, <1>7, <1>t, <2>1, UntouchedStream
<1>8. ASSUME \/ \E c \in Sockets : Sent(c) \/ OverLimit(c) \/ OtherMessage(c) \/ FinishRemove(c)
             \/ ShutdownSignal
      PROVE  UNCHANGED <<task, subscriptions, rx, sent, since, missed, log>>
  BY <1>8 DEF Sent, OverLimit, OtherMessage, FinishRemove, ShutdownSignal, sockets, seen
<1>9. ASSUME NEW r \in Requests, Answer(r) \/ Abandon(r) \/ \E t \in TxIds \cup {None} : Simulate(r, t)
      PROVE  /\ UNCHANGED <<task, subscriptions, rx, sent, since, missed>>
             /\ log' = log \/ \E e \in Events : log' = Append(log, e)
  <2>1. UNCHANGED <<task, subscriptions, rx, sent, since, missed>>
    BY <1>9 DEF Answer, Abandon, Simulate, sockets, seen
  <2>2. log' = log \/ \E u \in TxIds \cup {None}, s \in TransactionStatus : BroadcastStatus(u, s, r)
    <3>1. request[r].tx \in TxIds \cup {None}
      BY DEF TypeOK
    <3>2. {"Pending", "Confirmed", "Failed"} = TransactionStatus
      BY DEF TransactionStatus
    <3>3. CASE \E t \in TxIds \cup {None} : Simulate(r, t)
      BY <3>2, <3>3 DEF Simulate
    <3>4. CASE Answer(r)
      BY <3>1, <3>2, <3>4 DEF Answer
    <3>5. CASE Abandon(r)
      BY <3>5 DEF Abandon
    <3> QED
      BY <1>9, <3>3, <3>4, <3>5
  <2>3. ASSUME NEW u \in TxIds \cup {None}, NEW s \in TransactionStatus, BroadcastStatus(u, s, r)
        PROVE  log' = log \/ \E e \in Events : log' = Append(log, e)
    <3>1. u # None => [tx |-> u, status |-> s, request |-> r] \in Events
      BY DEF Events
    <3> QED
      BY <2>3, <3>1 DEF BroadcastStatus
  <2> QED
    BY <2>1, <2>2, <2>3
<1>10. ASSUME NEW how, Exit(how)
       PROVE  Stream(d)'
  <2>1. task'[d] = "closed" /\ sent'[d] = << >> /\ subscriptions'[d] = {}
    BY <1>10 DEF Exit
  <2> QED
    BY <2>1, ClosedStream
<1> QED
  BY HubSteps, <1>1, <1>2, <1>3, <1>4, <1>5, <1>6, <1>7, <1>8, <1>9, <1>10

\* A connection gets its updates in order, each once, and none is passed over
\* but by lag: being cancelled, subscribing again and ids of others change
\* nothing about that.
THEOREM NothingIsSkipped == Spec => []NothingSkipped
<1> DEFINE Streams == \A c \in Sockets : Stream(c)
<1>1. Init => Streams
  BY DEF Init, Stream
<1>2. TypeOK /\ Streams /\ [Next]_vars => Streams'
  <2>1. ASSUME TypeOK, Streams, UNCHANGED vars
        PROVE  Streams'
    BY <2>1 DEF vars, sockets, seen, Stream, Accounted
  <2>2. ASSUME TypeOK, Streams, Next
        PROVE  Streams'
    BY <2>2, StreamsKept
  <2> QED
    BY <2>1, <2>2
<1>3. Streams => NothingSkipped
  BY DEF Stream, Accounted, NothingSkipped
<1>4. Spec => []TypeOK
  BY CountersStaySound, PTL DEF CountersSound
<1> QED
  BY <1>1, <1>2, <1>3, <1>4, PTL DEF Spec

-----------------------------------------------------------------------------
(* The exporter: types.                                                    *)

Moments == 0 .. MaxTime

RequestStates ==
    [at : States, client : Clients \cup {None}, arrived : Moments, first : BOOLEAN,
     allowed : BOOLEAN, nonce : Nonces \cup {None}, stamp : Moments, victim : Nonces \cup {None}]

\* What a request remembers is there when it needs it.
Remembers(r) ==
    /\ progress[r].at # "new" => progress[r].client \in Clients
    /\ Checking(r) => progress[r].nonce \in Nonces
    /\ progress[r].at = "evicting" => progress[r].victim \in Nonces

ServerTyped == ServerTypeOK /\ \A r \in Requests : Remembers(r)

\* The steps of the exporter, one by one.
LEMMA ServerSteps ==
    ASSUME ServerNext
    PROVE  \/ Tick
           \/ \E r \in Requests :
                 \/ InsertBucket(r) \/ Count(r) \/ Track(r)
                 \/ LookUp(r) \/ MakeRoom(r) \/ EvictOldest(r) \/ AddNonce(r)
                 \/ \E c \in Clients : Arrive(r, c)
                 \/ \E n \in Nonces : CheckNonce(r, n)
  BY DEF ServerNext, Step

\* A step moves one request, or the clock.
Others(r) == \A q \in Requests \ {r} : progress'[q] = progress[q]

\* The request moves to one of the states s and remembers what it did.
Moves(r, s) ==
    /\ progress'[r].at \in s
    /\ progress'[r].client = progress[r].client
    /\ progress'[r].arrived = progress[r].arrived
    /\ progress'[r].first = progress[r].first
    /\ progress'[r].allowed = progress[r].allowed
    /\ progress'[r].nonce = progress[r].nonce
    /\ progress'[r].stamp = progress[r].stamp

LEMMA ArriveDoes ==
    ASSUME ServerTyped, NEW r \in Requests, NEW c \in Clients, Arrive(r, c)
    PROVE  /\ progress' \in [Requests -> RequestStates] /\ Others(r)
           /\ progress[r].at = "new" /\ progress'[r].client = c /\ progress'[r].arrived = now
           /\ progress'[r].at = (IF c \in DOMAIN buckets THEN "known" ELSE "unknown")
           /\ progress'[r].first = (c \notin DOMAIN buckets)
           /\ UNCHANGED <<now, limiter, replay, history>>
<1>1. progress \in [Requests -> RequestStates] /\ now \in Moments
  BY DEF ServerTyped, ServerTypeOK, RequestStates, Moments
<1>2. PICK a \in {"known", "unknown"} : a = IF c \in DOMAIN buckets THEN "known" ELSE "unknown"
  OBVIOUS
<1>3. PICK f \in BOOLEAN : f = (c \notin DOMAIN buckets)
  OBVIOUS
<1>4. PICK x : x = [New EXCEPT !.at = a, !.client = c, !.arrived = now, !.first = f]
  OBVIOUS
<1>5. x = [at |-> a, client |-> c, arrived |-> now, first |-> f, allowed |-> FALSE,
           nonce |-> None, stamp |-> 0, victim |-> None]
  BY <1>4 DEF New
<1>6. 0 \in Moments
  BY <1>1, ServerLimits DEF Moments
<1>7. x \in RequestStates
  BY <1>1, <1>5, <1>6 DEF RequestStates, States
<1>8. progress' = [progress EXCEPT ![r] = x]
  BY <1>2, <1>3, <1>4 DEF Arrive
<1>9. progress' \in [Requests -> RequestStates] /\ Others(r) /\ progress'[r] = x
  BY <1>1, <1>7, <1>8 DEF Others
<1>10. progress[r].at = "new" /\ UNCHANGED <<now, limiter, replay, history>>
  BY DEF Arrive
<1>11. x.client = c /\ x.arrived = now /\ x.at = a /\ x.first = f
  BY <1>5
<1> QED
  BY <1>2, <1>3, <1>9, <1>10, <1>11

LEMMA InsertDoes ==
    ASSUME ServerTyped, NEW r \in Requests, InsertBucket(r)
    PROVE  /\ progress' \in [Requests -> RequestStates] /\ Others(r)
           /\ progress[r].at = "unknown" /\ Moves(r, {"known"})
           /\ UNCHANGED <<now, order, replay, history>>
<1>1. progress \in [Requests -> RequestStates]
  BY DEF ServerTyped, ServerTypeOK, RequestStates, Moments
<1>2. progress' = [progress EXCEPT ![r].at = "known"]
  BY DEF InsertBucket
<1> QED
  BY <1>1, <1>2 DEF InsertBucket, Others, Moves, RequestStates, States

Buckets == [count : Nat, start : Moments]

LEMMA CountedIs ==
    ASSUME NEW b \in Buckets, NEW t \in Moments
    PROVE  /\ Counted(b, t) \in Buckets
           /\ t - b.start >= Window => Counted(b, t).count = 1 /\ Counted(b, t).start = t
           /\ ~(t - b.start >= Window)
                => Counted(b, t).count = b.count + 1 /\ Counted(b, t).start = b.start
  BY DEF Counted, Buckets

LEMMA CheckedIs ==
    ASSUME NEW x \in RequestStates, NEW allowed \in BOOLEAN
    PROVE  /\ Checked(x, allowed) \in RequestStates
           /\ Checked(x, allowed).at = (IF allowed THEN "admitted" ELSE "refused")
           /\ Checked(x, allowed).client = x.client
           /\ ~allowed => Checked(x, allowed).arrived = x.arrived
           /\ Checked(x, allowed).first = FALSE
           /\ Checked(x, allowed).nonce = x.nonce /\ Checked(x, allowed).stamp = x.stamp
<1>1. 0 \in Moments
  BY ServerLimits DEF Moments
<1> QED
  BY <1>1 DEF Checked, RequestStates, States

LEMMA CountDoes ==
    ASSUME ServerTyped, NEW r \in Requests, Count(r)
    PROVE  /\ progress' \in [Requests -> RequestStates] /\ Others(r)
           /\ progress[r].at = "known" /\ progress[r].client \in Clients
           /\ progress'[r].client = progress[r].client
           /\ UNCHANGED <<now, order, replay, rivals, evicted, looked>>
           /\ \/ /\ progress[r].client \notin DOMAIN buckets
                 /\ progress'[r].at = "panicked"
                 /\ UNCHANGED <<buckets, counted>>
              \/ /\ progress[r].client \in DOMAIN buckets
                 /\ buckets' = Put(buckets, progress[r].client,
                                   Counted(buckets[progress[r].client], progress[r].arrived))
                 /\ counted' = [counted EXCEPT ![r] = now]
                 /\ \E allowed \in BOOLEAN :
                       /\ allowed = (Counted(buckets[progress[r].client],
                                             progress[r].arrived).count <= MaxPerWindow)
                       /\ \/ /\ progress[r].first /\ progress'[r].first
                             /\ progress'[r].at = "counted" /\ progress'[r].allowed = allowed
                             /\ progress'[r].arrived = progress[r].arrived
                          \/ /\ ~progress[r].first
                             /\ progress'[r].at = (IF allowed THEN "admitted" ELSE "refused")
                             /\ ~allowed => progress'[r].arrived = progress[r].arrived
<1>1. progress \in [Requests -> RequestStates] /\ progress[r].at = "known"
  BY DEF ServerTyped, ServerTypeOK, RequestStates, Moments, Count
<1>2. PICK x \in RequestStates : x = progress[r]
  BY <1>1
<1>3. progress[r].client \in Clients
  BY <1>1 DEF ServerTyped, Remembers
<1>4. UNCHANGED <<now, order, replay, rivals, evicted, looked>>
  BY DEF Count
<1>5. CASE progress[r].client \notin DOMAIN buckets
  <2>1. progress' = [progress EXCEPT ![r].at = "panicked"] /\ UNCHANGED <<buckets, counted>>
    BY <1>5 DEF Count
  <2> QED
    BY <1>1, <1>3, <1>4, <1>5, <2>1 DEF Others, RequestStates, States
<1>6. CASE progress[r].client \in DOMAIN buckets
  <2>1. PICK b : b = Counted(buckets[x.client], x.arrived)
    OBVIOUS
  <2>2. PICK allowed \in BOOLEAN : allowed = (b.count <= MaxPerWindow)
    <3>1. buckets[x.client] \in Buckets /\ x.arrived \in Moments
      BY <1>2, <1>6 DEF ServerTyped, ServerTypeOK, Buckets, Moments, RequestStates
    <3>2. b \in Buckets
      BY <2>1, <3>1, CountedIs
    <3>3. (b.count <= MaxPerWindow) \in BOOLEAN
      BY <3>2, ServerLimits DEF Buckets
    <3> QED
      BY <3>3
  <2>3. buckets' = Put(buckets, x.client, b) /\ counted' = [counted EXCEPT ![r] = now]
    BY <1>2, <1>6, <2>1 DEF Count
  <2>4. progress' = [progress EXCEPT ![r] =
                        IF x.first THEN [x EXCEPT !.at = "counted", !.allowed = allowed]
                                   ELSE Checked(x, allowed)]
    BY <1>1, <1>2, <1>6, <2>1, <2>2 DEF Count
  <2>5. CASE x.first
    <3>1. PICK y : y = [x EXCEPT !.at = "counted", !.allowed = allowed]
      OBVIOUS
    <3>2. y \in RequestStates /\ y.at = "counted" /\ y.allowed = allowed /\ y.arrived = x.arrived
          /\ y.client = x.client /\ y.first = x.first
      BY <3>1 DEF RequestStates, States
    <3>3. progress' = [progress EXCEPT ![r] = y]
      BY <2>4, <2>5, <3>1
    <3>4. progress' \in [Requests -> RequestStates] /\ Others(r) /\ progress'[r] = y
      BY <1>1, <3>2, <3>3 DEF Others
    <3> QED
      BY <1>1, <1>2, <1>3, <1>4, <1>6, <2>1, <2>2, <2>3, <2>5, <3>2, <3>4
  <2>6. CASE ~x.first
    <3>1. PICK y : y = Checked(x, allowed)
      OBVIOUS
    <3>2. y \in RequestStates /\ y.at = (IF allowed THEN "admitted" ELSE "refused")
          /\ y.client = x.client /\ (~allowed => y.arrived = x.arrived)
      BY <3>1, CheckedIs
    <3>3. progress' = [progress EXCEPT ![r] = y]
      BY <2>4, <2>6, <3>1
    <3>4. progress' \in [Requests -> RequestStates] /\ Others(r) /\ progress'[r] = y
      BY <1>1, <3>2, <3>3 DEF Others
    <3> QED
      BY <1>1, <1>2, <1>3, <1>4, <1>6, <2>1, <2>2, <2>3, <2>6, <3>2, <3>4
  <2> QED
    BY <1>2, <2>5, <2>6 DEF RequestStates
<1> QED
  BY <1>5, <1>6

LEMMA TrackDoes ==
    ASSUME ServerTyped, NEW r \in Requests, Track(r)
    PROVE  /\ progress' \in [Requests -> RequestStates] /\ Others(r)
           /\ progress[r].at = "counted" /\ progress[r].client \in Clients
           /\ progress'[r].client = progress[r].client /\ progress'[r].first = FALSE
           /\ progress'[r].at = (IF progress[r].allowed THEN "admitted" ELSE "refused")
           /\ ~progress[r].allowed => progress'[r].arrived = progress[r].arrived
           /\ UNCHANGED <<now, replay, history>>
<1>1. progress \in [Requests -> RequestStates] /\ progress[r].at = "counted"
  BY DEF ServerTyped, ServerTypeOK, RequestStates, Moments, Track
<1>2. PICK x \in RequestStates : x = progress[r]
  BY <1>1
<1>3. progress[r].client \in Clients
  BY <1>1 DEF ServerTyped, Remembers
<1>4. x.allowed \in BOOLEAN
  BY DEF RequestStates
<1>5. PICK y : y = Checked(x, x.allowed)
  OBVIOUS
<1>6. y \in RequestStates /\ y.at = (IF x.allowed THEN "admitted" ELSE "refused")
      /\ y.client = x.client /\ (~x.allowed => y.arrived = x.arrived) /\ y.first = FALSE
  BY <1>4, <1>5, CheckedIs
<1>7. progress' = [progress EXCEPT ![r] = y] /\ UNCHANGED <<now, replay, history>>
  BY <1>1, <1>2, <1>5 DEF Track
<1> QED
  BY <1>1, <1>2, <1>3, <1>6, <1>7 DEF Others

LEMMA CheckNonceDoes ==
    ASSUME ServerTyped, NEW r \in Requests, NEW n \in Nonces, CheckNonce(r, n)
    PROVE  /\ progress' \in [Requests -> RequestStates] /\ Others(r)
           /\ progress[r].at = "admitted" /\ progress'[r].at = "looking"
           /\ progress'[r].client = progress[r].client
           /\ progress'[r].nonce = n /\ progress'[r].stamp = now
           /\ UNCHANGED <<now, limiter, evicted, counted, looked>>
<1>1. progress \in [Requests -> RequestStates] /\ now \in Moments
  BY DEF ServerTyped, ServerTypeOK, RequestStates, Moments
<1>2. progress' = [progress EXCEPT ![r].at = "looking", ![r].nonce = n, ![r].stamp = now]
  BY DEF CheckNonce
<1>3. progress[r].at = "admitted" /\ UNCHANGED <<now, limiter, evicted, counted, looked>>
  BY DEF CheckNonce
<1>4. /\ progress' \in [Requests -> RequestStates] /\ Others(r)
      /\ progress'[r].at = "looking" /\ progress'[r].client = progress[r].client
      /\ progress'[r].nonce = n /\ progress'[r].stamp = now
  <2>1. PICK x \in RequestStates, t \in Moments : x = progress[r] /\ t = now
    BY <1>1
  <2>2. PICK y : y = [x EXCEPT !.at = "looking", !.nonce = n, !.stamp = t]
    OBVIOUS
  <2>3. y \in RequestStates /\ y.at = "looking" /\ y.client = x.client /\ y.nonce = n /\ y.stamp = t
    BY <2>2 DEF RequestStates, States
  <2>4. progress' = [progress EXCEPT ![r] = y]
    BY <1>1, <1>2, <2>1, <2>2
  <2> QED
    BY <1>1, <2>1, <2>3, <2>4 DEF Others
<1> QED
  BY <1>3, <1>4

LEMMA LookUpDoes ==
    ASSUME ServerTyped, NEW r \in Requests, LookUp(r)
    PROVE  /\ progress' \in [Requests -> RequestStates] /\ Others(r)
           /\ progress[r].at = "looking"
           /\ Moves(r, {IF progress[r].nonce \in DOMAIN cache THEN "duplicate" ELSE "room"})
           /\ looked' = [looked EXCEPT ![r] = now]
           /\ UNCHANGED <<now, limiter, replay, rivals, evicted, counted>>
<1>1. progress \in [Requests -> RequestStates]
  BY DEF ServerTyped, ServerTypeOK, RequestStates, Moments
<1>2. PICK a \in {"duplicate", "room"} :
        a = IF progress[r].nonce \in DOMAIN cache THEN "duplicate" ELSE "room"
  OBVIOUS
<1>3. progress' = [progress EXCEPT ![r].at = a]
  BY <1>2 DEF LookUp
<1>4. progress[r].at = "looking" /\ looked' = [looked EXCEPT ![r] = now]
      /\ UNCHANGED <<now, limiter, replay, rivals, evicted, counted>>
  BY DEF LookUp
<1>5. Moves(r, {a}) /\ progress' \in [Requests -> RequestStates] /\ Others(r)
  BY <1>1, <1>3 DEF Others, Moves, RequestStates, States
<1> QED
  BY <1>2, <1>4, <1>5

LEMMA VictimChosen ==
    ASSUME progress \in [Requests -> RequestStates], NEW r \in Requests,
           NEW a \in States, NEW v \in Nonces \cup {None},
           progress' = [progress EXCEPT ![r].at = a, ![r].victim = v]
    PROVE  /\ progress' \in [Requests -> RequestStates] /\ Others(r)
           /\ Moves(r, {a}) /\ progress'[r].victim = v
<1>1. PICK x \in RequestStates : x = progress[r]
  OBVIOUS
<1>2. PICK y : y = [x EXCEPT !.at = a, !.victim = v]
  OBVIOUS
<1>3. /\ y \in RequestStates /\ y.at = a /\ y.victim = v /\ y.client = x.client
      /\ y.arrived = x.arrived /\ y.first = x.first /\ y.allowed = x.allowed
      /\ y.nonce = x.nonce /\ y.stamp = x.stamp
  BY <1>2 DEF RequestStates
<1>4. progress' = [progress EXCEPT ![r] = y]
  BY <1>1, <1>2
<1>5. progress' \in [Requests -> RequestStates] /\ progress'[r] = y /\ Others(r)
  BY <1>3, <1>4 DEF Others
<1> QED
  BY <1>1, <1>3, <1>5 DEF Moves

LEMMA MakeRoomDoes ==
    ASSUME ServerTyped, NEW r \in Requests, MakeRoom(r)
    PROVE  /\ progress' \in [Requests -> RequestStates] /\ Others(r)
           /\ progress[r].at = "room" /\ Moves(r, {"adding", "evicting"})
           /\ progress'[r].at = "evicting" => progress'[r].victim \in Nonces
           /\ UNCHANGED <<now, limiter, replay, history>>
<1>1. progress \in [Requests -> RequestStates] /\ DOMAIN cache \subseteq Nonces
  BY DEF ServerTyped, ServerTypeOK, RequestStates, Moments
<1>2. progress[r].at = "room" /\ UNCHANGED <<now, limiter, replay, history>>
  BY DEF MakeRoom
<1>3. CASE progress' = [progress EXCEPT ![r].at = "adding"]
  BY <1>1, <1>2, <1>3 DEF Others, Moves, RequestStates, States
<1>4. ASSUME NEW n \in Nonces, progress' = [progress EXCEPT ![r].at = "evicting", ![r].victim = n]
      PROVE  /\ progress' \in [Requests -> RequestStates] /\ Others(r)
             /\ Moves(r, {"adding", "evicting"}) /\ progress'[r].victim \in Nonces
  <2>1. "evicting" \in States
    BY DEF States
  <2>2. progress' \in [Requests -> RequestStates] /\ Others(r)
        /\ Moves(r, {"evicting"}) /\ progress'[r].victim = n
    BY <1>1, <1>4, <2>1, VictimChosen
  <2> QED
    BY <2>2 DEF Moves
<1>5. \/ progress' = [progress EXCEPT ![r].at = "adding"]
      \/ \E n \in Nonces : progress' = [progress EXCEPT ![r].at = "evicting", ![r].victim = n]
  BY <1>1 DEF MakeRoom, Oldest
<1> QED
  BY <1>2, <1>3, <1>4, <1>5

LEMMA EvictDoes ==
    ASSUME ServerTyped, NEW r \in Requests, EvictOldest(r)
    PROVE  /\ progress' \in [Requests -> RequestStates] /\ Others(r)
           /\ progress[r].at = "evicting" /\ Moves(r, {"adding"})
           /\ progress[r].victim \in Nonces
           /\ cache' = Delete(cache, {progress[r].victim})
           /\ evicted' = evicted \cup {progress[r].victim}
           /\ UNCHANGED <<now, limiter, swept, rivals, counted, looked>>
<1>1. progress \in [Requests -> RequestStates]
  BY DEF ServerTyped, ServerTypeOK, RequestStates, Moments
<1>2. /\ progress[r].at = "evicting" /\ cache' = Delete(cache, {progress[r].victim})
      /\ evicted' = evicted \cup {progress[r].victim}
      /\ UNCHANGED <<now, limiter, swept, rivals, counted, looked>>
  BY DEF EvictOldest
<1>3. progress[r].victim \in Nonces
  BY <1>2 DEF ServerTyped, Remembers
<1>4. progress' = [progress EXCEPT ![r].at = "adding", ![r].victim = None]
  BY DEF EvictOldest
<1>5. progress' \in [Requests -> RequestStates] /\ Others(r) /\ Moves(r, {"adding"})
  <2>1. "adding" \in States
    BY DEF States
  <2> QED
    BY <1>1, <1>4, <2>1, VictimChosen
<1> QED
  BY <1>2, <1>3, <1>5

LEMMA AddDoes ==
    ASSUME ServerTyped, NEW r \in Requests, AddNonce(r)
    PROVE  /\ progress' \in [Requests -> RequestStates] /\ Others(r)
           /\ progress[r].at = "adding" /\ Moves(r, {"accepted"})
           /\ progress[r].nonce \in Nonces /\ progress[r].stamp \in Moments
           /\ cache' = Put(cache, progress[r].nonce, progress[r].stamp)
           /\ UNCHANGED <<now, limiter, swept, history>>
<1>1. progress \in [Requests -> RequestStates]
  BY DEF ServerTyped, ServerTypeOK, RequestStates, Moments
<1>2. /\ progress[r].at = "adding" /\ cache' = Put(cache, progress[r].nonce, progress[r].stamp)
      /\ UNCHANGED <<now, limiter, swept, history>>
  BY DEF AddNonce
<1>3. progress[r].nonce \in Nonces
  BY <1>2 DEF ServerTyped, Remembers, Checking
<1>4. progress' = [progress EXCEPT ![r].at = "accepted"]
  BY DEF AddNonce
<1>5. progress' \in [Requests -> RequestStates] /\ Others(r) /\ Moves(r, {"accepted"})
  BY <1>1, <1>4 DEF Others, Moves, RequestStates, States
<1> QED
  BY <1>1, <1>2, <1>3, <1>5 DEF RequestStates

\* Every variable has its type, the steps taken one by one.
ServerTypes ==
    /\ now \in Moments
    /\ DOMAIN buckets \subseteq Clients
    /\ \A k \in DOMAIN buckets : buckets[k] \in Buckets
    /\ order \in Seq(Clients)
    /\ DOMAIN cache \subseteq Nonces
    /\ \A n \in DOMAIN cache : cache[n] \in Moments
    /\ swept \in Moments
    /\ rivals \in [Requests -> SUBSET Requests]
    /\ evicted \subseteq Nonces
    /\ counted \in [Requests -> Moments \cup {None}]
    /\ looked \in [Requests -> Moments \cup {None}]

LEMMA ServerTypesAre ==
    ServerTypeOK <=> ServerTypes /\ progress \in [Requests -> RequestStates]
  BY DEF ServerTypeOK, ServerTypes, Moments, Buckets, RequestStates

\* What a request remembers stays there, whoever moves.
LEMMA RemembersKept ==
    ASSUME ServerTyped, ServerNext
    PROVE  progress' \in [Requests -> RequestStates] /\ \A q \in Requests : Remembers(q)'
<1>0. progress \in [Requests -> RequestStates] /\ \A q \in Requests : Remembers(q)
  BY DEF ServerTyped, ServerTypeOK, RequestStates, Moments
<1>1. ASSUME NEW r \in Requests, Others(r), Remembers(r)'
      PROVE  \A q \in Requests : Remembers(q)'
  BY <1>0, <1>1 DEF Others, Remembers, Checking
<1>2. CASE Tick
  BY <1>0, <1>2 DEF Tick, Remembers, Checking
<1>3. ASSUME NEW r \in Requests, NEW c \in Clients, Arrive(r, c)
      PROVE  progress' \in [Requests -> RequestStates] /\ \A q \in Requests : Remembers(q)'
  <2>1. progress'[r].at \in {"known", "unknown"} /\ progress'[r].client = c
    BY <1>3, ArriveDoes
  <2> QED
    BY <1>1, <1>3, <2>1, ArriveDoes DEF Remembers, Checking
<1>4. ASSUME NEW r \in Requests, InsertBucket(r)
      PROVE  progress' \in [Requests -> RequestStates] /\ \A q \in Requests : Remembers(q)'
  <2>1. Remembers(r)'
    BY <1>0, <1>4, InsertDoes DEF Remembers, Checking, Moves
  <2> QED
    BY <1>1, <1>4, <2>1, InsertDoes
<1>5. ASSUME NEW r \in Requests, Count(r)
      PROVE  progress' \in [Requests -> RequestStates] /\ \A q \in Requests : Remembers(q)'
  <2>1. progress'[r].at \in {"panicked", "counted", "admitted", "refused"}
        /\ progress'[r].client \in Clients
    BY <1>5, CountDoes
  <2>2. Remembers(r)'
    BY <2>1 DEF Remembers, Checking
  <2> QED
    BY <1>1, <1>5, <2>2, CountDoes
<1>6. ASSUME NEW r \in Requests, Track(r)
      PROVE  progress' \in [Requests -> RequestStates] /\ \A q \in Requests : Remembers(q)'
  <2>1. progress'[r].at \in {"admitted", "refused"} /\ progress'[r].client \in Clients
    BY <1>6, TrackDoes
  <2>2. Remembers(r)'
    BY <2>1 DEF Remembers, Checking
  <2> QED
    BY <1>1, <1>6, <2>2, TrackDoes
<1>7. ASSUME NEW r \in Requests, NEW n \in Nonces, CheckNonce(r, n)
      PROVE  progress' \in [Requests -> RequestStates] /\ \A q \in Requests : Remembers(q)'
  <2>1. Remembers(r)'
    BY <1>0, <1>7, CheckNonceDoes DEF Remembers, Checking
  <2> QED
    BY <1>1, <1>7, <2>1, CheckNonceDoes
<1>8. ASSUME NEW r \in Requests, LookUp(r)
      PROVE  progress' \in [Requests -> RequestStates] /\ \A q \in Requests : Remembers(q)'
  <2>1. Remembers(r)'
    BY <1>0, <1>8, LookUpDoes DEF Remembers, Checking, Moves
  <2> QED
    BY <1>1, <1>8, <2>1, LookUpDoes
<1>9. ASSUME NEW r \in Requests, MakeRoom(r)
      PROVE  progress' \in [Requests -> RequestStates] /\ \A q \in Requests : Remembers(q)'
  <2>1. Remembers(r)'
    BY <1>0, <1>9, MakeRoomDoes DEF Remembers, Checking, Moves
  <2> QED
    BY <1>1, <1>9, <2>1, MakeRoomDoes
<1>10. ASSUME NEW r \in Requests, EvictOldest(r)
       PROVE  progress' \in [Requests -> RequestStates] /\ \A q \in Requests : Remembers(q)'
  <2>1. Remembers(r)'
    BY <1>0, <1>10, EvictDoes DEF Remembers, Checking, Moves
  <2> QED
    BY <1>1, <1>10, <2>1, EvictDoes
<1>11. ASSUME NEW r \in Requests, AddNonce(r)
       PROVE  progress' \in [Requests -> RequestStates] /\ \A q \in Requests : Remembers(q)'
  <2>1. Remembers(r)'
    BY <1>0, <1>11, AddDoes DEF Remembers, Checking, Moves
  <2> QED
    BY <1>1, <1>11, <2>1, AddDoes
<1> QED
  BY ServerSteps, <1>2, <1>3, <1>4, <1>5, <1>6, <1>7, <1>8, <1>9, <1>10, <1>11



\* What is left of the eviction order, and whose buckets go.
LEMMA TrackCuts ==
    ASSUME ServerTyped, NEW r \in Requests, Track(r)
    PROVE  /\ order' \in Seq(Clients) /\ Len(order') <= MaxBuckets
           /\ DOMAIN buckets' \subseteq DOMAIN buckets
           /\ \A k \in DOMAIN buckets' : buckets'[k] = buckets[k]
           /\ \A k \in DOMAIN buckets' : Listed(k) \/ k = progress[r].client => Listed(k)'
<1>1. progress[r].client \in Clients
  BY TrackDoes
<1>2. order \in Seq(Clients) /\ MaxBuckets \in Nat \ {0}
  BY ServerLimits DEF ServerTyped, ServerTypeOK
<1>3. PICK n \in Nat : n = Len(order)
  BY <1>2
<1>4. PICK o : o = Append(order, progress[r].client)
  OBVIOUS
<1>5. /\ o \in Seq(Clients) /\ Len(o) = n + 1 /\ o[n + 1] = progress[r].client
      /\ \A i \in 1 .. n : o[i] = order[i]
  BY <1>1, <1>2, <1>3, <1>4
<1>6. PICK s \in Nat : s = IF n + 1 > MaxBuckets THEN n + 1 - MaxBuckets ELSE 0
  <2>1. (IF n + 1 > MaxBuckets THEN n + 1 - MaxBuckets ELSE 0) \in Nat
    BY <1>2
  <2> QED
    BY <2>1
<1>7. s <= n /\ n + 1 - s <= MaxBuckets
  BY <1>2, <1>5, <1>6
<1>8. /\ order' = SubSeq(o, s + 1, n + 1)
      /\ buckets' = [k \in DOMAIN buckets \ {o[i] : i \in 1 .. s} |-> buckets[k]]
  <2>1. PICK m : m = Len(o)
    OBVIOUS
  <2>2. PICK u : u = IF m > MaxBuckets THEN m - MaxBuckets ELSE 0
    OBVIOUS
  <2>3. /\ order' = SubSeq(o, u + 1, m)
        /\ buckets' = [k \in DOMAIN buckets \ {o[i] : i \in 1 .. u} |-> buckets[k]]
    BY <1>4, <2>1, <2>2 DEF Track
  <2>4. m = n + 1
    BY <1>5, <2>1
  <2>5. u = s
    <3>1. MaxBuckets \in Nat
      BY ServerLimits
    <3> QED
      BY <1>6, <2>2, <2>4, <3>1
  <2> QED
    BY <2>3, <2>4, <2>5
<1>9. /\ order' \in Seq(Clients) /\ Len(order') = n + 1 - s
      /\ \A i \in 1 .. n + 1 - s : order'[i] = o[s + i]
  BY <1>5, <1>7, <1>8
<1>10. DOMAIN buckets' = DOMAIN buckets \ {o[i] : i \in 1 .. s}
  BY <1>8
<1>11. ASSUME NEW k \in DOMAIN buckets', Listed(k) \/ k = progress[r].client
       PROVE  Listed(k)'
  <2>1. PICK i \in 1 .. n + 1 : o[i] = k
    <3>1. CASE Listed(k)
      <4>1. PICK i \in 1 .. n : order[i] = k
        BY <1>3, <3>1 DEF Listed
      <4>2. o[i] = k /\ i \in 1 .. n + 1
        BY <1>5, <4>1
      <4> QED
        BY <4>2
    <3>2. CASE k = progress[r].client
      <4>1. n + 1 \in 1 .. n + 1
        OBVIOUS
      <4> QED
        BY <1>5, <3>2, <4>1
    <3> QED
      BY <1>11, <3>1, <3>2
  <2>2. ~(i \in 1 .. s)
    BY <1>10, <2>1
  <2>3. i - s \in 1 .. n + 1 - s /\ s + (i - s) = i
    BY <2>2
  <2>4. order'[i - s] = k
    BY <1>9, <2>1, <2>3
  <2> QED
    BY <1>9, <2>3, <2>4 DEF Listed
<1> QED
  BY <1>7, <1>8, <1>9, <1>10, <1>11

LEMMA ServerTypesKept ==
    ASSUME ServerTyped, ServerNext
    PROVE  ServerTyped'
<1>0. ServerTypes /\ progress \in [Requests -> RequestStates] /\ \A q \in Requests : Remembers(q)
  BY ServerTypesAre DEF ServerTyped
<1> SUFFICES ServerTypes'
  <2>1. ASSUME ServerTypes', progress' \in [Requests -> RequestStates]
        PROVE  ServerTypeOK'
    BY <2>1 DEF ServerTypeOK, ServerTypes, Moments, Buckets, RequestStates
  <2> QED
    BY <2>1, RemembersKept DEF ServerTyped
<1>1. CASE Tick
  <2>1. now' \in Moments
    BY <1>0, <1>1, ServerLimits DEF Tick, ServerTypes, Moments
  <2>2. UNCHANGED <<limiter, replay, history>>
    BY <1>1 DEF Tick
  <2> QED
    BY <1>0, <2>1, <2>2 DEF ServerTypes, limiter, replay, history
<1>2. ASSUME NEW r \in Requests, NEW c \in Clients, Arrive(r, c)
      PROVE  ServerTypes'
  BY <1>0, <1>2, ArriveDoes DEF ServerTypes, limiter, replay, history
<1>3. ASSUME NEW r \in Requests, InsertBucket(r)
      PROVE  ServerTypes'
  <2>1. progress[r].at = "unknown" /\ UNCHANGED <<now, order, replay, history>>
    BY <1>3, InsertDoes
  <2>2. PICK k \in Clients : k = progress[r].client
    BY <1>0, <2>1 DEF Remembers
  <2>3. PICK b : b = [count |-> 0, start |-> progress[r].arrived]
    OBVIOUS
  <2>4. b \in Buckets
    BY <1>0, <2>3 DEF Buckets, RequestStates
  <2>5. buckets' = Put(buckets, k, b)
    BY <1>3, <2>2, <2>3 DEF InsertBucket
  <2>6. /\ DOMAIN buckets' = DOMAIN buckets \cup {k} /\ buckets'[k] = b
        /\ \A x \in DOMAIN buckets \ {k} : buckets'[x] = buckets[x]
    BY <2>5 DEF Put
  <2>7. DOMAIN buckets' \subseteq Clients /\ \A x \in DOMAIN buckets' : buckets'[x] \in Buckets
    BY <1>0, <2>2, <2>4, <2>6 DEF ServerTypes
  <2> QED
    BY <1>0, <2>1, <2>7 DEF ServerTypes, replay, history
<1>4. ASSUME NEW r \in Requests, Count(r)
      PROVE  ServerTypes'
  <2>1. UNCHANGED <<now, order, replay, rivals, evicted, looked>>
    BY <1>4, CountDoes
  <2>2. CASE UNCHANGED <<buckets, counted>>
    BY <1>0, <2>1, <2>2 DEF ServerTypes, replay
  <2>3. ASSUME progress[r].client \in DOMAIN buckets, counted' = [counted EXCEPT ![r] = now],
               buckets' = Put(buckets, progress[r].client,
                              Counted(buckets[progress[r].client], progress[r].arrived))
        PROVE  ServerTypes'
    <3>1. PICK k \in DOMAIN buckets : k = progress[r].client
      BY <2>3
    <3>2. PICK b : b = Counted(buckets[k], progress[r].arrived)
      OBVIOUS
    <3>3. buckets[k] \in Buckets /\ progress[r].arrived \in Moments
      BY <1>0, <3>1 DEF ServerTypes, RequestStates
    <3>4. b \in Buckets
      BY <3>2, <3>3, CountedIs
    <3>7. buckets' = Put(buckets, k, b)
      BY <2>3, <3>1, <3>2
    <3>8. /\ DOMAIN buckets' = DOMAIN buckets \cup {k} /\ buckets'[k] = b
          /\ \A x \in DOMAIN buckets \ {k} : buckets'[x] = buckets[x]
      BY <3>7 DEF Put
    <3>5. DOMAIN buckets' \subseteq Clients /\ \A x \in DOMAIN buckets' : buckets'[x] \in Buckets
      BY <1>0, <3>1, <3>4, <3>8 DEF ServerTypes
    <3>6. counted' \in [Requests -> Moments \cup {None}]
      BY <1>0, <2>3 DEF ServerTypes
    <3> QED
      BY <1>0, <2>1, <3>5, <3>6 DEF ServerTypes, replay
  <2> QED
    BY <1>4, <2>2, <2>3, CountDoes
<1>5. ASSUME NEW r \in Requests, Track(r)
      PROVE  ServerTypes'
  <2>1. UNCHANGED <<now, replay, history>>
    BY <1>5, TrackDoes
  <2>2. /\ order' \in Seq(Clients) /\ DOMAIN buckets' \subseteq Clients
        /\ \A k \in DOMAIN buckets' : buckets'[k] \in Buckets
    BY <1>0, <1>5, TrackCuts DEF ServerTypes
  <2> QED
    BY <1>0, <2>1, <2>2 DEF ServerTypes, replay, history
<1>6. ASSUME NEW r \in Requests, NEW n \in Nonces, CheckNonce(r, n)
      PROVE  ServerTypes'
  <2>1. UNCHANGED <<now, limiter, evicted, counted, looked>>
    BY <1>6, CheckNonceDoes
  <2>2. rivals' \in [Requests -> SUBSET Requests]
    <3>1. PICK others \in SUBSET Requests :
            others = {q \in Requests : Checking(q) /\ progress[q].nonce = n}
      OBVIOUS
    <3>2. rivals' = [q \in Requests |-> IF q = r THEN others
                                        ELSE IF q \in others THEN rivals[q] \cup {r}
                                        ELSE rivals[q]]
      BY <1>6, <3>1 DEF CheckNonce
    <3> QED
      BY <1>0, <3>2 DEF ServerTypes
  <2>3. UNCHANGED replay \/ (swept' = now /\ cache' = Swept(now))
    BY <1>6 DEF CheckNonce
  <2>4. DOMAIN cache' \subseteq Nonces /\ (\A m \in DOMAIN cache' : cache'[m] \in Moments)
        /\ swept' \in Moments
    BY <1>0, <2>3 DEF ServerTypes, replay, Swept
  <2> QED
    BY <1>0, <2>1, <2>2, <2>4 DEF ServerTypes, limiter
<1>7. ASSUME NEW r \in Requests, LookUp(r)
      PROVE  ServerTypes'
  <2>1. looked' \in [Requests -> Moments \cup {None}]
    BY <1>0, <1>7, LookUpDoes DEF ServerTypes
  <2>2. UNCHANGED <<now, buckets, order, cache, swept, rivals, evicted, counted>>
    BY <1>0, <1>7, LookUpDoes DEF limiter, replay
  <2> QED
    BY <1>0, <2>1, <2>2 DEF ServerTypes
<1>8. ASSUME NEW r \in Requests, MakeRoom(r)
      PROVE  ServerTypes'
  <2>1. UNCHANGED <<now, buckets, order, cache, swept, rivals, evicted, counted, looked>>
    BY <1>0, <1>8, MakeRoomDoes DEF limiter, replay, history
  <2> QED
    BY <1>0, <2>1 DEF ServerTypes
<1>9. ASSUME NEW r \in Requests, EvictOldest(r)
      PROVE  ServerTypes'
  <2>1. DOMAIN cache' \subseteq Nonces /\ (\A m \in DOMAIN cache' : cache'[m] \in Moments)
        /\ evicted' \subseteq Nonces
    <3>1. PICK v \in Nonces : cache' = Delete(cache, {v}) /\ evicted' = evicted \cup {v}
      BY <1>0, <1>9, EvictDoes
    <3>2. DOMAIN cache' \subseteq DOMAIN cache /\ \A m \in DOMAIN cache' : cache'[m] = cache[m]
      BY <3>1 DEF Delete
    <3> QED
      BY <1>0, <3>1, <3>2 DEF ServerTypes
  <2>2. UNCHANGED <<now, buckets, order, swept, rivals, counted, looked>>
    BY <1>0, <1>9, EvictDoes DEF limiter
  <2> QED
    BY <1>0, <2>1, <2>2 DEF ServerTypes
<1>10. ASSUME NEW r \in Requests, AddNonce(r)
       PROVE  ServerTypes'
  <2>1. PICK n \in Nonces, t \in Moments : n = progress[r].nonce /\ t = progress[r].stamp
    BY <1>10, AddDoes
  <2>2. cache' = Put(cache, n, t)
    BY <1>10, <2>1, AddDoes
  <2>4. /\ DOMAIN cache' = DOMAIN cache \cup {n} /\ cache'[n] = t
        /\ \A x \in DOMAIN cache \ {n} : cache'[x] = cache[x]
    BY <2>2 DEF Put
  <2>3. DOMAIN cache' \subseteq Nonces /\ \A m \in DOMAIN cache' : cache'[m] \in Moments
    BY <1>0, <2>1, <2>4 DEF ServerTypes
  <2>5. UNCHANGED <<now, buckets, order, swept, rivals, evicted, counted, looked>>
    BY <1>0, <1>10, AddDoes DEF limiter, history
  <2> QED
    BY <1>0, <2>3, <2>5 DEF ServerTypes
<1> QED
  BY ServerSteps, <1>1, <1>2, <1>3, <1>4, <1>5, <1>6, <1>7, <1>8, <1>9, <1>10

-----------------------------------------------------------------------------
(* The exporter: the limiter.                                              *)

\* The requests of client k that were counted at t or later.
Served(k, t) ==
    {q \in Requests : progress[q].client = k /\ counted[q] # None /\ counted[q] >= t}

\* A bucket counts nothing that did not happen within its window.
Backed(k) ==
    /\ buckets[k].start <= now
    /\ buckets[k].count <= Cardinality(Served(k, buckets[k].start))

\* The other requests of r's client within the last window.
Earlier(r) ==
    {q \in Requests \ {r} :
        /\ progress[q].client = progress[r].client
        /\ counted[q] # None /\ counted[q] > progress[r].arrived - Window}

Denied(r) ==
    \/ progress[r].at = "refused"
    \/ progress[r].at = "counted" /\ ~progress[r].allowed

\* A request is counted once, when it leaves the map, and denied for a reason.
Counting(r) ==
    /\ progress[r].arrived <= now
    /\ progress[r].at \in {"new", "unknown", "known"} => counted[r] = None
    /\ progress[r].at = "unknown" => progress[r].first
    /\ Denied(r) => Cardinality(Earlier(r)) >= MaxPerWindow

LimiterInv ==
    /\ ServerTyped
    /\ \A r \in Requests : Counting(r)
    /\ \A k \in DOMAIN buckets : Backed(k)
    /\ BucketsTracked

\* What was counted stays counted, of the same client.
CountsFinal ==
    \A q \in Requests : counted[q] # None =>
        counted'[q] = counted[q] /\ progress'[q].client = progress[q].client

LEMMA CountsAreFinal ==
    ASSUME LimiterInv, ServerNext
    PROVE  CountsFinal
<1>0. /\ ServerTyped /\ counted \in [Requests -> Moments \cup {None}]
      /\ \A q \in Requests : progress[q].at \in {"new", "unknown", "known"} => counted[q] = None
  BY ServerTypesAre DEF LimiterInv, ServerTyped, ServerTypes, Counting
<1>1. CASE Tick
  BY <1>1 DEF Tick, history, CountsFinal
<1>2. ASSUME NEW r \in Requests, NEW c \in Clients, Arrive(r, c)
      PROVE  CountsFinal
  <2>1. Others(r) /\ progress[r].at = "new" /\ counted' = counted
    BY <1>0, <1>2, ArriveDoes DEF history
  <2> QED
    BY <1>0, <2>1 DEF CountsFinal, Others
<1>3. ASSUME NEW r \in Requests, Others(r), progress'[r].client = progress[r].client,
             counted' = counted \/ (progress[r].at = "known" /\ counted' = [counted EXCEPT ![r] = now])
      PROVE  CountsFinal
  BY <1>0, <1>3 DEF CountsFinal, Others
<1>4. ASSUME NEW r \in Requests, InsertBucket(r)
      PROVE  CountsFinal
  <2>1. Others(r) /\ progress'[r].client = progress[r].client /\ counted' = counted
    BY <1>0, <1>4, InsertDoes DEF Moves, history
  <2> QED
    BY <1>3, <2>1
<1>5. ASSUME NEW r \in Requests, Count(r)
      PROVE  CountsFinal
  <2>1. /\ Others(r) /\ progress'[r].client = progress[r].client
        /\ counted' = counted \/ (progress[r].at = "known" /\ counted' = [counted EXCEPT ![r] = now])
    BY <1>0, <1>5, CountDoes
  <2> QED
    BY <1>3, <2>1
<1>6. ASSUME NEW r \in Requests, Track(r)
      PROVE  CountsFinal
  <2>1. Others(r) /\ progress'[r].client = progress[r].client /\ counted' = counted
    BY <1>0, <1>6, TrackDoes DEF history
  <2> QED
    BY <1>3, <2>1
<1>7. ASSUME NEW r \in Requests, NEW n \in Nonces, CheckNonce(r, n)
      PROVE  CountsFinal
  <2>1. Others(r) /\ progress'[r].client = progress[r].client /\ counted' = counted
    BY <1>0, <1>7, CheckNonceDoes
  <2> QED
    BY <1>3, <2>1
<1>8. ASSUME NEW r \in Requests, LookUp(r)
      PROVE  CountsFinal
  <2>1. Others(r) /\ progress'[r].client = progress[r].client /\ counted' = counted
    BY <1>0, <1>8, LookUpDoes DEF Moves
  <2> QED
    BY <1>3, <2>1
<1>9. ASSUME NEW r \in Requests, MakeRoom(r)
      PROVE  CountsFinal
  <2>1. Others(r) /\ progress'[r].client = progress[r].client /\ counted' = counted
    BY <1>0, <1>9, MakeRoomDoes DEF Moves, history
  <2> QED
    BY <1>3, <2>1
<1>10. ASSUME NEW r \in Requests, EvictOldest(r)
       PROVE  CountsFinal
  <2>1. Others(r) /\ progress'[r].client = progress[r].client /\ counted' = counted
    BY <1>0, <1>10, EvictDoes DEF Moves
  <2> QED
    BY <1>3, <2>1
<1>11. ASSUME NEW r \in Requests, AddNonce(r)
       PROVE  CountsFinal
  <2>1. Others(r) /\ progress'[r].client = progress[r].client /\ counted' = counted
    BY <1>0, <1>11, AddDoes DEF Moves, history
  <2> QED
    BY <1>3, <2>1
<1> QED
  BY ServerSteps, <1>1, <1>2, <1>4, <1>5, <1>6, <1>7, <1>8, <1>9, <1>10, <1>11

LEMMA FiniteRequests ==
    ASSUME NEW S \in SUBSET Requests
    PROVE  IsFiniteSet(S) /\ Cardinality(S) \in Nat
<1>1. MaxRequests \in Nat
  BY ServerLimits
<1>2. IsFiniteSet(Requests)
  BY <1>1, FS_Interval DEF Requests
<1>3. IsFiniteSet(S)
  BY <1>2, FS_Subset
<1> QED
  BY <1>3, FS_CardinalityType

LEMMA MoreRequests ==
    ASSUME NEW S \in SUBSET Requests, NEW T \in SUBSET Requests, S \subseteq T
    PROVE  Cardinality(S) <= Cardinality(T)
<1>1. IsFiniteSet(T)
  BY FiniteRequests
<1> QED
  BY <1>1, FS_Subset

LEMMA ServedGrows ==
    ASSUME CountsFinal, NEW k, NEW t
    PROVE  Cardinality(Served(k, t)) <= Cardinality(Served(k, t)')
<1>1. Served(k, t) \in SUBSET Requests /\ Served(k, t)' \in SUBSET Requests
  BY DEF Served
<1>2. Served(k, t) \subseteq Served(k, t)'
  BY DEF Served, CountsFinal
<1> QED
  BY <1>1, <1>2, MoreRequests

LEMMA BackedKept ==
    ASSUME CountsFinal, LimiterInv, now' \in Moments, now <= now',
           NEW k, k \in DOMAIN buckets, Backed(k), buckets'[k] = buckets[k]
    PROVE  Backed(k)'
<1>1. PICK b \in Buckets : b = buckets[k]
  BY ServerTypesAre DEF LimiterInv, ServerTyped, ServerTypes
<1>2. now \in Moments
  BY ServerTypesAre DEF LimiterInv, ServerTyped, ServerTypes
<1>3. b.start \in Int /\ b.count \in Int /\ now \in Int /\ now' \in Int
  BY <1>2 DEF Moments, Buckets
<1>4. Cardinality(Served(k, b.start)) \in Nat /\ Cardinality(Served(k, b.start)') \in Nat
  BY FiniteRequests DEF Served
<1>5. Cardinality(Served(k, b.start)) <= Cardinality(Served(k, b.start)')
  BY ServedGrows
<1>6. b.start <= now /\ b.count <= Cardinality(Served(k, b.start))
  BY <1>1 DEF Backed
<1>7. b.start <= now' /\ b.count <= Cardinality(Served(k, b.start)')
  BY <1>3, <1>4, <1>5, <1>6
<1>8. buckets'[k] = b
  BY <1>1
<1> QED
  BY <1>7, <1>8 DEF Backed, Served

LEMMA EarlierKept ==
    ASSUME CountsFinal, LimiterInv, NEW r \in Requests, Cardinality(Earlier(r)) >= MaxPerWindow,
           progress'[r].client = progress[r].client, progress'[r].arrived = progress[r].arrived
    PROVE  Cardinality(Earlier(r)') >= MaxPerWindow
<1>1. Earlier(r) \in SUBSET Requests /\ Earlier(r)' \in SUBSET Requests
  BY DEF Earlier
<1>2. Earlier(r) \subseteq Earlier(r)'
  BY DEF Earlier, CountsFinal
<1>3. Cardinality(Earlier(r)) <= Cardinality(Earlier(r)')
  BY <1>1, <1>2, MoreRequests
<1>4. Cardinality(Earlier(r)) \in Nat /\ Cardinality(Earlier(r)') \in Nat /\ MaxPerWindow \in Nat
  BY <1>1, FiniteRequests, ServerLimits
<1> QED
  BY <1>3, <1>4

\* Counting a request: its bucket still counts only what happened in its
\* window, and if it counts too much the request may be denied.
LEMMA CountsOne ==
    ASSUME LimiterInv, ServerNext, NEW r \in Requests, Count(r),
           NEW k, k = progress[r].client, k \in DOMAIN buckets, counted' = [counted EXCEPT ![r] = now],
           NEW b, b = Counted(buckets[k], progress[r].arrived)
    PROVE  /\ b.start <= now /\ b.count <= Cardinality(Served(k, b.start)')
           /\ b.count > MaxPerWindow /\ progress'[r].arrived = progress[r].arrived
                => Cardinality(Earlier(r)') >= MaxPerWindow
<1>0. CountsFinal
  BY CountsAreFinal
<1>1. PICK old \in Buckets : old = buckets[k]
  BY ServerTypesAre DEF LimiterInv, ServerTyped, ServerTypes
<1>2. PICK t \in Moments : t = progress[r].arrived
  BY ServerTypesAre DEF LimiterInv, ServerTyped, RequestStates
<1>3. now \in Moments /\ counted \in [Requests -> Moments \cup {None}]
  BY ServerTypesAre DEF LimiterInv, ServerTyped, ServerTypes
<1>4. b \in Buckets
  BY <1>1, <1>2, CountedIs
<1>5. /\ b.start \in Int /\ b.count \in Nat /\ old.start \in Int /\ old.count \in Nat /\ t \in Int
      /\ now \in Int /\ MaxPerWindow \in Nat /\ Window \in Nat
  BY <1>1, <1>2, <1>3, <1>4, ServerLimits DEF Buckets, Moments
<1>6. t <= now /\ counted[r] = None
  BY <1>2, CountDoes DEF LimiterInv, Counting
<1>7. old.start <= now /\ old.count <= Cardinality(Served(k, old.start))
  BY <1>1 DEF LimiterInv, Backed
<1>8. \/ t - old.start >= Window /\ b.count = 1 /\ b.start = t
      \/ ~(t - old.start >= Window) /\ b.count = old.count + 1 /\ b.start = old.start
  BY <1>1, <1>2, CountedIs
<1>9. b.start <= now
  BY <1>5, <1>6, <1>7, <1>8
<1>10. progress'[r].client = k
  BY CountDoes DEF LimiterInv
<1>11. PICK S \in SUBSET Requests : S = Served(k, b.start)'
  BY DEF Served
<1>12. r \in S
  <2>1. counted'[r] = now
    BY <1>3
  <2>2. counted'[r] # None
    BY <1>5, <2>1, <1>3, ServerNone DEF Moments
  <2>3. counted'[r] >= b.start
    BY <1>5, <1>9, <2>1
  <2> QED
    BY <1>10, <1>11, <2>2, <2>3 DEF Served
<1>13. PICK E \in SUBSET Requests : E = S \ {r}
  OBVIOUS
<1>14. Cardinality(S) = Cardinality(E) + 1 /\ Cardinality(E) \in Nat
  <2>1. IsFiniteSet(S) /\ Cardinality(S) \in Nat /\ Cardinality(E) \in Nat
    BY FiniteRequests
  <2>2. Cardinality(S \ {r}) = Cardinality(S) - 1
    BY <1>12, <2>1, FS_RemoveElement
  <2> QED
    BY <1>13, <2>1, <2>2
<1>15. b.count <= Cardinality(S)
  <2>1. CASE b.count = 1
    BY <1>14, <2>1
  <2>2. CASE b.count = old.count + 1 /\ b.start = old.start
    <3>1. Served(k, old.start) \subseteq E
      <4>1. Served(k, b.start) \subseteq S
        BY <1>0, <1>11 DEF Served, CountsFinal
      <4>2. r \notin Served(k, b.start)
        BY <1>6 DEF Served
      <4> QED
        BY <1>13, <2>2, <4>1, <4>2
    <3>2. Served(k, old.start) \in SUBSET Requests
      BY DEF Served
    <3>3. Cardinality(Served(k, old.start)) <= Cardinality(E)
      BY <3>1, <3>2, MoreRequests
    <3>4. Cardinality(Served(k, old.start)) \in Nat
      BY <3>2, FiniteRequests
    <3> QED
      BY <1>5, <1>7, <1>14, <2>2, <3>3, <3>4
  <2> QED
    BY <1>8, <2>1, <2>2
<1>16. ASSUME b.count > MaxPerWindow, progress'[r].arrived = progress[r].arrived
       PROVE  Cardinality(Earlier(r)') >= MaxPerWindow
  <2>1. Earlier(r)' \in SUBSET Requests
    BY DEF Earlier
  <2>2. Cardinality(Earlier(r)') \in Nat
    BY <2>1, FiniteRequests
  <2>3. CASE b.count = 1
    BY <1>5, <1>16, <2>2, <2>3
  <2>4. CASE ~(t - old.start >= Window) /\ b.start = old.start
    <3>1. b.start > t - Window
      BY <1>5, <2>4
    <3>2. ASSUME NEW q \in E
          PROVE  q \in Earlier(r)'
      <4>1. q \in Requests \ {r} /\ progress'[q].client = k /\ counted'[q] # None /\ counted'[q] >= b.start
        BY <1>11, <1>13 DEF Served
      <4>2. counted'[q] \in Int
        BY <1>3, <4>1 DEF Moments
      <4>3. counted'[q] > t - Window
        BY <1>5, <3>1, <4>1, <4>2
      <4> QED
        BY <1>2, <1>10, <1>16, <4>1, <4>3 DEF Earlier
    <3>3. Cardinality(E) <= Cardinality(Earlier(r)')
      BY <2>1, <3>2, MoreRequests
    <3> QED
      BY <1>5, <1>14, <1>15, <1>16, <2>2, <3>3
  <2> QED
    BY <1>8, <2>3, <2>4
<1> QED
  BY <1>9, <1>11, <1>15, <1>16

\* A step that is not the limiter's leaves the limiter alone.
Bystander(r) ==
    /\ Others(r) /\ progress[r].at \in States \ {"new", "unknown", "known", "counted", "refused"}
    /\ progress'[r].at \in States \ {"new", "unknown", "known", "counted", "refused"}
    /\ progress'[r].arrived = progress[r].arrived
    /\ UNCHANGED <<now, buckets, order, counted>>

LEMMA BystandersSteps ==
    ASSUME ServerTyped, NEW r \in Requests,
           \/ LookUp(r) \/ MakeRoom(r) \/ EvictOldest(r) \/ AddNonce(r)
           \/ \E n \in Nonces : CheckNonce(r, n)
    PROVE  Bystander(r)
<1>1. CASE LookUp(r)
  BY <1>1, LookUpDoes DEF Bystander, Moves, limiter, States
<1>2. CASE MakeRoom(r)
  BY <1>2, MakeRoomDoes DEF Bystander, Moves, limiter, history, States
<1>3. CASE EvictOldest(r)
  BY <1>3, EvictDoes DEF Bystander, Moves, limiter, States
<1>4. CASE AddNonce(r)
  BY <1>4, AddDoes DEF Bystander, Moves, limiter, history, States
<1>5. ASSUME NEW n \in Nonces, CheckNonce(r, n)
      PROVE  Bystander(r)
  <2>1. progress[r].at = "admitted" /\ UNCHANGED <<now, limiter, evicted, counted, looked>>
        /\ Others(r) /\ progress'[r].at = "looking"
    BY <1>5, CheckNonceDoes
  <2>2. progress'[r].arrived = progress[r].arrived
    <3>1. progress' = [progress EXCEPT ![r].at = "looking", ![r].nonce = n, ![r].stamp = now]
          /\ progress \in [Requests -> RequestStates]
      BY <1>5, ServerTypesAre DEF CheckNonce, ServerTyped
    <3>2. PICK x : x = progress[r]
      OBVIOUS
    <3>3. progress'[r] = [x EXCEPT !.at = "looking", !.nonce = n, !.stamp = now]
      BY <3>1, <3>2
    <3> QED
      BY <3>1, <3>2, <3>3 DEF RequestStates
  <2> QED
    BY <2>1, <2>2 DEF Bystander, limiter, States
<1> QED
  BY <1>1, <1>2, <1>3, <1>4, <1>5

\* However requests race, a bucket is listed, or will be.
LEMMA TrackedKept ==
    ASSUME LimiterInv, ServerNext
    PROVE  BucketsTracked'
<1>0. /\ ServerTyped /\ Len(order) <= MaxBuckets
      /\ \A k \in DOMAIN buckets : Listed(k) \/ \E r \in Requests : Inserting(r) /\ progress[r].client = k
  BY DEF LimiterInv, BucketsTracked
<1>1. ASSUME order' = order, DOMAIN buckets' = DOMAIN buckets,
             \A q \in Requests : Inserting(q) =>
                Inserting(q)' /\ progress'[q].client = progress[q].client
      PROVE  BucketsTracked'
  BY <1>0, <1>1 DEF BucketsTracked, Listed
<1>2. CASE Tick
  BY <1>1, <1>2 DEF Tick, limiter, Inserting
<1>3. ASSUME NEW r \in Requests, NEW c \in Clients, Arrive(r, c)
      PROVE  BucketsTracked'
  <2>1. Others(r) /\ progress[r].at = "new" /\ UNCHANGED limiter
    BY <1>0, <1>3, ArriveDoes
  <2> QED
    BY <1>1, <2>1 DEF Others, Inserting, limiter
<1>4. ASSUME NEW r \in Requests, InsertBucket(r)
      PROVE  BucketsTracked'
  <2>1. Others(r) /\ Moves(r, {"known"}) /\ progress[r].at = "unknown" /\ order' = order
    BY <1>0, <1>4, InsertDoes
  <2>2. progress[r].first
    BY <2>1 DEF LimiterInv, Counting
  <2>3. PICK k : k = progress[r].client
    OBVIOUS
  <2>4. DOMAIN buckets' = DOMAIN buckets \cup {k}
    BY <1>4, <2>3 DEF InsertBucket, Put
  <2>5. Inserting(r)' /\ progress'[r].client = k
    BY <2>1, <2>2, <2>3 DEF Inserting, Moves
  <2>6. \A q \in Requests : Inserting(q) => Inserting(q)' /\ progress'[q].client = progress[q].client
    BY <2>1 DEF Inserting, Others, Moves
  <2> QED
    BY <1>0, <2>1, <2>4, <2>5, <2>6 DEF BucketsTracked, Listed
<1>5. ASSUME NEW r \in Requests, Count(r)
      PROVE  BucketsTracked'
  <2>1. Others(r) /\ progress[r].at = "known" /\ order' = order
        /\ progress'[r].client = progress[r].client
    BY <1>0, <1>5, CountDoes
  <2>2. CASE progress[r].client \notin DOMAIN buckets /\ UNCHANGED buckets
    <3>1. \A q \in Requests : Inserting(q) /\ progress[q].client \in DOMAIN buckets
            => Inserting(q)' /\ progress'[q].client = progress[q].client
      BY <2>1, <2>2 DEF Inserting, Others
    <3> QED
      BY <1>0, <2>1, <2>2, <3>1 DEF BucketsTracked, Listed
  <2>3. ASSUME NEW b, progress[r].client \in DOMAIN buckets,
               buckets' = Put(buckets, progress[r].client, b),
               progress[r].first => progress'[r].first /\ progress'[r].at = "counted"
        PROVE  BucketsTracked'
    <3>1. PICK k \in DOMAIN buckets : k = progress[r].client
      BY <2>3
    <3>2. buckets' = Put(buckets, k, b)
      BY <2>3, <3>1
    <3>3. DOMAIN buckets' = DOMAIN buckets
      BY <3>2 DEF Put
    <3>4. \A q \in Requests : Inserting(q) => Inserting(q)' /\ progress'[q].client = progress[q].client
      BY <2>1, <2>3 DEF Inserting, Others
    <3> QED
      BY <1>1, <2>1, <3>3, <3>4
  <2> QED
    BY <1>0, <1>5, <2>2, <2>3, CountDoes
<1>6. ASSUME NEW r \in Requests, Track(r)
      PROVE  BucketsTracked'
  <2>1. Others(r)
    BY <1>0, <1>6, TrackDoes
  <2>2. /\ Len(order') <= MaxBuckets /\ DOMAIN buckets' \subseteq DOMAIN buckets
        /\ \A k \in DOMAIN buckets' : Listed(k) \/ k = progress[r].client => Listed(k)'
    BY <1>0, <1>6, TrackCuts
  <2>3. \A q \in Requests \ {r} : Inserting(q) => Inserting(q)' /\ progress'[q].client = progress[q].client
    BY <2>1 DEF Inserting, Others
  <2>4. ASSUME NEW k \in DOMAIN buckets'
        PROVE  Listed(k)' \/ \E q \in Requests : Inserting(q)' /\ progress'[q].client = k
    <3>1. CASE Listed(k)
      BY <2>2, <3>1
    <3>2. CASE \E q \in Requests : Inserting(q) /\ progress[q].client = k
      BY <2>2, <2>3, <3>2
    <3> QED
      BY <1>0, <2>2, <3>1, <3>2
  <2> QED
    BY <2>2, <2>4 DEF BucketsTracked
<1>7. ASSUME NEW r \in Requests, Bystander(r)
      PROVE  BucketsTracked'
  BY <1>1, <1>7 DEF Bystander, Inserting, Others
<1> QED
  BY <1>0, ServerSteps, BystandersSteps, <1>2, <1>3, <1>4, <1>5, <1>6, <1>7

\* Nor does any step make a bucket count what did not happen in its window.
LEMMA AllBackedKept ==
    ASSUME LimiterInv, ServerNext
    PROVE  \A k \in DOMAIN buckets' : Backed(k)'
<1>0. ServerTyped /\ CountsFinal /\ (\A k \in DOMAIN buckets : Backed(k)) /\ now \in Moments
  BY CountsAreFinal, ServerTypesAre DEF LimiterInv, ServerTyped, ServerTypes
<1>1. ASSUME now' \in Moments, now <= now', NEW k \in DOMAIN buckets, buckets'[k] = buckets[k]
      PROVE  Backed(k)'
  BY <1>0, <1>1, BackedKept
<1>2. now <= now
  BY <1>0 DEF Moments
<1>3. CASE Tick
  <2>1. now' \in Moments /\ now <= now' /\ buckets' = buckets
    BY <1>0, <1>3, ServerLimits DEF Tick, Moments, limiter
  <2> QED
    BY <1>1, <2>1
<1>4. ASSUME now' = now, buckets' = buckets
      PROVE  \A k \in DOMAIN buckets' : Backed(k)'
  BY <1>0, <1>1, <1>2, <1>4
<1>5. ASSUME NEW r \in Requests, NEW c \in Clients, Arrive(r, c)
      PROVE  \A k \in DOMAIN buckets' : Backed(k)'
  BY <1>0, <1>4, <1>5, ArriveDoes DEF limiter
<1>6. ASSUME NEW r \in Requests, InsertBucket(r)
      PROVE  \A k \in DOMAIN buckets' : Backed(k)'
  <2>1. now' = now /\ progress[r].arrived <= now
    BY <1>0, <1>6, InsertDoes DEF LimiterInv, Counting
  <2>2. PICK c, b : c = progress[r].client /\ b = [count |-> 0, start |-> progress[r].arrived]
    OBVIOUS
  <2>3. buckets' = Put(buckets, c, b)
    BY <1>6, <2>2 DEF InsertBucket
  <2>4. /\ DOMAIN buckets' = DOMAIN buckets \cup {c} /\ buckets'[c] = b
        /\ \A x \in DOMAIN buckets \ {c} : buckets'[x] = buckets[x]
    BY <2>3 DEF Put
  <2>5. Backed(c)'
    <3>1. Cardinality(Served(c, b.start)') \in Nat
      BY FiniteRequests DEF Served
    <3>2. b.count = 0 /\ b.start = progress[r].arrived
      BY <2>2
    <3>3. b.start <= now' /\ b.count <= Cardinality(Served(c, b.start)')
      BY <2>1, <3>1, <3>2
    <3> QED
      BY <2>4, <3>3 DEF Backed, Served
  <2>6. \A x \in DOMAIN buckets \ {c} : Backed(x)'
    BY <1>0, <1>1, <1>2, <2>1, <2>4
  <2> QED
    BY <2>4, <2>5, <2>6
<1>7. ASSUME NEW r \in Requests, Count(r)
      PROVE  \A k \in DOMAIN buckets' : Backed(k)'
  <2>1. now' = now
    BY <1>0, <1>7, CountDoes
  <2>2. CASE UNCHANGED buckets
    BY <1>4, <2>1, <2>2
  <2>3. ASSUME progress[r].client \in DOMAIN buckets, counted' = [counted EXCEPT ![r] = now],
               buckets' = Put(buckets, progress[r].client,
                              Counted(buckets[progress[r].client], progress[r].arrived))
        PROVE  \A k \in DOMAIN buckets' : Backed(k)'
    <3>1. PICK c \in DOMAIN buckets : c = progress[r].client
      BY <2>3
    <3>2. PICK b : b = Counted(buckets[c], progress[r].arrived)
      OBVIOUS
    <3>3. buckets' = Put(buckets, c, b)
      BY <2>3, <3>1, <3>2
    <3>4. /\ DOMAIN buckets' = DOMAIN buckets /\ buckets'[c] = b
          /\ \A x \in DOMAIN buckets \ {c} : buckets'[x] = buckets[x]
      BY <3>3 DEF Put
    <3>5. b.start <= now /\ b.count <= Cardinality(Served(c, b.start)')
      BY <1>7, <2>3, <3>1, <3>2, CountsOne
    <3>6. Backed(c)'
      BY <2>1, <3>4, <3>5 DEF Backed, Served
    <3>7. \A x \in DOMAIN buckets \ {c} : Backed(x)'
      BY <1>0, <1>1, <1>2, <2>1, <3>4
    <3> QED
      BY <3>4, <3>6, <3>7
  <2> QED
    BY <1>0, <1>7, <2>2, <2>3, CountDoes
<1>8. ASSUME NEW r \in Requests, Track(r)
      PROVE  \A k \in DOMAIN buckets' : Backed(k)'
  <2>1. now' = now
    BY <1>0, <1>8, TrackDoes
  <2>2. DOMAIN buckets' \subseteq DOMAIN buckets /\ \A k \in DOMAIN buckets' : buckets'[k] = buckets[k]
    BY <1>0, <1>8, TrackCuts
  <2> QED
    BY <1>0, <1>1, <1>2, <2>1, <2>2
<1>9. ASSUME NEW r \in Requests, Bystander(r)
      PROVE  \A k \in DOMAIN buckets' : Backed(k)'
  BY <1>4, <1>9 DEF Bystander
<1> QED
  BY <1>0, ServerSteps, BystandersSteps, <1>3, <1>5, <1>6, <1>7, <1>8, <1>9

\* Nor is a request denied without a reason.
LEMMA CountingKept ==
    ASSUME LimiterInv, ServerNext, NEW q \in Requests
    PROVE  Counting(q)'
<1>0. /\ ServerTyped /\ CountsFinal /\ now \in Moments
      /\ progress \in [Requests -> RequestStates] /\ Counting(q)
      /\ counted \in [Requests -> Moments \cup {None}]
  BY CountsAreFinal, ServerTypesAre DEF LimiterInv, ServerTyped, ServerTypes
<1>1. ASSUME progress'[q] = progress[q], counted'[q] = counted[q], now' \in Moments, now <= now'
      PROVE  Counting(q)'
  <2>1. progress[q].arrived \in Int /\ now \in Int /\ now' \in Int
    BY <1>0, <1>1 DEF Moments, RequestStates
  <2>2. progress'[q].arrived <= now'
    BY <1>0, <1>1, <2>1 DEF Counting
  <2>3. Denied(q)' => Denied(q)
    BY <1>1 DEF Denied
  <2>4. Denied(q)' => Cardinality(Earlier(q)') >= MaxPerWindow
    BY <1>0, <1>1, <2>3, EarlierKept DEF Counting
  <2> QED
    BY <1>0, <1>1, <2>2, <2>4 DEF Counting
<1>2. now <= now
  BY <1>0 DEF Moments
<1>3. CASE Tick
  <2>1. now' \in Moments /\ now <= now'
    BY <1>0, <1>3, ServerLimits DEF Tick, Moments
  <2> QED
    BY <1>1, <1>3, <2>1 DEF Tick, history
<1>4. ASSUME NEW r \in Requests, q # r, Others(r), now' = now, counted'[q] = counted[q]
      PROVE  Counting(q)'
  BY <1>0, <1>1, <1>2, <1>4 DEF Others
<1>5. ASSUME NEW r \in Requests, NEW c \in Clients, Arrive(r, c)
      PROVE  Counting(q)'
  <2>1. Others(r) /\ now' = now /\ counted' = counted
    BY <1>0, <1>5, ArriveDoes DEF history
  <2>2. CASE q = r
    <3>1. /\ progress'[q].at \in {"known", "unknown"} /\ progress'[q].arrived = now
          /\ progress'[q].at = "unknown" => progress'[q].first
          /\ progress[q].at = "new"
      BY <1>0, <1>5, <2>2, ArriveDoes
    <3> QED
      BY <1>0, <1>2, <2>1, <3>1 DEF Counting, Denied
  <2> QED
    BY <1>4, <2>1, <2>2
<1>6. ASSUME NEW r \in Requests, InsertBucket(r)
      PROVE  Counting(q)'
  <2>1. Others(r) /\ now' = now /\ counted' = counted /\ progress[r].at = "unknown" /\ Moves(r, {"known"})
    BY <1>0, <1>6, InsertDoes DEF history
  <2>2. CASE q = r
    BY <1>0, <2>1, <2>2 DEF Counting, Denied, Moves
  <2> QED
    BY <1>4, <2>1, <2>2
<1>7. ASSUME NEW r \in Requests, Count(r)
      PROVE  Counting(q)'
  <2>1. Others(r) /\ now' = now /\ progress'[r].client = progress[r].client
        /\ progress' \in [Requests -> RequestStates]
    BY <1>0, <1>7, CountDoes
  <2>2. CASE q # r
    <3>1. counted'[q] = counted[q]
      BY <1>0, <1>7, <2>2, CountDoes
    <3> QED
      BY <1>4, <2>1, <2>2, <3>1
  <2>3. CASE q = r
    <3>1. progress'[r].arrived <= now'
      <4>1. progress'[r].arrived = progress[r].arrived \/ progress'[r].arrived = 0
        <5>1. PICK x \in RequestStates : x = progress[r]
          BY <1>0
        <5>2. ASSUME NEW a
              PROVE  Checked(x, a).arrived \in {0, x.arrived}
          BY DEF Checked, RequestStates
        <5>3. ASSUME NEW a
              PROVE  [x EXCEPT !.at = "counted", !.allowed = a].arrived = x.arrived
          BY DEF RequestStates
        <5>4. progress' = [progress EXCEPT ![r].at = "panicked"]
              \/ \E a : progress' = [progress EXCEPT ![r] =
                            IF x.first THEN [x EXCEPT !.at = "counted", !.allowed = a]
                                       ELSE Checked(x, a)]
          BY <1>0, <1>7, <5>1 DEF Count
        <5>5. CASE progress' = [progress EXCEPT ![r].at = "panicked"]
          BY <1>0, <5>5 DEF RequestStates
        <5>6. ASSUME NEW a, progress' = [progress EXCEPT ![r] =
                            IF x.first THEN [x EXCEPT !.at = "counted", !.allowed = a]
                                       ELSE Checked(x, a)]
              PROVE  progress'[r].arrived \in {0, x.arrived}
          <6>1. PICK y, z : y = [x EXCEPT !.at = "counted", !.allowed = a] /\ z = Checked(x, a)
            OBVIOUS
          <6>2. progress'[r] = IF x.first THEN y ELSE z
            BY <1>0, <5>6, <6>1
          <6> QED
            BY <5>2, <5>3, <6>1, <6>2
        <5> QED
          BY <5>1, <5>4, <5>5, <5>6
      <4>2. progress[r].arrived <= now /\ 0 <= now
        BY <1>0, <2>3 DEF Counting, Moments
      <4> QED
        BY <2>1, <4>1, <4>2
    <3>2. progress'[r].at \in {"panicked", "counted", "admitted", "refused"}
      BY <1>0, <1>7, CountDoes
    <3>3. Denied(r)' => Cardinality(Earlier(r)') >= MaxPerWindow
      <4>1. SUFFICES ASSUME Denied(r)'
                     PROVE  Cardinality(Earlier(r)') >= MaxPerWindow
        OBVIOUS
      <4>2. progress'[r].at # "panicked" /\ progress'[r].at # "admitted"
        BY <4>1 DEF Denied
      <4>3. PICK k : k = progress[r].client
        OBVIOUS
      <4>4. PICK b : b = Counted(buckets[k], progress[r].arrived)
        OBVIOUS
      <4>5. k \in DOMAIN buckets /\ counted' = [counted EXCEPT ![r] = now]
        BY <1>0, <1>7, <4>2, <4>3, CountDoes
      <4>6. ~(b.count <= MaxPerWindow) /\ progress'[r].arrived = progress[r].arrived
        BY <1>0, <1>7, <4>1, <4>2, <4>3, <4>4, CountDoes DEF Denied
      <4>7. b \in Buckets
        <5>1. buckets[k] \in Buckets
          BY <1>0, <4>5, ServerTypesAre DEF ServerTyped, ServerTypes
        <5>2. progress[r].arrived \in Moments
          BY <1>0 DEF RequestStates
        <5> QED
          BY <4>4, <5>1, <5>2, CountedIs
      <4>8. b.count > MaxPerWindow
        BY <4>6, <4>7, ServerLimits DEF Buckets
      <4> QED
        BY <1>7, <4>3, <4>4, <4>5, <4>6, <4>8, CountsOne
    <3> QED
      BY <2>3, <3>1, <3>2, <3>3 DEF Counting
  <2> QED
    BY <2>2, <2>3
<1>8. ASSUME NEW r \in Requests, Track(r)
      PROVE  Counting(q)'
  <2>1. Others(r) /\ now' = now /\ counted' = counted
        /\ progress'[r].client = progress[r].client
    BY <1>0, <1>8, TrackDoes DEF history
  <2>2. CASE q = r
    <3>1. /\ progress[q].at = "counted"
          /\ progress'[q].at = (IF progress[q].allowed THEN "admitted" ELSE "refused")
          /\ ~progress[q].allowed => progress'[q].arrived = progress[q].arrived
      BY <1>0, <1>8, <2>2, TrackDoes
    <3>2. progress'[q].arrived = progress[q].arrived \/ progress'[q].arrived = 0
      <4>1. PICK x \in RequestStates : x = progress[q]
        BY <1>0
      <4>2. PICK y : y = Checked(x, x.allowed)
        OBVIOUS
      <4>3. progress'[q] = y
        BY <1>0, <1>8, <2>2, <4>1, <4>2 DEF Track
      <4>4. y.arrived = x.arrived \/ y.arrived = 0
        BY <4>2 DEF Checked, RequestStates
      <4> QED
        BY <4>1, <4>3, <4>4
    <3>3. progress'[q].arrived <= now'
      <4>1. progress[q].arrived <= now /\ 0 <= now
        BY <1>0 DEF Counting, Moments
      <4> QED
        BY <2>1, <3>2, <4>1
    <3>4. Denied(q)' => Cardinality(Earlier(q)') >= MaxPerWindow
      <4>1. SUFFICES ASSUME Denied(q)'
                     PROVE  Cardinality(Earlier(q)') >= MaxPerWindow
        OBVIOUS
      <4>2. ~progress[q].allowed
        BY <3>1, <4>1 DEF Denied
      <4>3. Denied(q) /\ progress'[q].arrived = progress[q].arrived
        BY <3>1, <4>2 DEF Denied
      <4>4. Cardinality(Earlier(q)) >= MaxPerWindow
        BY <1>0, <4>3 DEF Counting
      <4> QED
        BY <1>0, <2>1, <2>2, <4>3, <4>4, EarlierKept
    <3> QED
      BY <3>1, <3>3, <3>4 DEF Counting
  <2> QED
    BY <1>4, <2>1, <2>2
<1>9. ASSUME NEW r \in Requests, Bystander(r)
      PROVE  Counting(q)'
  <2>1. CASE q = r
    BY <1>0, <1>9, <2>1 DEF Bystander, Counting, Denied, States
  <2> QED
    BY <1>4, <1>9, <2>1 DEF Bystander
<1> QED
  BY <1>0, ServerSteps, BystandersSteps, <1>3, <1>5, <1>6, <1>7, <1>8, <1>9

LEMMA LimiterStarts == ServerInit => LimiterInv
<1> SUFFICES ASSUME ServerInit
             PROVE  LimiterInv
  OBVIOUS
<1>1. 0 \in Moments
  BY ServerLimits DEF Moments
<1>2. New \in RequestStates
  BY <1>1 DEF New, RequestStates, States
<1>3. progress \in [Requests -> RequestStates] /\ \A r \in Requests : progress[r] = New
  BY <1>2 DEF ServerInit
<1>4. ServerTypes
  BY <1>1 DEF ServerInit, ServerTypes
<1>5. \A r \in Requests : Remembers(r)
  BY <1>3 DEF New, Remembers, Checking
<1>6. \A r \in Requests : Counting(r)
  <2>1. now = 0 /\ \A r \in Requests : counted[r] = None
    BY DEF ServerInit
  <2> QED
    BY <1>3, <2>1 DEF New, Counting, Denied
<1>7. DOMAIN buckets = {} /\ BucketsTracked
  <2>1. DOMAIN buckets = {} /\ Len(order) = 0
    BY DEF ServerInit
  <2> QED
    BY <2>1, ServerLimits DEF BucketsTracked
<1> QED
  BY <1>3, <1>4, <1>5, <1>6, <1>7, ServerTypesAre DEF LimiterInv, ServerTyped

\* The limiter is sound, whatever the order in which any number of requests of
\* any number of clients get to its map and its list: no bucket escapes
\* eviction, and nobody is refused who has not used up the window.
THEOREM LimiterStaysSound == ServerSpec => []LimiterSound
<1>1. LimiterInv /\ [ServerNext]_serverVars => LimiterInv'
  <2>1. ASSUME LimiterInv, UNCHANGED serverVars
        PROVE  LimiterInv'
    <3>1. UNCHANGED <<now, buckets, order, cache, swept, progress, rivals, evicted, counted, looked>>
      BY <2>1 DEF serverVars, limiter, replay, history
    <3>2. ServerTyped'
      BY <2>1, <3>1 DEF LimiterInv, ServerTyped, ServerTypeOK, Remembers, Checking
    <3>3. \A r \in Requests : Counting(r)'
      BY <2>1, <3>1 DEF LimiterInv, Counting, Denied, Earlier
    <3>4. \A k \in DOMAIN buckets' : Backed(k)'
      BY <2>1, <3>1 DEF LimiterInv, Backed, Served
    <3>5. BucketsTracked'
      BY <2>1, <3>1 DEF LimiterInv, BucketsTracked, Listed, Inserting
    <3> QED
      BY <3>2, <3>3, <3>4, <3>5 DEF LimiterInv
  <2>2. ASSUME LimiterInv, ServerNext
        PROVE  LimiterInv'
    BY <2>2, ServerTypesKept, TrackedKept, AllBackedKept, CountingKept DEF LimiterInv
  <2> QED
    BY <2>1, <2>2
<1>2. LimiterInv => LimiterSound
  BY DEF LimiterInv, ServerTyped, LimiterSound, NoEarlyRefusal, Counting, Denied, Earlier
<1> QED
  BY LimiterStarts, <1>1, <1>2, PTL DEF ServerSpec

-----------------------------------------------------------------------------
(* The exporter: the nonce cache.                                          *)

\* A request past its look-up remembers when that was.
Timed(r) ==
    progress[r].at \in {"room", "evicting", "adding", "accepted"} =>
        looked[r] \in Moments /\ looked[r] <= now

\* Accepted, and nothing explains a replay but time.
Alone(r) ==
    progress[r].at = "accepted" /\ rivals[r] = {} /\ progress[r].nonce \notin evicted

SameNonce(r, p) == progress[r].nonce = progress[p].nonce

\* Whoever looked the nonce up did not find it: its time was over.
Late(p, r) == looked[p] - progress[r].stamp >= Ttl

\* The nonce of such a request is in the cache until its time is over.
Cached(r) ==
    Alone(r) => \/ /\ progress[r].nonce \in DOMAIN cache
                   /\ cache[progress[r].nonce] = progress[r].stamp
                \/ now - progress[r].stamp >= Ttl

Explained(r, p) ==
    /\ Checking(r) /\ Checking(p) /\ SameNonce(r, p) => p \in rivals[r]
    /\ Alone(r) /\ SameNonce(r, p) /\ progress[p].at \in {"room", "evicting", "adding"}
         => Late(p, r)
    /\ Alone(r) /\ Alone(p) /\ SameNonce(r, p) => Late(p, r) \/ Late(r, p)

ReplayInv ==
    /\ ServerTyped
    /\ \A r \in Requests : Timed(r) /\ Cached(r)
    /\ \A r, p \in Requests : r # p => Explained(r, p)

\* A request that a step leaves where it is, or far from the cache.
Settled(q) ==
    \/ progress'[q].at \notin {"looking", "room", "evicting", "adding", "accepted"}
    \/ /\ progress'[q].at = progress[q].at /\ progress'[q].nonce = progress[q].nonce
       /\ progress'[q].stamp = progress[q].stamp /\ looked'[q] = looked[q]

\* What explains a replay is not forgotten.
Remembered(q) == evicted \subseteq evicted' /\ rivals[q] \subseteq rivals'[q]

LEMMA ExplainedKept ==
    ASSUME NEW r \in Requests, NEW p \in Requests, Explained(r, p),
           Settled(r), Settled(p), Remembered(r), Remembered(p)
    PROVE  Explained(r, p)'
<1>1. Alone(r)' => Alone(r)
  BY DEF Alone, Settled, Remembered
<1>2. Alone(p)' => Alone(p)
  BY DEF Alone, Settled, Remembered
<1>3. Checking(r)' => Checking(r)
  BY DEF Checking, Settled
<1>4. Checking(p)' => Checking(p)
  BY DEF Checking, Settled
<1>5. CASE Checking(r)' \/ Alone(r)'
  <2>1. progress'[r].nonce = progress[r].nonce /\ progress'[r].stamp = progress[r].stamp
        /\ looked'[r] = looked[r]
    BY <1>5 DEF Checking, Alone, Settled
  <2>2. CASE Checking(p)' \/ Alone(p)'
    <3>1. /\ progress'[p].nonce = progress[p].nonce /\ progress'[p].stamp = progress[p].stamp
          /\ looked'[p] = looked[p] /\ progress'[p].at = progress[p].at
      BY <2>2 DEF Checking, Alone, Settled
    <3> QED
      BY <1>1, <1>2, <1>3, <1>4, <2>1, <3>1 DEF Explained, SameNonce, Late, Remembered
  <2>3. CASE ~Checking(p)' /\ ~Alone(p)'
    BY <2>3 DEF Explained, Checking
  <2> QED
    BY <2>2, <2>3
<1>6. CASE ~Checking(r)' /\ ~Alone(r)'
  BY <1>6 DEF Explained
<1> QED
  BY <1>5, <1>6

LEMMA TimedKept ==
    ASSUME NEW q \in Requests, Timed(q), Settled(q), now \in Moments, now' \in Moments, now <= now'
    PROVE  Timed(q)'
  BY DEF Timed, Settled, Moments

LEMMA CachedKept ==
    ASSUME ServerTyped, NEW q \in Requests, Cached(q), Settled(q), Remembered(q),
           now' \in Moments, now <= now',
           progress[q].nonce \in DOMAIN cache =>
              \/ /\ progress[q].nonce \in DOMAIN cache'
                 /\ cache'[progress[q].nonce] = cache[progress[q].nonce]
              \/ now - cache[progress[q].nonce] >= Ttl
              \/ progress[q].nonce \in evicted'
    PROVE  Cached(q)'
<1>1. Alone(q)' => Alone(q)
  BY DEF Alone, Settled, Remembered
<1>2. SUFFICES ASSUME Alone(q)'
               PROVE  Cached(q)'
  BY DEF Cached
<1>3. progress'[q].nonce = progress[q].nonce /\ progress'[q].stamp = progress[q].stamp
  BY <1>2 DEF Alone, Settled
<1>4. now \in Int /\ now' \in Int /\ progress[q].stamp \in Int /\ Ttl \in Int
  BY ServerTypesAre, ServerLimits DEF ServerTyped, ServerTypes, RequestStates, Moments
<1>5. progress[q].nonce \notin evicted'
  BY <1>2, <1>3 DEF Alone
<1>6. CASE now - progress[q].stamp >= Ttl
  <2>1. now' - progress[q].stamp >= Ttl
    BY <1>4, <1>6
  <2> QED
    BY <1>3, <2>1 DEF Cached
<1>7. CASE progress[q].nonce \in DOMAIN cache /\ cache[progress[q].nonce] = progress[q].stamp
           /\ ~(now - progress[q].stamp >= Ttl)
  BY <1>3, <1>5, <1>7 DEF Cached
<1> QED
  BY <1>1, <1>2, <1>6, <1>7 DEF Cached

\* Steps that do not move a request at the cache.
LEMMA ReplayUntouched ==
    ASSUME ReplayInv, \A q \in Requests : Settled(q), UNCHANGED <<cache, evicted, rivals>>,
           now' \in Moments, now <= now', ServerTyped'
    PROVE  ReplayInv'
<1>1. now \in Moments
  BY ServerTypesAre DEF ReplayInv, ServerTyped, ServerTypes
<1>2. \A q \in Requests : Remembered(q)
  BY DEF Remembered
<1>3. \A q \in Requests : Timed(q)'
  BY <1>1, TimedKept DEF ReplayInv
<1>4. ASSUME NEW q \in Requests
      PROVE  Cached(q)'
  BY <1>2, CachedKept DEF ReplayInv
<1>5. ASSUME NEW r \in Requests, NEW p \in Requests, r # p
      PROVE  Explained(r, p)'
  BY <1>2, <1>5, ExplainedKept DEF ReplayInv
<1> QED
  BY <1>3, <1>4, <1>5 DEF ReplayInv

\* Steps that move request m at the cache: the rest is as it was.
LEMMA ReplayMoves ==
    ASSUME ReplayInv, ServerTyped', NEW m \in Requests, Others(m), now' = now,
           \A q \in Requests \ {m} : looked'[q] = looked[q] /\ Remembered(q),
           Timed(m)', Cached(m)', \A q \in Requests \ {m} : Cached(q)',
           \A p \in Requests \ {m} : Explained(m, p)' /\ Explained(p, m)'
    PROVE  ReplayInv'
<1>1. now \in Moments /\ now' \in Moments /\ now <= now'
  BY ServerTypesAre DEF ReplayInv, ServerTyped, ServerTypes, Moments
<1>2. \A q \in Requests \ {m} : Settled(q)
  BY DEF Settled, Others
<1>3. \A q \in Requests : Timed(q)'
  BY <1>1, <1>2, TimedKept DEF ReplayInv
<1>4. ASSUME NEW r \in Requests, NEW p \in Requests, r # p
      PROVE  Explained(r, p)'
  <2>1. CASE r # m /\ p # m
    BY <1>2, <1>4, <2>1, ExplainedKept DEF ReplayInv
  <2> QED
    BY <1>4, <2>1
<1> QED
  BY <1>3, <1>4 DEF ReplayInv

\* A request takes part in the check, along with all that check its nonce.
LEMMA CheckNonceExplained ==
    ASSUME ReplayInv, ServerTyped', NEW m \in Requests, NEW n \in Nonces, CheckNonce(m, n)
    PROVE  ReplayInv'
<1>0. ServerTyped /\ ServerTypes
  BY ServerTypesAre DEF ReplayInv, ServerTyped
<1>1. /\ Others(m) /\ progress[m].at = "admitted" /\ progress'[m].at = "looking"
      /\ progress'[m].nonce = n /\ now' = now /\ looked' = looked /\ evicted' = evicted
  BY <1>0, CheckNonceDoes
<1>2. PICK others \in SUBSET Requests :
        others = {q \in Requests : Checking(q) /\ progress[q].nonce = n}
  OBVIOUS
<1>3. rivals' = [q \in Requests |-> IF q = m THEN others
                                    ELSE IF q \in others THEN rivals[q] \cup {m}
                                    ELSE rivals[q]]
  BY <1>2 DEF CheckNonce
<1>4. rivals'[m] = others /\ \A q \in Requests \ {m} :
        rivals[q] \subseteq rivals'[q] /\ (q \in others => m \in rivals'[q])
  BY <1>0, <1>3 DEF ServerTypes
<1>5. \A q \in Requests \ {m} : Remembered(q)
  BY <1>1, <1>4 DEF Remembered
<1>6. Timed(m)' /\ Cached(m)'
  BY <1>1 DEF Timed, Cached, Alone
<1>7. ASSUME NEW q \in Requests \ {m}
      PROVE  Cached(q)'
  <2>1. Settled(q) /\ Cached(q)
    BY <1>1 DEF Settled, Others, ReplayInv
  <2>2. now' \in Moments /\ now <= now'
    BY <1>0, <1>1 DEF ServerTypes, Moments
  <2>3. PICK x : x = progress[q].nonce
    OBVIOUS
  <2>4. x \in DOMAIN cache => \/ x \in DOMAIN cache' /\ cache'[x] = cache[x]
                              \/ now - cache[x] >= Ttl
    <3>1. cache' = cache \/ cache' = Swept(now)
      BY DEF CheckNonce, replay
    <3>2. CASE cache' = cache
      BY <3>2
    <3>3. CASE cache' = Swept(now)
      <4>1. SUFFICES ASSUME x \in DOMAIN cache, ~(now - cache[x] >= Ttl)
                     PROVE  x \in DOMAIN cache' /\ cache'[x] = cache[x]
        OBVIOUS
      <4>2. now \in Int /\ cache[x] \in Int /\ Ttl \in Int
        BY <1>0, <4>1, ServerLimits DEF ServerTypes, Moments
      <4>3. now - cache[x] < Ttl
        BY <4>1, <4>2
      <4> QED
        BY <3>3, <4>1, <4>3 DEF Swept
    <3> QED
      BY <3>1, <3>2, <3>3
  <2> QED
    BY <1>0, <1>5, <2>1, <2>2, <2>3, <2>4, CachedKept
<1>8. ASSUME NEW p \in Requests \ {m}
      PROVE  Explained(m, p)' /\ Explained(p, m)'
  <2>1. Checking(p)' => Checking(p)
    BY <1>1 DEF Checking, Others
  <2>2. progress'[p] = progress[p]
    BY <1>1 DEF Others
  <2>3. Checking(p)' /\ progress'[p].nonce = n => p \in rivals'[m] /\ m \in rivals'[p]
    BY <1>2, <1>4, <2>1, <2>2
  <2>4. ~Alone(m)' /\ progress'[m].at \notin {"room", "evicting", "adding"}
    BY <1>1 DEF Alone
  <2> QED
    BY <1>1, <2>3, <2>4 DEF Explained, SameNonce
<1> QED
  BY <1>1, <1>5, <1>6, <1>7, <1>8, ReplayMoves

\* A nonce is found missing only when the time of any earlier one is over.
LEMMA LookUpExplained ==
    ASSUME ReplayInv, ServerTyped', NEW m \in Requests, LookUp(m)
    PROVE  ReplayInv'
<1>0. ServerTyped /\ ServerTypes
  BY ServerTypesAre DEF ReplayInv, ServerTyped
<1>1. /\ Others(m) /\ progress[m].at = "looking" /\ looked' = [looked EXCEPT ![m] = now]
      /\ Moves(m, {IF progress[m].nonce \in DOMAIN cache THEN "duplicate" ELSE "room"})
      /\ now' = now /\ UNCHANGED <<cache, swept, rivals, evicted>>
  BY <1>0, LookUpDoes DEF replay
<1>2. now \in Moments /\ now' \in Moments /\ now <= now'
  BY <1>0, <1>1 DEF ServerTypes, Moments
<1>3. \A q \in Requests \ {m} : looked'[q] = looked[q]
  BY <1>0, <1>1 DEF ServerTypes
<1>4. \A q \in Requests : Remembered(q)
  BY <1>1 DEF Remembered
<1>5. Timed(m)' /\ Cached(m)' /\ ~Alone(m)'
  BY <1>0, <1>1, <1>2 DEF Timed, Cached, Alone, Moves, ServerTypes
<1>6. ASSUME NEW q \in Requests \ {m}
      PROVE  Cached(q)'
  <2>1. Settled(q) /\ Cached(q)
    BY <1>1, <1>3 DEF Settled, Others, ReplayInv
  <2> QED
    BY <1>0, <1>1, <1>2, <1>4, <2>1, CachedKept
<1>7. ASSUME NEW p \in Requests \ {m}
      PROVE  Explained(m, p)' /\ Explained(p, m)'
  <2>1. Explained(m, p) /\ Explained(p, m) /\ Cached(p) /\ progress'[p] = progress[p]
    BY <1>1 DEF ReplayInv, Others
  <2>2. Checking(m) /\ (Checking(p)' => Checking(p)) /\ progress'[m].nonce = progress[m].nonce
    BY <1>1, <2>1 DEF Checking, Moves
  <2>3. Checking(p)' /\ SameNonce(m, p)' => p \in rivals'[m] /\ m \in rivals'[p]
    BY <1>1, <2>1, <2>2 DEF Explained, SameNonce
  <2>4. ASSUME Alone(p)', SameNonce(p, m)', progress'[m].at = "room"
        PROVE  Late(m, p)'
    <3>1. Alone(p) /\ progress[m].nonce \notin DOMAIN cache
      BY <1>1, <2>1, <2>4 DEF Alone, Moves
    <3>2. progress[p].nonce = progress[m].nonce
      BY <2>1, <2>2, <2>4 DEF SameNonce
    <3>3. now - progress[p].stamp >= Ttl
      BY <2>1, <3>1, <3>2 DEF Cached
    <3>4. looked'[m] = now
      BY <1>0, <1>1 DEF ServerTypes
    <3> QED
      BY <2>1, <3>3, <3>4 DEF Late
  <2>5. progress'[m].at \notin {"evicting", "adding"}
    BY <1>1 DEF Moves
  <2> QED
    BY <1>5, <2>3, <2>4, <2>5 DEF Explained, SameNonce
<1> QED
  BY <1>1, <1>3, <1>4, <1>5, <1>6, <1>7, ReplayMoves

\* On the way to adding, what the look-up found is still true.
LEMMA RoomExplained ==
    ASSUME ReplayInv, ServerTyped', NEW m \in Requests, MakeRoom(m) \/ EvictOldest(m)
    PROVE  ReplayInv'
<1>0. ServerTyped /\ ServerTypes
  BY ServerTypesAre DEF ReplayInv, ServerTyped
<1>1. /\ Others(m) /\ progress[m].at \in {"room", "evicting"} /\ Moves(m, {"adding", "evicting"})
      /\ now' = now /\ UNCHANGED <<rivals, looked>> /\ evicted \subseteq evicted'
  <2>1. CASE MakeRoom(m)
    BY <1>0, <2>1, MakeRoomDoes DEF history, Moves
  <2>2. CASE EvictOldest(m)
    BY <1>0, <2>2, EvictDoes DEF Moves
  <2> QED
    BY <2>1, <2>2
<1>2. \A x \in DOMAIN cache : \/ x \in DOMAIN cache' /\ cache'[x] = cache[x]
                              \/ x \in evicted'
  <2>1. CASE MakeRoom(m)
    BY <1>0, <2>1, MakeRoomDoes DEF replay
  <2>2. CASE EvictOldest(m)
    BY <1>0, <2>2, EvictDoes DEF Delete
  <2> QED
    BY <2>1, <2>2
<1>3. now \in Moments /\ now' \in Moments /\ now <= now'
  BY <1>0, <1>1 DEF ServerTypes, Moments
<1>4. \A q \in Requests : Remembered(q)
  BY <1>1 DEF Remembered
<1>5. Timed(m)' /\ Cached(m)' /\ ~Alone(m)'
  BY <1>1 DEF Timed, Cached, Alone, Moves, ReplayInv
<1>6. ASSUME NEW q \in Requests \ {m}
      PROVE  Cached(q)'
  <2>1. Settled(q) /\ Cached(q)
    BY <1>1 DEF Settled, Others, ReplayInv
  <2> QED
    BY <1>0, <1>2, <1>3, <1>4, <2>1, CachedKept
<1>7. ASSUME NEW p \in Requests \ {m}
      PROVE  Explained(m, p)' /\ Explained(p, m)'
  <2>1. Explained(m, p) /\ Explained(p, m) /\ progress'[p] = progress[p]
    BY <1>1 DEF ReplayInv, Others
  <2>2. Checking(m) /\ (Checking(p)' => Checking(p)) /\ progress'[m].nonce = progress[m].nonce
    BY <1>1, <2>1 DEF Checking, Moves
  <2>3. Checking(p)' /\ SameNonce(m, p)' => p \in rivals'[m] /\ m \in rivals'[p]
    BY <1>1, <2>1, <2>2 DEF Explained, SameNonce
  <2>4. ASSUME Alone(p)', SameNonce(p, m)'
        PROVE  Late(m, p)'
    <3>1. Alone(p) /\ SameNonce(p, m)
      BY <1>1, <2>1, <2>2, <2>4 DEF Alone, SameNonce
    <3>2. Late(m, p)
      BY <1>1, <2>1, <3>1 DEF Explained
    <3> QED
      BY <1>1, <2>1, <3>2 DEF Late
  <2> QED
    BY <1>5, <2>3, <2>4 DEF Explained, SameNonce
<1> QED
  BY <1>1, <1>4, <1>5, <1>6, <1>7, ReplayMoves

\* A nonce is added over an earlier one only when the time of that is over.
LEMMA AddExplained ==
    ASSUME ReplayInv, ServerTyped', NEW m \in Requests, AddNonce(m)
    PROVE  ReplayInv'
<1>0. ServerTyped /\ ServerTypes /\ progress \in [Requests -> RequestStates]
  BY ServerTypesAre DEF ReplayInv, ServerTyped
<1>1. /\ Others(m) /\ progress[m].at = "adding" /\ Moves(m, {"accepted"})
      /\ now' = now /\ UNCHANGED <<rivals, looked, evicted>>
  BY <1>0, AddDoes DEF history
<1>2. PICK n, t : n = progress[m].nonce /\ t = progress[m].stamp
  OBVIOUS
<1>3. cache' = Put(cache, n, t)
  BY <1>0, <1>2, AddDoes
<1>4. /\ n \in DOMAIN cache' /\ cache'[n] = t
      /\ \A x \in DOMAIN cache \ {n} : x \in DOMAIN cache' /\ cache'[x] = cache[x]
  BY <1>3 DEF Put
<1>5. now \in Moments /\ now' \in Moments /\ now <= now'
  BY <1>0, <1>1 DEF ServerTypes, Moments
<1>6. \A q \in Requests : Remembered(q)
  BY <1>1 DEF Remembered
<1>7. Timed(m)' /\ Cached(m)'
  BY <1>1, <1>2, <1>4 DEF Timed, Cached, Moves, ReplayInv
<1>8. ASSUME NEW p \in Requests \ {m}
      PROVE  /\ Explained(m, p) /\ Explained(p, m) /\ progress'[p] = progress[p]
             /\ Alone(p)' = Alone(p) /\ SameNonce(p, m)' = SameNonce(p, m)
             /\ SameNonce(m, p)' = SameNonce(p, m)
             /\ Alone(p) /\ SameNonce(p, m) => Late(m, p)
             /\ Checking(p) /\ SameNonce(m, p) => rivals[m] # {}
  <2>1. Explained(m, p) /\ Explained(p, m) /\ progress'[p] = progress[p]
    BY <1>1 DEF ReplayInv, Others
  <2>2. Checking(m) /\ progress'[m].nonce = progress[m].nonce
    BY <1>1 DEF Checking, Moves
  <2>3. Alone(p)' = Alone(p)
    BY <1>1, <2>1 DEF Alone
  <2>4. SameNonce(p, m)' = SameNonce(p, m) /\ SameNonce(m, p)' = SameNonce(p, m)
    BY <2>1, <2>2 DEF SameNonce
  <2> QED
    BY <1>1, <2>1, <2>2, <2>3, <2>4 DEF Explained
<1>9. ASSUME NEW q \in Requests \ {m}
      PROVE  Cached(q)'
  <2>1. Settled(q) /\ Cached(q)
    BY <1>1 DEF Settled, Others, ReplayInv
  <2>2. CASE Alone(q) /\ SameNonce(q, m)
    <3>1. looked[m] - progress[q].stamp >= Ttl
      BY <1>8, <2>2 DEF Late
    <3>2. looked[m] \in Moments /\ looked[m] <= now
      BY <1>1 DEF ReplayInv, Timed
    <3>3. looked[m] \in Int /\ now \in Int /\ progress[q].stamp \in Int /\ Ttl \in Int
      BY <1>0, <1>5, <3>2, ServerLimits DEF Moments, RequestStates
    <3>4. now - progress[q].stamp >= Ttl
      BY <3>1, <3>2, <3>3
    <3> QED
      BY <1>1, <1>8, <3>4 DEF Cached
  <2>3. CASE Alone(q) /\ ~SameNonce(q, m)
    <3>1. progress[q].nonce # n
      BY <1>2, <2>3 DEF SameNonce
    <3> QED
      BY <1>0, <1>4, <1>5, <1>6, <2>1, <3>1, CachedKept
  <2>4. CASE ~Alone(q)
    BY <1>8, <2>4 DEF Cached
  <2> QED
    BY <2>2, <2>3, <2>4
<1>10. ASSUME NEW p \in Requests \ {m}
       PROVE  Explained(m, p)' /\ Explained(p, m)'
  <2>1. ~Checking(m)' /\ progress'[m].at = "accepted"
    BY <1>1 DEF Checking, Moves
  <2>2. Alone(m)' /\ SameNonce(m, p)' => ~Checking(p)
    BY <1>1, <1>8 DEF Alone, SameNonce
  <2>3. progress'[p].at \in {"room", "evicting", "adding"} => Checking(p)
    BY <1>8 DEF Checking
  <2>4. Alone(p)' /\ SameNonce(p, m)' => Late(m, p)'
    BY <1>1, <1>8 DEF Late
  <2> QED
    BY <1>8, <2>1, <2>2, <2>3, <2>4 DEF Explained
<1> QED
  BY <1>1, <1>6, <1>7, <1>9, <1>10, ReplayMoves

LEMMA ReplayKept ==
    ASSUME ReplayInv, ServerNext
    PROVE  ReplayInv'
<1>0. ServerTyped /\ ServerTyped' /\ ServerTypes
  BY ServerTypesKept, ServerTypesAre DEF ReplayInv, ServerTyped
<1>1. now \in Moments /\ now <= now
  BY <1>0 DEF ServerTypes, Moments
<1>2. CASE Tick
  <2>1. UNCHANGED <<progress, cache, evicted, rivals, looked>>
    BY <1>2 DEF Tick, replay, history
  <2>2. now' \in Moments /\ now <= now'
    BY <1>1, <1>2, ServerLimits DEF Tick, Moments
  <2>3. \A q \in Requests : Settled(q)
    BY <2>1 DEF Settled
  <2> QED
    BY <1>0, <2>1, <2>2, <2>3, ReplayUntouched
<1>3. ASSUME NEW r \in Requests, Others(r), now' = now,
             UNCHANGED <<cache, evicted, rivals, looked>>,
             progress'[r].at \notin {"looking", "room", "evicting", "adding", "accepted"}
      PROVE  ReplayInv'
  <2>1. \A q \in Requests : Settled(q)
    BY <1>3 DEF Settled, Others
  <2> QED
    BY <1>0, <1>1, <1>3, <2>1, ReplayUntouched
<1>4. ASSUME NEW r \in Requests, NEW c \in Clients, Arrive(r, c)
      PROVE  ReplayInv'
  <2>1. /\ Others(r) /\ now' = now /\ UNCHANGED <<cache, evicted, rivals, looked>>
        /\ progress'[r].at \in {"known", "unknown"}
    BY <1>0, <1>4, ArriveDoes DEF replay, history
  <2> QED
    BY <1>3, <2>1
<1>5. ASSUME NEW r \in Requests, InsertBucket(r)
      PROVE  ReplayInv'
  <2>1. /\ Others(r) /\ now' = now /\ UNCHANGED <<cache, evicted, rivals, looked>>
        /\ progress'[r].at = "known"
    BY <1>0, <1>5, InsertDoes DEF replay, history, Moves
  <2> QED
    BY <1>3, <2>1
<1>6. ASSUME NEW r \in Requests, Count(r)
      PROVE  ReplayInv'
  <2>1. /\ Others(r) /\ now' = now /\ UNCHANGED <<cache, evicted, rivals, looked>>
        /\ progress'[r].at \in {"panicked", "counted", "admitted", "refused"}
    BY <1>0, <1>6, CountDoes DEF replay
  <2> QED
    BY <1>3, <2>1
<1>7. ASSUME NEW r \in Requests, Track(r)
      PROVE  ReplayInv'
  <2>1. /\ Others(r) /\ now' = now /\ UNCHANGED <<cache, evicted, rivals, looked>>
        /\ progress'[r].at \in {"admitted", "refused"}
    BY <1>0, <1>7, TrackDoes DEF replay, history
  <2> QED
    BY <1>3, <2>1
<1> QED
  BY <1>0, ServerSteps, <1>2, <1>4, <1>5, <1>6, <1>7, CheckNonceExplained, LookUpExplained,
     RoomExplained, AddExplained

\* However many requests race for the cache, a nonce is accepted twice only for
\* a reason: it was checked twice at once, evicted, or its time was over.
THEOREM ReplaysStayExplained == ServerSpec => []ReplaysExplained
<1>1. ServerInit => ReplayInv
  <2>1. ASSUME ServerInit
        PROVE  ReplayInv
    <3>1. ServerTyped
      BY <2>1, LimiterStarts DEF LimiterInv
    <3>2. \A r \in Requests : progress[r].at = "new"
      BY <2>1 DEF ServerInit, New
    <3> QED
      BY <3>1, <3>2 DEF ReplayInv, Timed, Cached, Explained, Alone, Checking
  <2> QED
    BY <2>1
<1>2. ReplayInv /\ [ServerNext]_serverVars => ReplayInv'
  <2>1. ASSUME ReplayInv, UNCHANGED serverVars
        PROVE  ReplayInv'
    <3>1. UNCHANGED <<now, buckets, order, cache, swept, progress, rivals, evicted, counted, looked>>
      BY <2>1 DEF serverVars, limiter, replay, history
    <3>2. ServerTyped'
      BY <2>1, <3>1 DEF ReplayInv, ServerTyped, ServerTypeOK, Remembers, Checking
    <3>3. now' \in Moments /\ now <= now'
      BY <2>1, <3>1, ServerTypesAre DEF ReplayInv, ServerTyped, ServerTypes, Moments
    <3>4. \A q \in Requests : Settled(q)
      BY <3>1 DEF Settled
    <3> QED
      BY <2>1, <3>1, <3>2, <3>3, <3>4, ReplayUntouched
  <2>2. ASSUME ReplayInv, ServerNext
        PROVE  ReplayInv'
    BY <2>2, ReplayKept
  <2> QED
    BY <2>1, <2>2
<1>3. ReplayInv => ReplaysExplained
  <2>1. SUFFICES ASSUME ReplayInv, NEW r \in Requests, NEW q \in Requests, r # q,
                        progress[r].at = "accepted", progress[q].at = "accepted",
                        progress[r].nonce = progress[q].nonce, progress[r].nonce \notin evicted,
                        rivals[r] = {}, rivals[q] = {}
                 PROVE  \/ looked[q] - progress[r].stamp >= Ttl
                        \/ looked[r] - progress[q].stamp >= Ttl
    BY DEF ReplaysExplained
  <2>2. Alone(r) /\ Alone(q) /\ SameNonce(r, q)
    BY <2>1 DEF Alone, SameNonce
  <2> QED
    BY <2>1, <2>2 DEF ReplayInv, Explained, Late
<1> QED
  BY <1>1, <1>2, <1>3, PTL DEF ServerSpec

=============================================================================
