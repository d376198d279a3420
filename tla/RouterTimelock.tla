--------------------------- MODULE RouterTimelock ---------------------------
(***************************************************************************)
(* The router-timelock contract: sensitive operations are queued by the    *)
(* admin, wait at least the minimum delay, and may then be executed once,  *)
(* during their grace period and after the operations they depend on.      *)
(*                                                                         *)
(* Each contract call is one atomic action.  A call that returns Err       *)
(* leaves the storage as it was (the host rolls the invocation back), so   *)
(* an error return is a guard of the action and not a step.                *)
(***************************************************************************)
EXTENDS Vectors

CONSTANTS
    Addresses,           \* accounts that call the contract
    NoAdmin,             \* DataKey::Admin is absent
    Descriptions,        \* operation descriptions
    Targets,             \* operation targets
    MaxDependencyDepth,  \* MAX_DEPENDENCY_DEPTH, 8 in the code
    MaxGracePeriod,      \* MAX_GRACE_PERIOD_SECONDS, 30 days in the code
    MaxTimestamp         \* the largest u64

CONSTANTS                \* the inputs a run enumerates, and its bounds
    Delays,              \* delays passed to queue, initialize, set_min_delay
    Graces,              \* grace periods passed to queue
    PendingCaps,         \* max_pending_ops passed to initialize, 0 = no cap
    Limits,              \* limits passed to cleanup_expired
    MaxDeps,             \* bound on the number of dependencies of one call
    LastEta              \* bound: no operation is queued with a later eta

ASSUME NoAdminAssumption == NoAdmin \notin Addresses
ASSUME WidthAssumption ==
    /\ MaxTimestamp \in Nat
    /\ MaxDependencyDepth \in Nat
    /\ MaxGracePeriod \in Nat
    /\ LastEta \in Nat
ASSUME InputAssumption ==
    /\ Delays \subseteq Nat
    /\ Graces \subseteq Nat
    /\ PendingCaps \subseteq Nat
    /\ Limits \subseteq Nat
    /\ MaxDeps \in Nat

VARIABLES
    now,         \* ledger timestamp
    admin,       \* Admin
    minDelay,    \* MinDelay
    maxPending,  \* MaxPendingOps
    ops,         \* Op(id) -> Op
    deps,        \* Deps(id) -> its dependencies; no entry when there are none
    pending,     \* PendingOps
    finalized    \* FinalizedOps

config == <<admin, minDelay, maxPending>>
vars == <<now, config, ops, deps, pending, finalized>>

-----------------------------------------------------------------------------
(* Operations and the indexes that list them.                              *)

\* sha256(description, target, eta), collision free.
OpIds == [description : Descriptions, target : Targets, eta : 0 .. MaxTimestamp]

Ops == [proposer : Addresses, description : Descriptions, target : Targets,
        eta : 0 .. MaxTimestamp, grace : 0 .. MaxGracePeriod,
        executed : BOOLEAN, cancelled : BOOLEAN]

-----------------------------------------------------------------------------
(* Queries the entry points share.                                         *)
(*                                                                         *)
(* A definition with Slip in its name is a plausible mistake in the one    *)
(* that follows it.  Nothing uses them: README.md lists the property that  *)
(* fails when a slip takes the place of what it misstates.                 *)

LoadDeps(id) == IF id \in DOMAIN deps THEN deps[id] ELSE {}

Pending(id) == /\ id \in DOMAIN ops
               /\ ~ops[id].executed
               /\ ~ops[id].cancelled

IsExpiredSlip(op) ==
    \/ op.eta + op.grace > MaxTimestamp
    \/ now > op.eta + op.grace + 1

\* The expiry is a checked_add: an overflow counts as expired.
IsExpired(op) ==
    \/ op.eta + op.grace > MaxTimestamp
    \/ now > op.eta + op.grace

\* A dependency passes when none of its ancestors lies deeper than the limit.
WithinDepth(dep) ==
    LET level[k \in Nat] == IF k = 0
                              THEN {dep}
                              ELSE UNION {LoadDeps(i) : i \in level[k - 1]}
    IN  level[MaxDependencyDepth + 1] = {}

\* blocked[k]: the operations has_blocked_dependency_at_depth reports as
\* blocked with k levels of recursion left; with none left, all of them.
HasBlockedDependency(id) ==
    LET blocked[k \in Nat] ==
          IF k = 0
            THEN DOMAIN ops
            ELSE {i \in DOMAIN ops : \E d \in LoadDeps(i) :
                    \/ d \notin DOMAIN ops
                    \/ ops[d].cancelled
                    \/ ~ops[d].executed /\ (IsExpired(ops[d]) \/ d \in blocked[k - 1])}
    IN  id \in blocked[MaxDependencyDepth + 1]

DueSlip(id) == now + 1 >= ops[id].eta

Due(id) == now >= ops[id].eta

Live(id) == Pending(id) /\ ~IsExpired(ops[id])

\* get_operation_status, for a stored operation.
Status(id) ==
    CASE ops[id].cancelled                            -> "Cancelled"
      [] ~ops[id].cancelled /\ ops[id].executed       -> "Executed"
      [] Pending(id) /\ ~Live(id)                     -> "Expired"
      [] Live(id) /\ HasBlockedDependency(id)         -> "Blocked"
      [] OTHER -> IF Due(id) THEN "Ready" ELSE "Queued"

Statuses == {"Queued", "Ready", "Blocked", "Expired", "Executed", "Cancelled"}

ListedAsSlip(id, status) ==
    \/ status = "Expired" /\ Pending(id) /\ IsExpired(ops[id])
    \/ status = "Ready"   /\ Live(id) /\ Due(id)
    \/ status = "Queued"  /\ Pending(id) /\ ~Due(id)
    \/ status = "Blocked" /\ Live(id) /\ HasBlockedDependency(id)

\* The match of get_operations_by_status, its own reading of each status.
ListedAs(id, status) ==
    \/ status = "Cancelled" /\ ops[id].cancelled
    \/ status = "Executed"  /\ ops[id].executed
    \/ status = "Expired"   /\ Pending(id) /\ IsExpired(ops[id])
    \/ status = "Ready"     /\ Live(id) /\ Due(id) /\ ~HasBlockedDependency(id)
    \/ status = "Queued"    /\ Pending(id) /\ ~Due(id) /\ ~HasBlockedDependency(id)
    \/ status = "Blocked"   /\ Live(id) /\ HasBlockedDependency(id)

\* get_operation_count_by_status has a match of its own, the third reading.
CountedAs(id, status) ==
    \/ status = "Cancelled" /\ ops[id].cancelled
    \/ status = "Executed"  /\ ops[id].executed
    \/ Pending(id) /\ status = "Expired" /\ IsExpired(ops[id])
    \/ Pending(id) /\ status = "Queued"  /\ ~Due(id) /\ ~HasBlockedDependency(id)
    \/ Live(id)    /\ status = "Ready"   /\ Due(id)  /\ ~HasBlockedDependency(id)
    \/ Live(id)    /\ status = "Blocked" /\ HasBlockedDependency(id)

\* The listings and the count walk the pending index and skip what is not
\* stored.
OperationsByStatus(status) ==
    Among(pending, {id \in DOMAIN ops : ListedAs(id, status)})

OperationCountByStatus(status) ==
    Len(Among(pending, {id \in DOMAIN ops : CountedAs(id, status)}))

PendingOperations == Among(pending, {id \in DOMAIN ops : Live(id)})

-----------------------------------------------------------------------------
(* Entry points.                                                           *)

Init ==
    /\ now = 0
    /\ admin = NoAdmin
    /\ minDelay = 0
    /\ maxPending = 0
    /\ ops = << >>
    /\ deps = << >>
    /\ pending = << >>
    /\ finalized = << >>

Initialize(newAdmin, delay, cap) ==
    /\ admin = NoAdmin
    /\ delay > 0
    /\ admin' = newAdmin
    /\ minDelay' = delay
    /\ maxPending' = cap
    /\ UNCHANGED <<now, ops, deps, pending, finalized>>

HasRoom == maxPending > 0 => Len(pending) < maxPending

Queue(caller, description, target, delay, grace, ds) ==
    LET eta == now + delay
        id  == [description |-> description, target |-> target, eta |-> eta]
    IN  /\ caller = admin
        /\ delay >= minDelay
        /\ grace <= MaxGracePeriod
        /\ HasRoom
        /\ eta <= MaxTimestamp
        /\ eta <= LastEta
        /\ id \notin DOMAIN ops
        /\ id \notin ds
        /\ ds \subseteq DOMAIN ops
        /\ \A d \in ds : WithinDepth(d)
        /\ ops' = Put(ops, id, [proposer |-> caller, description |-> description,
                                target |-> target, eta |-> eta, grace |-> grace,
                                executed |-> FALSE, cancelled |-> FALSE])
        /\ deps' = IF ds = {} THEN deps ELSE Put(deps, id, ds)
        /\ pending' = Append(pending, id)
        /\ UNCHANGED <<now, config, finalized>>

\* The end of both cancel and execute.
Finalize(id) ==
    /\ pending' = Without(pending, {id})
    /\ finalized' = Append(finalized, id)
    /\ UNCHANGED <<now, config, deps>>

Cancel(caller, id) ==
    /\ caller = admin
    /\ Pending(id)
    /\ ops' = [ops EXCEPT ![id].cancelled = TRUE]
    /\ Finalize(id)

DependenciesExecutedSlip(id) ==
    \A d \in LoadDeps(id) : d \in DOMAIN ops /\ ~Pending(d)

DependenciesExecuted(id) ==
    \A d \in LoadDeps(id) : d \in DOMAIN ops /\ ops[d].executed

Execute(caller, id) ==
    /\ caller = admin
    /\ Pending(id)
    /\ Due(id)
    /\ ~IsExpired(ops[id])
    /\ DependenciesExecuted(id)
    /\ ops' = [ops EXCEPT ![id].executed = TRUE]
    /\ Finalize(id)

UpdateDescription(caller, id, description) ==
    /\ caller = admin
    /\ Pending(id)
    /\ ops' = [ops EXCEPT ![id].description = description]
    /\ UNCHANGED <<now, config, deps, pending, finalized>>

ReferencedSlip == UNION {LoadDeps(id) : id \in {i \in Range(pending) : Live(i) /\ Due(i)}}

\* Dependencies of live operations keep their storage.
Referenced == UNION {LoadDeps(id) : id \in {i \in Range(pending) : Live(i)}}

PendingGarbageSlip(id) == id \notin DOMAIN ops

\* Reclaimable pending entries, and finalized ones.
PendingGarbage(id) ==
    id \in DOMAIN ops => IsExpired(ops[id]) /\ id \notin Referenced

\* The entries of s that satisfy garbage, the first n of them in order.
FirstOf(s, garbage(_), n) ==
    {s[i] : i \in {j \in 1 .. Len(s) :
        /\ garbage(s[j])
        /\ Cardinality({k \in 1 .. j - 1 : garbage(s[k])}) < n}}

\* remove_op_storage, for each of ids.
RemoveOpStorage(ids) ==
    /\ ops' = Delete(ops, ids)
    /\ deps' = Delete(deps, ids)

\* Pending operations are reclaimed before finalized ones, both in index
\* order, until the limit is reached.
CleanupExpired(limit) ==
    LET expired == FirstOf(pending, PendingGarbage, limit)
        freed   == FirstOf(finalized, LAMBDA id : id \notin Referenced,
                           limit - Cardinality(expired))
    IN  /\ expired \cup freed # {}
        /\ RemoveOpStorage(expired \cup freed)
        /\ pending' = Without(pending, expired)
        /\ finalized' = Without(finalized, freed)
        /\ UNCHANGED <<now, config>>

SetMinDelay(caller, delay) ==
    /\ caller = admin
    /\ delay > 0
    /\ minDelay' = delay
    /\ UNCHANGED <<now, admin, maxPending, ops, deps, pending, finalized>>

TransferAdmin(caller, newAdmin) ==
    /\ caller = admin
    /\ admin' = newAdmin
    /\ UNCHANGED <<now, minDelay, maxPending, ops, deps, pending, finalized>>

\* A later ledger closes, however much later: its time may lie beyond the
\* whole window of an operation.
Tick ==
    /\ now' \in now + 1 .. MaxTimestamp
    /\ UNCHANGED <<config, ops, deps, pending, finalized>>

\* The keeper's call; any caller may make it.
Cleanup == \E limit \in Limits : CleanupExpired(limit)

DepSets == {ds \in SUBSET OpIds : Cardinality(ds) <= MaxDeps}

Next ==
    \/ \E a \in Addresses, delay \in Delays, cap \in PendingCaps : Initialize(a, delay, cap)
    \/ \E a \in Addresses, d \in Descriptions, t \in Targets, delay \in Delays,
          grace \in Graces, ds \in DepSets : Queue(a, d, t, delay, grace, ds)
    \/ \E a \in Addresses, id \in OpIds : Cancel(a, id)
    \/ \E a \in Addresses, id \in OpIds : Execute(a, id)
    \/ \E a \in Addresses, id \in OpIds, d \in Descriptions : UpdateDescription(a, id, d)
    \/ Cleanup
    \/ \E a \in Addresses, delay \in Delays : SetMinDelay(a, delay)
    \/ \E a, b \in Addresses : TransferAdmin(a, b)
    \/ Tick

Spec == Init /\ [][Next]_vars

\* Ledgers keep closing, and some keeper keeps calling the permissionless
\* cleanup_expired with a limit above zero.  Nothing is asked of the admin.
FairSpec == Spec /\ WF_vars(Tick) /\ WF_vars(Cleanup)

-----------------------------------------------------------------------------
(* Properties.                                                             *)

TypeOK ==
    /\ now \in 0 .. MaxTimestamp
    /\ admin \in Addresses \cup {NoAdmin}
    /\ minDelay \in Nat
    /\ maxPending \in Nat
    /\ DOMAIN ops \subseteq OpIds
    /\ ops \in [DOMAIN ops -> Ops]
    /\ DOMAIN deps \subseteq DOMAIN ops
    /\ deps \in [DOMAIN deps -> SUBSET OpIds]
    /\ pending \in Seq(OpIds)
    /\ finalized \in Seq(OpIds)

\* The two indexes list exactly the stored operations, each once: the pending
\* index those neither executed nor cancelled, the finalized index the others
\* (what every query and cleanup_expired take for granted).
IndexesMatchOps ==
    /\ IsInjective(pending)
    /\ IsInjective(finalized)
    /\ Range(pending) = {id \in DOMAIN ops : Pending(id)}
    /\ Range(finalized) = {id \in DOMAIN ops : ~Pending(id)}

\* Whatever is reclaimed, an operation that may still be executed finds every
\* dependency it was queued with in storage (the comment in cleanup_expired).
LiveDepsKept == \A id \in DOMAIN ops : Live(id) => LoadDeps(id) \subseteq DOMAIN ops

\* No set of live operations waits on itself: some member of each set depends
\* on none of the set, so executing can always start somewhere.
NoLiveCycle ==
    \A S \in SUBSET {id \in DOMAIN ops : Live(id)} :
        S # {} => \E id \in S : LoadDeps(id) \cap S = {}

\* The cap of initialize bounds the pending index for good.
PendingWithinCap == maxPending > 0 => Len(pending) <= maxPending

\* Some dependency, direct or transitive, is cancelled, expired or missing:
\* every set that holds id and, with an operation, its unexecuted dependencies
\* has a member with such a dependency.
Unfulfillable(id) ==
    LET closed(S) == \A i \in S : \A d \in LoadDeps(i) :
                        d \in DOMAIN ops /\ ~ops[d].executed => d \in S
    IN  \A S \in SUBSET DOMAIN ops : id \in S /\ closed(S) =>
            \E i \in S : \E d \in LoadDeps(i) :
                \/ d \notin DOMAIN ops
                \/ ops[d].cancelled
                \/ ~ops[d].executed /\ IsExpired(ops[d])

\* The listing, the count and the status query each read a status in a match of
\* their own, the first two over the pending index only: yet every operation
\* not finalized is listed under the status it reports, finalized ones under
\* none, the count of a status is the number of operations listed under it, and
\* the pending operations are those counted as ready or blocked and those that
\* report queued.  The listing of queued operations does not look at the
\* expiry, so an operation whose window overflows counts there too until its
\* eta; and nothing else is listed twice.
ListingsAgree ==
    /\ \A status \in Statuses :
          Range(OperationsByStatus(status)) =
            {id \in DOMAIN ops : Pending(id) /\
                \/ Status(id) = status
                \/ /\ status = "Queued"
                   /\ ops[id].eta + ops[id].grace > MaxTimestamp
                   /\ ~Due(id) /\ ~HasBlockedDependency(id)}
    /\ \A status \in Statuses :
          OperationCountByStatus(status) = Len(OperationsByStatus(status))
    /\ Len(PendingOperations) =
          OperationCountByStatus("Ready") + OperationCountByStatus("Blocked")
            + Cardinality({id \in DOMAIN ops : Pending(id) /\ Status(id) = "Queued"})

\* What get_operation_status may answer next, while the operation is stored.
\* An operation blocked by a dependency that can never be executed stays
\* blocked: it is never reported ready again and never executed.  "Executed"
\* and "Cancelled" are final, an expired operation can only be cancelled, and
\* none is executed that was not reported ready.  Time that passes over the
\* whole window takes a queued operation straight to "Expired".
Successors(id) ==
    CASE Status(id) = "Queued"    -> {"Queued", "Ready", "Blocked", "Expired", "Cancelled"}
      [] Status(id) = "Ready"     -> {"Ready", "Blocked", "Executed", "Expired", "Cancelled"}
      [] Status(id) = "Blocked"   -> {"Blocked", "Expired", "Cancelled"} \cup
                                     IF Unfulfillable(id) THEN {} ELSE {"Queued", "Ready"}
      [] Status(id) = "Expired"   -> {"Expired", "Cancelled"}
      [] Status(id) = "Executed"  -> {"Executed"}
      [] Status(id) = "Cancelled" -> {"Cancelled"}

StatusLifecycle ==
    [][\A id \in DOMAIN ops : id \in DOMAIN ops' =>
           Status(id)' \in Successors(id)]_vars

\* No storage outlives the queueing: once no operation is queued any more, each
\* one stored is eventually reclaimed, even if the admin never finalizes it and
\* other operations depend on it.  (An admin who goes on queueing operations
\* that depend on an expired one keeps it stored: cleanup_expired spares what a
\* live operation depends on.)
QueueingCeases == <>[][DOMAIN ops' \subseteq DOMAIN ops]_vars

Reclaimed ==
    QueueingCeases =>
        \A id \in OpIds : id \in DOMAIN ops ~> id \notin DOMAIN ops

\* The comment in queue: "Validate dependencies: no circular references".
\* Here over everything stored: no operation is its own ancestor.
NoCircularDependency ==
    \A S \in SUBSET DOMAIN ops :
        S # {} => \E id \in S : LoadDeps(id) \cap S = {}

\* The comment of has_blocked_dependency: an operation is blocked only if it
\* can never be executed.
BlockedMeansUnfulfillable ==
    \A id \in DOMAIN ops : Live(id) /\ HasBlockedDependency(id) => Unfulfillable(id)

\* The comment in get_operation_status: treating overflow as expired is
\* "consistent with cleanup_expired and the other status-reporting functions".
ListedOnce ==
    \A s, t \in Statuses : s # t =>
        Range(OperationsByStatus(s)) \cap Range(OperationsByStatus(t)) = {}

\* The comment of AlreadyQueued: an operation with this exact (description,
\* target, eta) is rejected when one already exists.
NoTwins ==
    \A i, j \in DOMAIN ops :
        (/\ ops[i].description = ops[j].description
         /\ ops[i].target = ops[j].target
         /\ ops[i].eta = ops[j].eta) => i = j

-----------------------------------------------------------------------------
(* The inductive invariant behind the theorems of RouterTimelockProofs.    *)

\* Until initialize there is nothing; from then on the delay is positive, so
\* an eta lies in the future when its operation is queued.
Configured ==
    /\ admin = NoAdmin => DOMAIN ops = {}
    /\ admin # NoAdmin => minDelay > 0

\* An id carries the eta of its operation, which never changes.
EtaOfId == \A id \in DOMAIN ops : ops[id].eta = id.eta

\* In the pending index a live operation comes after each pending operation it
\* depends on: this order is why live operations cannot wait in a circle.
DepsPrecede ==
    \A i \in DOMAIN pending : Live(pending[i]) =>
        \A j \in DOMAIN pending : pending[j] \in LoadDeps(pending[i]) => j < i

\* What is stored as executed was due, and has not been cancelled as well.
Executed == {id \in DOMAIN ops : ops[id].executed}

ExecutedWasDue == \A id \in Executed : id.eta <= now /\ ~ops[id].cancelled

IInv ==
    /\ TypeOK
    /\ Configured
    /\ IndexesMatchOps
    /\ EtaOfId
    /\ LiveDepsKept
    /\ DepsPrecede
    /\ PendingWithinCap
    /\ ExecutedWasDue

=============================================================================
