------------------------ MODULE RouterTimelockProofs ------------------------
(***************************************************************************)
(* The timelock's safety properties hold for every instance: any set of    *)
(* accounts, targets and descriptions, any clock width, any depth limit.   *)
(*                                                                         *)
(* IInv, stated at the end of RouterTimelock, is inductive: one lemma for  *)
(* each entry point.  From it follows that the contract implements         *)
(* TimelockPromise.                                                        *)
(***************************************************************************)
EXTENDS RouterTimelockHistory, VectorLemmas, WellFoundedInduction, TLAPS

\* The fields of a stored operation have their types.
LEMMA OpTypes ==
    ASSUME TypeOK, NEW id \in DOMAIN ops
    PROVE  /\ id \in OpIds
           /\ ops[id] \in Ops
           /\ ops[id].eta \in Nat /\ ops[id].eta <= MaxTimestamp
           /\ ops[id].grace \in Nat
           /\ LoadDeps(id) \subseteq OpIds
  BY WidthAssumption DEF TypeOK, Ops, LoadDeps

-----------------------------------------------------------------------------

LEMMA InitIInv == Init => IInv
<1> SUFFICES ASSUME Init PROVE IInv
  OBVIOUS
<1>1. ops = << >> /\ deps = << >> /\ pending = << >> /\ finalized = << >>
  BY DEF Init
<1>2. DOMAIN ops = {} /\ DOMAIN deps = {} /\ DOMAIN pending = {} /\ DOMAIN finalized = {}
  BY <1>1
<1>3. TypeOK
  BY <1>1, <1>2, WidthAssumption DEF Init, TypeOK
<1>4. IndexesMatchOps
  BY <1>2 DEF IndexesMatchOps, IsInjective, Range
<1>5. Configured /\ EtaOfId /\ LiveDepsKept /\ DepsPrecede /\ PendingWithinCap /\ ExecutedWasDue
  BY <1>2, NoAdminAssumption DEF Init, Configured, EtaOfId, LiveDepsKept, DepsPrecede,
     PendingWithinCap, ExecutedWasDue, Executed
<1> QED
  BY <1>3, <1>4, <1>5 DEF IInv

-----------------------------------------------------------------------------

\* queue.
LEMMA QueueStep ==
    ASSUME IInv,
           NEW caller \in Addresses, NEW description \in Descriptions, NEW target \in Targets,
           NEW delay \in Delays, NEW grace \in Graces, NEW ds \in DepSets,
           Queue(caller, description, target, delay, grace, ds)
    PROVE  IInv'
<1> USE DEF IInv
<1>1. /\ caller = admin /\ delay >= minDelay /\ grace <= MaxGracePeriod
      /\ maxPending > 0 => Len(pending) < maxPending
      /\ now + delay <= MaxTimestamp
      /\ now' = now /\ admin' = admin /\ minDelay' = minDelay /\ maxPending' = maxPending
      /\ finalized' = finalized
  BY DEF Queue, HasRoom, config
<1>2. /\ now \in Nat /\ delay \in Nat /\ grace \in Nat /\ MaxTimestamp \in Nat
      /\ MaxGracePeriod \in Nat /\ now + delay \in 0 .. MaxTimestamp
      /\ minDelay \in Nat /\ minDelay > 0 /\ now + delay > now
      /\ maxPending \in Nat
  <2>1. now \in Nat /\ MaxTimestamp \in Nat /\ minDelay \in Nat /\ delay \in Nat /\ grace \in Nat
    BY WidthAssumption, InputAssumption DEF TypeOK
  <2>2. minDelay > 0
    BY <1>1, NoAdminAssumption DEF Configured
  <2> QED
    BY <1>1, <2>1, <2>2, WidthAssumption DEF TypeOK
<1>3. PICK id \in OpIds : id = [description |-> description, target |-> target, eta |-> now + delay]
  BY <1>2 DEF OpIds
<1>4. PICK op \in Ops :
        /\ ~op.executed /\ ~op.cancelled /\ op.eta = id.eta
        /\ op = [proposer |-> caller, description |-> description, target |-> target,
                 eta |-> now + delay, grace |-> grace, executed |-> FALSE, cancelled |-> FALSE]
  <2>1. [proposer |-> caller, description |-> description, target |-> target,
         eta |-> now + delay, grace |-> grace, executed |-> FALSE, cancelled |-> FALSE] \in Ops
    BY <1>1, <1>2 DEF Ops
  <2> QED
    BY <1>3, <2>1
<1>41. /\ id \notin DOMAIN ops /\ id \notin ds /\ ds \subseteq DOMAIN ops /\ ds \subseteq OpIds
       /\ ops' = Put(ops, id, op)
       /\ deps' = IF ds = {} THEN deps ELSE Put(deps, id, ds)
       /\ pending' = Append(pending, id)
  BY <1>3, <1>4 DEF Queue, DepSets
<1>5. /\ DOMAIN ops' = DOMAIN ops \cup {id}
      /\ ops'[id] = op
      /\ \A i \in DOMAIN ops : ops'[i] = ops[i]
  BY <1>1, <1>41 DEF Put
<1>6. /\ DOMAIN deps' \subseteq DOMAIN ops'
      /\ LoadDeps(id)' = ds
      /\ \A i \in DOMAIN ops : LoadDeps(i)' = LoadDeps(i)
  BY <1>1, <1>41, <1>5 DEF Put, LoadDeps, TypeOK
<1>7. /\ pending' \in Seq(OpIds) /\ Len(pending') = Len(pending) + 1
      /\ Range(pending') = Range(pending) \cup {id}
      /\ id \notin Range(pending) /\ IsInjective(pending')
      /\ Len(pending) \in Nat
  <2>1. id \notin Range(pending)
    BY <1>1, <1>41 DEF IndexesMatchOps
  <2> QED
    BY <1>1, <1>41, <1>3, <1>4, <2>1, AppendElements DEF TypeOK, IndexesMatchOps
<1>8. /\ Pending(id)'
      /\ \A i \in DOMAIN ops : /\ Pending(i)' <=> Pending(i)
                               /\ Live(i)' <=> Live(i)
  BY <1>1, <1>41, <1>4, <1>5 DEF Pending, Live, IsExpired
<1>10. TypeOK'
  <2>1. ops' \in [DOMAIN ops' -> Ops]
    BY <1>1, <1>41, <1>3, <1>4, <1>5 DEF TypeOK, Put
  <2>2. deps' \in [DOMAIN deps' -> SUBSET OpIds]
    BY <1>1, <1>41, <1>3 DEF TypeOK, Put
  <2> QED
    BY <1>1, <1>41, <1>3, <1>4, <1>5, <1>6, <1>7, <2>1, <2>2 DEF TypeOK
<1>11. Configured'
  BY <1>1, <1>41, NoAdminAssumption DEF Configured
<1>12. IndexesMatchOps'
  <2>1. {i \in DOMAIN ops' : Pending(i)'} = {i \in DOMAIN ops : Pending(i)} \cup {id}
    BY <1>5, <1>8
  <2>2. {i \in DOMAIN ops' : ~Pending(i)'} = {i \in DOMAIN ops : ~Pending(i)}
    BY <1>5, <1>8
  <2> QED
    BY <1>1, <1>41, <1>7, <2>1, <2>2 DEF IndexesMatchOps
<1>13. EtaOfId'
  BY <1>4, <1>5 DEF EtaOfId
<1>14. LiveDepsKept'
  BY <1>1, <1>41, <1>5, <1>6, <1>8 DEF LiveDepsKept
<1>15. DepsPrecede'
  <2> SUFFICES ASSUME NEW i \in DOMAIN pending', Live(pending[i])',
                      NEW j \in DOMAIN pending', pending'[j] \in LoadDeps(pending[i])'
               PROVE  j < i
    BY DEF DepsPrecede
  <2>1. /\ DOMAIN pending = 1 .. Len(pending) /\ DOMAIN pending' = 1 .. Len(pending) + 1
        /\ \A k \in 1 .. Len(pending) : pending'[k] = pending[k] /\ pending[k] \in DOMAIN ops
        /\ pending'[Len(pending) + 1] = id
    BY <1>1, <1>41, <1>3, <1>4, <1>7 DEF TypeOK, IndexesMatchOps, Range
  <2>2. CASE i = Len(pending) + 1
    BY <1>1, <1>41, <1>6, <1>7, <2>1, <2>2
  <2>3. CASE i \in 1 .. Len(pending)
    <3>1. pending'[j] \in DOMAIN ops
      BY <1>6, <1>8, <2>1, <2>3 DEF LiveDepsKept
    <3>2. j \in 1 .. Len(pending)
      BY <1>1, <1>41, <1>7, <2>1, <3>1
    <3> QED
      BY <1>6, <1>8, <2>1, <2>3, <3>2 DEF DepsPrecede
  <2> QED
    BY <1>7, <2>1, <2>2, <2>3
<1>16. PendingWithinCap'
  BY <1>1, <1>41, <1>2, <1>7 DEF PendingWithinCap
<1>17. ExecutedWasDue'
  <2>1. Executed' = Executed
    BY <1>4, <1>5 DEF Executed
  <2> QED
    BY <1>1, <1>41, <1>5, <2>1 DEF ExecutedWasDue, Executed
<1> QED
  BY <1>10, <1>11, <1>12, <1>13, <1>14, <1>15, <1>16, <1>17

\* cancel and execute: what they share.  rec is the operation they store.
LEMMA FinalizeStep ==
    ASSUME IInv,
           NEW id \in DOMAIN ops, Pending(id),
           NEW rec \in Ops, rec.eta = ops[id].eta, rec.executed \/ rec.cancelled,
           rec.executed => ops[id].eta <= now /\ ~rec.cancelled,
           ops' = [ops EXCEPT ![id] = rec],
           Finalize(id)
    PROVE  IInv'
<1> USE DEF IInv
<1>1. /\ pending' = Without(pending, {id}) /\ finalized' = Append(finalized, id)
      /\ now' = now /\ admin' = admin /\ minDelay' = minDelay /\ maxPending' = maxPending
      /\ deps' = deps
  BY DEF Finalize, config
<1>2. /\ id \in OpIds /\ DOMAIN ops' = DOMAIN ops /\ ops'[id] = rec
      /\ \A i \in DOMAIN ops : i # id => ops'[i] = ops[i]
      /\ ops' \in [DOMAIN ops' -> Ops]
  BY DEF TypeOK
<1>3. \A i : LoadDeps(i)' = LoadDeps(i)
  BY <1>1 DEF LoadDeps
<1>4. /\ ~Pending(id)' /\ ~Live(id)'
      /\ \A i \in DOMAIN ops : i # id => /\ Pending(i)' <=> Pending(i)
                                         /\ Live(i)' <=> Live(i)
  BY <1>1, <1>2 DEF Pending, Live, IsExpired
<1>5. /\ pending' \in Seq(OpIds) /\ Range(pending') = Range(pending) \ {id}
      /\ IsInjective(pending')
  BY <1>1, WithoutElements DEF TypeOK, IndexesMatchOps
<1>6. /\ finalized' \in Seq(OpIds) /\ Range(finalized') = Range(finalized) \cup {id}
      /\ IsInjective(finalized')
  <2>1. id \notin Range(finalized)
    BY DEF IndexesMatchOps
  <2> QED
    BY <1>1, <1>2, <2>1, AppendElements DEF TypeOK, IndexesMatchOps
<1>10. TypeOK'
  BY <1>1, <1>2, <1>5, <1>6 DEF TypeOK
<1>11. Configured'
  BY <1>1, <1>2 DEF Configured
<1>12. IndexesMatchOps'
  <2>1. {i \in DOMAIN ops' : Pending(i)'} = {i \in DOMAIN ops : Pending(i)} \ {id}
    BY <1>2, <1>4
  <2>2. {i \in DOMAIN ops' : ~Pending(i)'} = {i \in DOMAIN ops : ~Pending(i)} \cup {id}
    BY <1>2, <1>4
  <2> QED
    BY <1>5, <1>6, <2>1, <2>2 DEF IndexesMatchOps
<1>13. EtaOfId'
  BY <1>2 DEF EtaOfId
<1>14. LiveDepsKept'
  BY <1>2, <1>3, <1>4 DEF LiveDepsKept
<1>15. DepsPrecede'
  <2> SUFFICES ASSUME NEW i \in DOMAIN pending', Live(pending[i])',
                      NEW j \in DOMAIN pending', pending'[j] \in LoadDeps(pending[i])'
               PROVE  j < i
    BY DEF DepsPrecede
  <2>1. pending \in Seq(OpIds)
    BY DEF TypeOK
  <2>2. PICK a \in DOMAIN pending, b \in DOMAIN pending :
          pending'[j] = pending[a] /\ pending'[i] = pending[b] /\ (a < b => j < i)
    BY <1>1, <2>1, WithoutOrder
  <2>3. pending[b] \in DOMAIN ops /\ pending[b] # id
    BY <1>5, <2>2 DEF IndexesMatchOps, Range
  <2>4. Live(pending[b]) /\ pending[a] \in LoadDeps(pending[b])
    BY <1>3, <1>4, <2>2, <2>3
  <2> QED
    BY <2>2, <2>4 DEF DepsPrecede
<1>16. PendingWithinCap'
  <2>1. Len(pending') <= Len(pending)
    BY <1>1, WithoutLen DEF TypeOK
  <2>2. Len(pending') \in Nat /\ Len(pending) \in Nat /\ maxPending \in Nat
    BY <1>5 DEF TypeOK
  <2> QED
    BY <1>1, <2>1, <2>2 DEF PendingWithinCap
<1>17. ExecutedWasDue'
  <2>1. ASSUME NEW i \in Executed'
        PROVE  i.eta <= now /\ ~ops'[i].cancelled
    <3>1. CASE i = id
      BY <1>2, <2>1, <3>1 DEF Executed, EtaOfId
    <3>2. CASE i # id
      <4>1. ops'[i] = ops[i] /\ i \in DOMAIN ops /\ ops'[i].executed
        BY <1>2, <2>1, <3>2 DEF Executed
      <4> QED
        BY <4>1 DEF Executed, ExecutedWasDue
    <3> QED
      BY <3>1, <3>2
  <2> QED
    BY <1>1, <2>1 DEF ExecutedWasDue
<1> QED
  BY <1>10, <1>11, <1>12, <1>13, <1>14, <1>15, <1>16, <1>17

LEMMA CancelStep ==
    ASSUME IInv, NEW caller, NEW id \in OpIds,
           Cancel(caller, id)
    PROVE  IInv'
<1>1. id \in DOMAIN ops /\ Pending(id)
  BY DEF Cancel, Pending
<1>2. PICK rec : rec = [ops[id] EXCEPT !.cancelled = TRUE]
  OBVIOUS
<1>3. ops[id] \in Ops
  BY <1>1, OpTypes DEF IInv
<1>4. rec \in Ops /\ rec.eta = ops[id].eta /\ rec.cancelled /\ ~rec.executed
  BY <1>1, <1>2, <1>3 DEF Ops, Pending
<1>5. ops' = [ops EXCEPT ![id] = rec] /\ Finalize(id)
  BY <1>2 DEF Cancel
<1> QED
  BY <1>1, <1>4, <1>5, FinalizeStep

LEMMA ExecuteStep ==
    ASSUME IInv, NEW caller, NEW id \in OpIds,
           Execute(caller, id)
    PROVE  IInv'
<1>1. id \in DOMAIN ops /\ Pending(id)
  BY DEF Execute, Pending
<1>2. PICK rec : rec = [ops[id] EXCEPT !.executed = TRUE]
  OBVIOUS
<1>3. ops[id] \in Ops /\ ops[id].eta \in Nat /\ now \in Nat
  BY <1>1, OpTypes, WidthAssumption DEF IInv, TypeOK
<1>4. rec \in Ops /\ rec.eta = ops[id].eta /\ rec.executed
  BY <1>1, <1>2, <1>3 DEF Ops, Pending
<1>41. rec.cancelled = ops[id].cancelled /\ ~rec.cancelled
  BY <1>1, <1>2, <1>3 DEF Ops, Pending
<1>5. ops' = [ops EXCEPT ![id] = rec] /\ Finalize(id) /\ ops[id].eta <= now
  BY <1>2, <1>3 DEF Execute, Due
<1> QED
  BY <1>1, <1>4, <1>41, <1>5, FinalizeStep

\* update_description: nothing but the stored description changes.
LEMMA UpdateDescriptionStep ==
    ASSUME IInv, NEW caller, NEW id \in OpIds,
           NEW description \in Descriptions, UpdateDescription(caller, id, description)
    PROVE  IInv'
<1> USE DEF IInv
<1>1. /\ id \in DOMAIN ops /\ ops' = [ops EXCEPT ![id].description = description]
      /\ now' = now /\ admin' = admin /\ minDelay' = minDelay /\ maxPending' = maxPending
      /\ deps' = deps /\ pending' = pending /\ finalized' = finalized
  BY DEF UpdateDescription, Pending, config
<1>2. ops[id] \in Ops
  BY <1>1, OpTypes
<1>3. /\ DOMAIN ops' = DOMAIN ops /\ ops' \in [DOMAIN ops -> Ops]
      /\ \A i \in DOMAIN ops : /\ ops'[i].eta = ops[i].eta /\ ops'[i].grace = ops[i].grace
                               /\ ops'[i].executed = ops[i].executed
                               /\ ops'[i].cancelled = ops[i].cancelled
  BY <1>1, <1>2 DEF TypeOK, Ops
<1>4. \A i : LoadDeps(i)' = LoadDeps(i)
  BY <1>1 DEF LoadDeps
<1>5. \A i : (Pending(i)' <=> Pending(i)) /\ (Live(i)' <=> Live(i))
  BY <1>1, <1>3 DEF Pending, Live, IsExpired
<1>10. TypeOK'
  BY <1>1, <1>3 DEF TypeOK
<1>11. Configured' /\ EtaOfId' /\ PendingWithinCap'
  BY <1>1, <1>3 DEF Configured, EtaOfId, PendingWithinCap
<1>12. IndexesMatchOps'
  BY <1>1, <1>3, <1>5 DEF IndexesMatchOps
<1>13. LiveDepsKept' /\ DepsPrecede'
  BY <1>1, <1>3, <1>4, <1>5 DEF LiveDepsKept, DepsPrecede
<1>14. ExecutedWasDue'
  <2>1. Executed' = Executed
    BY <1>3 DEF Executed
  <2> QED
    BY <1>1, <1>3, <2>1 DEF ExecutedWasDue, Executed
<1> QED
  BY <1>10, <1>11, <1>12, <1>13, <1>14

\* cleanup_expired: what goes is neither live nor needed by a live operation.
LEMMA CleanupStep ==
    ASSUME IInv, NEW limit \in Limits,
           CleanupExpired(limit)
    PROVE  IInv'
<1> USE DEF IInv
<1>1. PICK expired, freed :
        /\ expired \subseteq Range(pending) /\ \A i \in expired : PendingGarbage(i)
        /\ freed \subseteq Range(finalized) /\ \A i \in freed : i \notin Referenced
        /\ ops' = Delete(ops, expired \cup freed)
        /\ deps' = Delete(deps, expired \cup freed)
        /\ pending' = Without(pending, expired)
        /\ finalized' = Without(finalized, freed)
  <2> DEFINE R1 == FirstOf(pending, PendingGarbage, limit)
             R2 == FirstOf(finalized, LAMBDA id : id \notin Referenced,
                           limit - Cardinality(R1))
  <2>1. /\ ops' = Delete(ops, R1 \cup R2) /\ deps' = Delete(deps, R1 \cup R2)
        /\ pending' = Without(pending, R1) /\ finalized' = Without(finalized, R2)
    BY DEF CleanupExpired, RemoveOpStorage
  <2>2. R1 \subseteq Range(pending) /\ \A i \in R1 : PendingGarbage(i)
    <3>1. DOMAIN pending = 1 .. Len(pending)
      BY DEF TypeOK
    <3>2. \A i \in R1 : \E j \in 1 .. Len(pending) : i = pending[j] /\ PendingGarbage(pending[j])
      BY DEF FirstOf
    <3> HIDE DEF R1
    <3> QED
      BY <3>1, <3>2 DEF Range
  <2>3. R2 \subseteq Range(finalized) /\ \A i \in R2 : i \notin Referenced
    <3>1. DOMAIN finalized = 1 .. Len(finalized)
      BY DEF TypeOK
    <3>2. \A i \in R2 : \E j \in 1 .. Len(finalized) : i = finalized[j] /\ finalized[j] \notin Referenced
      BY DEF FirstOf
    <3> HIDE DEF R2
    <3> QED
      BY <3>1, <3>2 DEF Range
  <2> HIDE DEF R1, R2
  <2> QED
    BY <2>1, <2>2, <2>3
<1>2. now' = now /\ admin' = admin /\ minDelay' = minDelay /\ maxPending' = maxPending
  BY DEF CleanupExpired, RemoveOpStorage, config
<1>3. /\ DOMAIN ops' = DOMAIN ops \ (expired \cup freed)
      /\ \A i \in DOMAIN ops' : ops'[i] = ops[i]
      /\ DOMAIN deps' = DOMAIN deps \ (expired \cup freed)
      /\ \A i \in DOMAIN ops' : LoadDeps(i)' = LoadDeps(i)
  BY <1>1 DEF Delete, LoadDeps
<1>4. \A i \in DOMAIN ops' : (Pending(i)' <=> Pending(i)) /\ (Live(i)' <=> Live(i))
  BY <1>2, <1>3 DEF Pending, Live, IsExpired
<1>5. /\ pending' \in Seq(OpIds) /\ Range(pending') = Range(pending) \ expired
      /\ IsInjective(pending')
  BY <1>1, WithoutElements DEF TypeOK, IndexesMatchOps
<1>6. /\ finalized' \in Seq(OpIds) /\ Range(finalized') = Range(finalized) \ freed
      /\ IsInjective(finalized')
  BY <1>1, WithoutElements DEF TypeOK, IndexesMatchOps
<1>10. TypeOK'
  <2>1. ops' \in [DOMAIN ops' -> Ops]
    BY <1>1, <1>3 DEF TypeOK, Delete
  <2>2. deps' \in [DOMAIN deps' -> SUBSET OpIds]
    BY <1>1, <1>3 DEF TypeOK, Delete
  <2> QED
    BY <1>2, <1>3, <1>5, <1>6, <2>1, <2>2 DEF TypeOK
<1>11. Configured'
  BY <1>2, <1>3 DEF Configured
<1>12. IndexesMatchOps'
  <2>1. Range(pending') = {i \in DOMAIN ops' : Pending(i)'}
    BY <1>1, <1>3, <1>4, <1>5 DEF IndexesMatchOps
  <2>2. Range(finalized') = {i \in DOMAIN ops' : ~Pending(i)'}
    BY <1>1, <1>3, <1>4, <1>6 DEF IndexesMatchOps
  <2> QED
    BY <1>5, <1>6, <2>1, <2>2 DEF IndexesMatchOps
<1>13. EtaOfId'
  BY <1>3 DEF EtaOfId
<1>14. LiveDepsKept'
  <2> SUFFICES ASSUME NEW i \in DOMAIN ops', Live(i)', NEW d \in LoadDeps(i)'
               PROVE  d \in DOMAIN ops'
    BY DEF LiveDepsKept
  <2>1. i \in DOMAIN ops /\ Live(i) /\ d \in LoadDeps(i) /\ d \in DOMAIN ops
    BY <1>3, <1>4 DEF LiveDepsKept
  <2>2. i \in Range(pending)
    BY <2>1 DEF IndexesMatchOps, Live
  <2>3. d \in Referenced
    BY <2>1, <2>2 DEF Referenced
  <2>4. d \notin expired /\ d \notin freed
    BY <1>1, <2>1, <2>3 DEF PendingGarbage
  <2> QED
    BY <1>3, <2>1, <2>4
<1>15. DepsPrecede'
  <2> SUFFICES ASSUME NEW i \in DOMAIN pending', Live(pending[i])',
                      NEW j \in DOMAIN pending', pending'[j] \in LoadDeps(pending[i])'
               PROVE  j < i
    BY DEF DepsPrecede
  <2>1. pending \in Seq(OpIds)
    BY DEF TypeOK
  <2>2. PICK a \in DOMAIN pending, b \in DOMAIN pending :
          pending'[j] = pending[a] /\ pending'[i] = pending[b] /\ (a < b => j < i)
    BY <1>1, <2>1, WithoutOrder
  <2>3. pending[b] \in DOMAIN ops'
    BY <1>12, <2>2 DEF IndexesMatchOps, Range
  <2>4. Live(pending[b]) /\ pending[a] \in LoadDeps(pending[b])
    BY <1>3, <1>4, <2>2, <2>3
  <2> QED
    BY <2>2, <2>4 DEF DepsPrecede
<1>16. PendingWithinCap'
  <2>1. Len(pending') <= Len(pending)
    BY <1>1, WithoutLen DEF TypeOK
  <2>2. Len(pending') \in Nat /\ Len(pending) \in Nat /\ maxPending \in Nat
    BY <1>5 DEF TypeOK
  <2> QED
    BY <1>2, <2>1, <2>2 DEF PendingWithinCap
<1>17. ExecutedWasDue'
  <2>1. Executed' \subseteq Executed
    BY <1>3 DEF Executed
  <2> QED
    BY <1>2, <1>3, <2>1 DEF ExecutedWasDue, Executed
<1> QED
  BY <1>10, <1>11, <1>12, <1>13, <1>14, <1>15, <1>16, <1>17

\* initialize, set_min_delay, transfer_admin: operations are left alone.
LEMMA ConfigStep ==
    ASSUME IInv,
           UNCHANGED <<now, ops, deps, pending, finalized>>,
           admin' \in Addresses, minDelay' \in Nat \ {0}, maxPending' \in Nat,
           pending # << >> => maxPending' = maxPending
    PROVE  IInv'
<1> USE DEF IInv
<1>1. \A i : /\ LoadDeps(i)' = LoadDeps(i)
             /\ Pending(i)' <=> Pending(i)
             /\ Live(i)' <=> Live(i)
  BY DEF LoadDeps, Pending, Live, IsExpired
<1>2. TypeOK' /\ Configured' /\ EtaOfId'
  BY NoAdminAssumption DEF TypeOK, Configured, EtaOfId
<1>3. IndexesMatchOps' /\ LiveDepsKept' /\ DepsPrecede'
  BY <1>1 DEF IndexesMatchOps, LiveDepsKept, DepsPrecede
<1>4. PendingWithinCap'
  <2>1. CASE pending = << >>
    BY <2>1 DEF PendingWithinCap
  <2>2. CASE pending # << >>
    BY <2>2 DEF PendingWithinCap
  <2> QED
    BY <2>1, <2>2
<1>5. ExecutedWasDue'
  BY DEF ExecutedWasDue, Executed
<1> QED
  BY <1>2, <1>3, <1>4, <1>5

\* The clock: an expired operation stays expired.
LEMMA TickStep ==
    ASSUME IInv, Tick
    PROVE  IInv'
<1> USE DEF IInv
<1>1. /\ now \in Nat /\ now' > now /\ now' \in 0 .. MaxTimestamp
      /\ admin' = admin /\ minDelay' = minDelay /\ maxPending' = maxPending
      /\ ops' = ops /\ deps' = deps /\ pending' = pending /\ finalized' = finalized
  BY WidthAssumption DEF Tick, config, TypeOK
<1>2. \A i \in DOMAIN ops : ops[i].eta + ops[i].grace \in Nat
  BY OpTypes
<1>3. \A i : /\ LoadDeps(i)' = LoadDeps(i)
             /\ Pending(i)' <=> Pending(i)
             /\ Live(i)' => Live(i)
  BY <1>1, <1>2, WidthAssumption DEF LoadDeps, Pending, Live, IsExpired
<1>4. TypeOK' /\ Configured' /\ EtaOfId' /\ PendingWithinCap'
  BY <1>1 DEF TypeOK, Configured, EtaOfId, PendingWithinCap
<1>5. IndexesMatchOps'
  BY <1>1, <1>3 DEF IndexesMatchOps
<1>6. LiveDepsKept' /\ DepsPrecede'
  BY <1>1, <1>3 DEF LiveDepsKept, DepsPrecede
<1>7. ExecutedWasDue'
  <2>1. Executed' = Executed
    BY <1>1 DEF Executed
  <2>2. \A id \in DOMAIN ops : id.eta \in Int
    BY OpTypes DEF OpIds
  <2> QED
    BY <1>1, <2>1, <2>2 DEF ExecutedWasDue, Executed
<1> QED
  BY <1>4, <1>5, <1>6, <1>7

\* Every step preserves IInv.
LEMMA NextIInv == IInv /\ [Next]_vars => IInv'
<1> SUFFICES ASSUME IInv, [Next]_vars PROVE IInv'
  OBVIOUS
<1>0. CASE UNCHANGED vars
  <2> USE <1>0 DEF vars, config
  <2>1. TypeOK' /\ Configured' /\ EtaOfId' /\ PendingWithinCap'
    BY DEF IInv, TypeOK, Configured, EtaOfId, PendingWithinCap
  <2>2. \A i : /\ LoadDeps(i)' = LoadDeps(i)
               /\ Pending(i)' <=> Pending(i)
               /\ Live(i)' <=> Live(i)
    BY DEF LoadDeps, Pending, Live, IsExpired
  <2>3. IndexesMatchOps' /\ LiveDepsKept' /\ DepsPrecede'
    BY <2>2 DEF IInv, IndexesMatchOps, LiveDepsKept, DepsPrecede
  <2>4. ExecutedWasDue'
    BY DEF IInv, ExecutedWasDue, Executed
  <2> QED
    BY <2>1, <2>3, <2>4 DEF IInv
<1>1. CASE Next
  <2>1. ASSUME NEW a \in Addresses, NEW delay \in Delays, NEW cap \in PendingCaps,
               Initialize(a, delay, cap)
        PROVE  IInv'
    <3>1. pending = << >>
      <4>1. Range(pending) = {} /\ pending \in Seq(OpIds)
        BY <2>1 DEF Initialize, IInv, Configured, IndexesMatchOps, TypeOK
      <4>2. \A i \in 1 .. Len(pending) : pending[i] \in Range(pending)
        BY <4>1 DEF Range
      <4> QED
        BY <4>1, <4>2
    <3> QED
      BY <2>1, <3>1, ConfigStep, InputAssumption DEF Initialize
  <2>2. ASSUME NEW a \in Addresses, NEW d \in Descriptions, NEW t \in Targets,
               NEW delay \in Delays, NEW grace \in Graces, NEW ds \in DepSets,
               Queue(a, d, t, delay, grace, ds)
        PROVE  IInv'
    BY <2>2, QueueStep
  <2>3. ASSUME NEW a \in Addresses, NEW id \in OpIds, Cancel(a, id)
        PROVE  IInv'
    BY <2>3, CancelStep
  <2>4. ASSUME NEW a \in Addresses, NEW id \in OpIds, Execute(a, id)
        PROVE  IInv'
    BY <2>4, ExecuteStep
  <2>5. ASSUME NEW a \in Addresses, NEW id \in OpIds, NEW d \in Descriptions,
               UpdateDescription(a, id, d)
        PROVE  IInv'
    BY <2>5, UpdateDescriptionStep
  <2>6. ASSUME Cleanup
        PROVE  IInv'
    BY <2>6, CleanupStep DEF Cleanup
  <2>7. ASSUME NEW a \in Addresses, NEW delay \in Delays, SetMinDelay(a, delay)
        PROVE  IInv'
    BY <2>7, ConfigStep, InputAssumption DEF SetMinDelay, IInv, TypeOK
  <2>8. ASSUME NEW a \in Addresses, NEW b \in Addresses, TransferAdmin(a, b)
        PROVE  IInv'
    BY <2>8, ConfigStep, NoAdminAssumption DEF TransferAdmin, IInv, TypeOK, Configured
  <2>9. ASSUME Tick
        PROVE  IInv'
    BY <2>9, TickStep
  <2> QED
    BY <1>1, <2>1, <2>2, <2>3, <2>4, <2>5, <2>6, <2>7, <2>8, <2>9 DEF Next
<1> QED
  BY <1>0, <1>1

\* The inductive invariant holds of every reachable state: every call of the
\* contract, in any order, keeps indexes, statuses, dependencies and cap in step.
THEOREM IInvHolds == Spec => []IInv
  BY InitIInv, NextIInv, PTL DEF Spec

-----------------------------------------------------------------------------
(* The theorems.                                                           *)

\* Every state of the contract is well typed.
THEOREM TypeCorrect == Spec => []TypeOK
<1>1. IInv => TypeOK
  BY DEF IInv
<1> QED
  BY <1>1, IInvHolds, PTL

\* The pending and finalized indexes always list exactly the stored
\* operations, each once and on the right side.
THEOREM IndexesStayExact == Spec => []IndexesMatchOps
<1>1. IInv => IndexesMatchOps
  BY DEF IInv
<1> QED
  BY <1>1, IInvHolds, PTL

\* Clean-up never takes away what a live operation depends on.
THEOREM LiveDepsSurvive == Spec => []LiveDepsKept
<1>1. IInv => LiveDepsKept
  BY DEF IInv
<1> QED
  BY <1>1, IInvHolds, PTL

\* The cap given to initialize is never exceeded.
THEOREM CapHolds == Spec => []PendingWithinCap
<1>1. IInv => PendingWithinCap
  BY DEF IInv
<1> QED
  BY <1>1, IInvHolds, PTL

\* Live operations never wait for each other in a circle: of any set of them,
\* the one listed first in the pending index depends on none of the others.
THEOREM NoLiveDeadlock == Spec => []NoLiveCycle
<1>1. IInv => NoLiveCycle
  <2> SUFFICES ASSUME IInv, NEW S \in SUBSET {id \in DOMAIN ops : Live(id)}, S # {}
               PROVE  \E id \in S : LoadDeps(id) \cap S = {}
    BY DEF NoLiveCycle
  <2> DEFINE P == {i \in DOMAIN pending : pending[i] \in S}
  <2>1. \A id \in S : \E i \in DOMAIN pending : pending[i] = id
    BY DEF IInv, IndexesMatchOps, Live, Range
  <2>2. P \subseteq Nat /\ P # {}
    BY <2>1 DEF IInv, TypeOK
  <2>3. PICK i \in P : \A j \in P : ~(<<j, i>> \in OpToRel(<, Nat))
    BY <2>2, NatLessThanWellFounded, WFMin
  <2>4. \A j \in P : ~(j < i)
    BY <2>2, <2>3 DEF OpToRel
  <2>5. Live(pending[i]) /\ pending[i] \in S
    OBVIOUS
  <2>6. LoadDeps(pending[i]) \cap S = {}
    <3> SUFFICES ASSUME NEW d \in LoadDeps(pending[i]), d \in S
                 PROVE  FALSE
      OBVIOUS
    <3>1. PICK j \in DOMAIN pending : pending[j] = d
      BY <2>1
    <3>2. j < i
      BY <2>5, <3>1 DEF IInv, DepsPrecede
    <3> QED
      BY <2>4, <3>1, <3>2
  <2> QED
    BY <2>5, <2>6
<1> QED
  BY <1>1, IInvHolds, PTL

-----------------------------------------------------------------------------
(* What the listings say.                                                  *)

\* get_operation_status of an operation neither executed nor cancelled.
LEMMA StatusOfPending ==
    ASSUME NEW id \in DOMAIN ops, Pending(id)
    PROVE  Status(id) = IF ~Live(id) THEN "Expired"
                        ELSE IF HasBlockedDependency(id) THEN "Blocked"
                        ELSE IF Due(id) THEN "Ready" ELSE "Queued"
<1>1. ~ops[id].cancelled /\ ~ops[id].executed
  BY DEF Pending
<1>2. CASE ~Live(id)
  BY <1>1, <1>2 DEF Status
<1>3. CASE Live(id) /\ HasBlockedDependency(id)
  BY <1>1, <1>3 DEF Status
<1>4. CASE Live(id) /\ ~HasBlockedDependency(id)
  BY <1>1, <1>4 DEF Status
<1> QED
  BY <1>2, <1>3, <1>4

\* Past its window without an overflow, an operation has been due.
LEMMA ExpiredWasDue ==
    ASSUME TypeOK, NEW id \in DOMAIN ops, IsExpired(ops[id]), ~Due(id)
    PROVE  ops[id].eta + ops[id].grace > MaxTimestamp
<1>1. ops[id].eta \in Nat /\ ops[id].grace \in Nat /\ now \in Nat /\ MaxTimestamp \in Nat
  BY OpTypes, WidthAssumption DEF TypeOK
<1> QED
  BY <1>1 DEF IsExpired, Due

\* A listing over the pending index holds the pending operations it asks for,
\* and its length is their number.
LEMMA ListingElements ==
    ASSUME IInv, NEW T
    PROVE  /\ Range(Among(pending, T)) = {id \in DOMAIN ops : Pending(id)} \cap T
           /\ Len(Among(pending, T)) = Cardinality({id \in DOMAIN ops : Pending(id)} \cap T)
<1>1. pending \in Seq(OpIds) /\ IsInjective(pending)
  BY DEF IInv, TypeOK, IndexesMatchOps
<1>2. Range(pending) = {id \in DOMAIN ops : Pending(id)}
  BY DEF IInv, IndexesMatchOps
<1> QED
  BY <1>1, <1>2, AmongElements

LEMMA ListedUnderStatus ==
    ASSUME IInv, NEW status \in Statuses
    PROVE  Range(OperationsByStatus(status)) =
             {id \in DOMAIN ops : Pending(id) /\
                 \/ Status(id) = status
                 \/ /\ status = "Queued"
                    /\ ops[id].eta + ops[id].grace > MaxTimestamp
                    /\ ~Due(id) /\ ~HasBlockedDependency(id)}
<1>1. Range(OperationsByStatus(status)) =
        {id \in DOMAIN ops : Pending(id)} \cap {id \in DOMAIN ops : ListedAs(id, status)}
  BY ListingElements DEF OperationsByStatus
<1>2. ASSUME NEW id \in DOMAIN ops, Pending(id)
      PROVE  ListedAs(id, status) <=>
                 \/ Status(id) = status
                 \/ /\ status = "Queued"
                    /\ ops[id].eta + ops[id].grace > MaxTimestamp
                    /\ ~Due(id) /\ ~HasBlockedDependency(id)
  <2>1. /\ ~ops[id].cancelled /\ ~ops[id].executed
        /\ Live(id) <=> ~IsExpired(ops[id])
    BY <1>2 DEF Pending, Live
  <2>2. Status(id) = IF ~Live(id) THEN "Expired"
                     ELSE IF HasBlockedDependency(id) THEN "Blocked"
                     ELSE IF Due(id) THEN "Ready" ELSE "Queued"
    BY <1>2, StatusOfPending
  <2>3. IsExpired(ops[id]) /\ ~Due(id) => ops[id].eta + ops[id].grace > MaxTimestamp
    BY ExpiredWasDue DEF IInv
  <2>4. ops[id].eta + ops[id].grace > MaxTimestamp => IsExpired(ops[id])
    BY DEF IsExpired
  <2> QED
    BY <1>2, <2>1, <2>2, <2>3, <2>4 DEF ListedAs, Statuses
<1> QED
  BY <1>1, <1>2

\* The count's reading of a status selects what the listing's does.
LEMMA CountedAsListed ==
    \A status : OperationCountByStatus(status) = Len(OperationsByStatus(status))
<1>1. \A status : \A id \in DOMAIN ops : CountedAs(id, status) <=> ListedAs(id, status)
  BY DEF CountedAs, ListedAs, Live
<1>2. \A status : {id \in DOMAIN ops : CountedAs(id, status)}
                    = {id \in DOMAIN ops : ListedAs(id, status)}
  BY <1>1
<1> QED
  BY <1>2 DEF OperationCountByStatus, OperationsByStatus

\* get_pending_operations returns as many operations as are ready, blocked or
\* queued.
LEMMA LiveOnesCounted ==
    ASSUME IInv
    PROVE  Len(PendingOperations) =
             OperationCountByStatus("Ready") + OperationCountByStatus("Blocked")
               + Cardinality({id \in DOMAIN ops : Pending(id) /\ Status(id) = "Queued"})
<1> DEFINE live == {id \in DOMAIN ops : Pending(id)} \cap {id \in DOMAIN ops : Live(id)}
           those(status) == {id \in DOMAIN ops : Pending(id) /\ Status(id) = status}
<1>1. Len(PendingOperations) = Cardinality(live)
  BY ListingElements DEF PendingOperations
<1>2. ASSUME NEW status \in {"Ready", "Blocked"}
      PROVE  OperationCountByStatus(status) = Cardinality(those(status))
  <2>1. OperationCountByStatus(status) =
          Cardinality({id \in DOMAIN ops : Pending(id)} \cap {id \in DOMAIN ops : ListedAs(id, status)})
    BY ListingElements, CountedAsListed DEF OperationsByStatus
  <2>2. ASSUME NEW id \in DOMAIN ops, Pending(id)
        PROVE  ListedAs(id, status) <=> Status(id) = status
    BY <2>2, StatusOfPending DEF ListedAs, Pending, Live
  <2>3. {id \in DOMAIN ops : Pending(id)} \cap {id \in DOMAIN ops : ListedAs(id, status)}
          = those(status)
    BY <2>2
  <2> QED
    BY <2>1, <2>3
<1>3. live = those("Ready") \cup those("Blocked") \cup those("Queued")
  <2>1. ASSUME NEW id \in DOMAIN ops, Pending(id)
        PROVE  Live(id) <=> Status(id) \in {"Ready", "Blocked", "Queued"}
    BY <2>1, StatusOfPending
  <2> QED
    BY <2>1
<1>4. IsFiniteSet({id \in DOMAIN ops : Pending(id)})
  <2>1. Range(pending) = {id \in DOMAIN ops : Pending(id)} /\ pending \in Seq(OpIds)
    BY DEF IInv, TypeOK, IndexesMatchOps
  <2> QED
    BY <2>1, RangeFinite
<1>5. \A status : IsFiniteSet(those(status)) /\ those(status) \subseteq {id \in DOMAIN ops : Pending(id)}
  BY <1>4, FS_Subset
<1>6. /\ those("Ready") \cap those("Blocked") = {}
      /\ (those("Ready") \cup those("Blocked")) \cap those("Queued") = {}
  OBVIOUS
<1> HIDE DEF live, those
<1>7. Cardinality(live) = Cardinality(those("Ready")) + Cardinality(those("Blocked"))
                            + Cardinality(those("Queued"))
  <2>1. PICK a, b, c : a = those("Ready") /\ b = those("Blocked") /\ c = those("Queued")
    OBVIOUS
  <2>2. IsFiniteSet(a) /\ IsFiniteSet(b) /\ IsFiniteSet(c)
    BY <1>5, <2>1
  <2>21. a \cap b = {} /\ (a \cup b) \cap c = {}
    BY <1>6, <2>1
  <2>22. live = a \cup b \cup c
    BY <1>3, <2>1
  <2>3. /\ IsFiniteSet(a \cup b \cup c)
        /\ Cardinality(a \cup b) = Cardinality(a) + Cardinality(b)
        /\ Cardinality(a \cup b \cup c) = Cardinality(a) + Cardinality(b) + Cardinality(c)
    BY <2>2, <2>21, DisjointCardinality
  <2> QED
    BY <2>1, <2>22, <2>3
<1> QED
  BY <1>1, <1>2, <1>7 DEF those

\* Every query sees each pending operation under exactly the status that
\* get_operation_status answers, but for the overflow the property names.
THEOREM ListingsStayTrue == Spec => []ListingsAgree
<1>1. IInv => ListingsAgree
  BY ListedUnderStatus, CountedAsListed, LiveOnesCounted DEF ListingsAgree
<1> QED
  BY <1>1, IInvHolds, PTL

-----------------------------------------------------------------------------
(* The life of an operation.                                               *)

\* What every call leaves of the operations it does not remove: the ledger
\* clock and the two flags only rise, only due and unexpired operations whose
\* dependencies are all executed become executed, and the clock does not move
\* when a call is made.
Advances(i) ==
    /\ ops'[i].eta = ops[i].eta /\ ops'[i].grace = ops[i].grace
    /\ LoadDeps(i)' = LoadDeps(i)
    /\ ops[i].executed => ops'[i].executed
    /\ ops[i].cancelled => ops'[i].cancelled
    /\ ops'[i].executed =>
          \/ ops[i].executed
          \/ now' = now /\ Live(i) /\ Due(i) /\ DependenciesExecuted(i)

ClockRises == now' \in Nat /\ now' >= now

LEMMA StepAdvances ==
    ASSUME IInv, [Next]_vars
    PROVE  /\ ClockRises
           /\ \A i \in DOMAIN ops \cap DOMAIN ops' : Advances(i)
<1>0. now \in Nat
  BY WidthAssumption DEF IInv, TypeOK
<1>1. ASSUME UNCHANGED <<now, ops, deps>>
      PROVE  /\ ClockRises
             /\ \A i \in DOMAIN ops \cap DOMAIN ops' : Advances(i)
  BY <1>0, <1>1 DEF ClockRises, Advances, LoadDeps
<1>2. CASE UNCHANGED vars
  BY <1>1, <1>2 DEF vars
<1>3. ASSUME NEW a \in Addresses, NEW delay \in Delays, NEW cap \in PendingCaps,
             Initialize(a, delay, cap)
      PROVE  UNCHANGED <<now, ops, deps>>
  BY <1>3 DEF Initialize
<1>4. ASSUME NEW a \in Addresses, NEW delay \in Delays, SetMinDelay(a, delay)
      PROVE  UNCHANGED <<now, ops, deps>>
  BY <1>4 DEF SetMinDelay
<1>5. ASSUME NEW a \in Addresses, NEW b \in Addresses, TransferAdmin(a, b)
      PROVE  UNCHANGED <<now, ops, deps>>
  BY <1>5 DEF TransferAdmin
<1>6. ASSUME NEW a \in Addresses, NEW d \in Descriptions, NEW t \in Targets,
             NEW delay \in Delays, NEW grace \in Graces, NEW ds \in DepSets,
             Queue(a, d, t, delay, grace, ds)
      PROVE  ClockRises /\ \A i \in DOMAIN ops \cap DOMAIN ops' : Advances(i)
  <2>1. PICK id, op : /\ id \notin DOMAIN ops /\ ops' = Put(ops, id, op)
                      /\ deps' = IF ds = {} THEN deps ELSE Put(deps, id, ds)
                      /\ now' = now
    BY <1>6 DEF Queue
  <2>2. \A i \in DOMAIN ops : ops'[i] = ops[i] /\ LoadDeps(i)' = LoadDeps(i)
    BY <2>1 DEF Put, LoadDeps
  <2> QED
    BY <1>0, <2>1, <2>2 DEF ClockRises, Advances
<1>7. ASSUME NEW a \in Addresses, NEW id \in OpIds, Cancel(a, id)
      PROVE  ClockRises /\ \A i \in DOMAIN ops \cap DOMAIN ops' : Advances(i)
  <2>1. /\ id \in DOMAIN ops /\ ops' = [ops EXCEPT ![id].cancelled = TRUE]
        /\ now' = now /\ deps' = deps
    BY <1>7 DEF Cancel, Finalize, Pending
  <2>2. ops[id] \in Ops
    BY <2>1, OpTypes DEF IInv
  <2>3. \A i \in DOMAIN ops : /\ ops'[i].eta = ops[i].eta /\ ops'[i].grace = ops[i].grace
                              /\ ops'[i].executed = ops[i].executed
                              /\ ops[i].cancelled => ops'[i].cancelled
    BY <2>1, <2>2 DEF Ops
  <2> QED
    BY <1>0, <2>1, <2>3 DEF ClockRises, Advances, LoadDeps
<1>8. ASSUME NEW a \in Addresses, NEW id \in OpIds, Execute(a, id)
      PROVE  ClockRises /\ \A i \in DOMAIN ops \cap DOMAIN ops' : Advances(i)
  <2>1. /\ id \in DOMAIN ops /\ ops' = [ops EXCEPT ![id].executed = TRUE]
        /\ now' = now /\ deps' = deps
        /\ Live(id) /\ Due(id) /\ DependenciesExecuted(id)
    BY <1>8 DEF Execute, Finalize, Pending, Live
  <2>2. ops[id] \in Ops
    BY <2>1, OpTypes DEF IInv
  <2>3. \A i \in DOMAIN ops : /\ ops'[i].eta = ops[i].eta /\ ops'[i].grace = ops[i].grace
                              /\ ops[i].executed => ops'[i].executed
                              /\ ops'[i].executed => ops[i].executed \/ i = id
                              /\ ops'[i].cancelled = ops[i].cancelled
    BY <2>1, <2>2 DEF Ops
  <2> QED
    BY <1>0, <2>1, <2>3 DEF ClockRises, Advances, LoadDeps
<1>9. ASSUME NEW a \in Addresses, NEW id \in OpIds, NEW d \in Descriptions,
             UpdateDescription(a, id, d)
      PROVE  ClockRises /\ \A i \in DOMAIN ops \cap DOMAIN ops' : Advances(i)
  <2>1. /\ id \in DOMAIN ops /\ ops' = [ops EXCEPT ![id].description = d]
        /\ now' = now /\ deps' = deps
    BY <1>9 DEF UpdateDescription, Pending
  <2>2. ops[id] \in Ops
    BY <2>1, OpTypes DEF IInv
  <2>3. \A i \in DOMAIN ops : /\ ops'[i].eta = ops[i].eta /\ ops'[i].grace = ops[i].grace
                              /\ ops'[i].executed = ops[i].executed
                              /\ ops'[i].cancelled = ops[i].cancelled
    BY <2>1, <2>2 DEF Ops
  <2> QED
    BY <1>0, <2>1, <2>3 DEF ClockRises, Advances, LoadDeps
<1>10. ASSUME Cleanup
       PROVE  ClockRises /\ \A i \in DOMAIN ops \cap DOMAIN ops' : Advances(i)
  <2>1. PICK gone : ops' = Delete(ops, gone) /\ deps' = Delete(deps, gone) /\ now' = now
    BY <1>10 DEF Cleanup, CleanupExpired, RemoveOpStorage
  <2>2. \A i \in DOMAIN ops \cap DOMAIN ops' : ops'[i] = ops[i] /\ LoadDeps(i)' = LoadDeps(i)
    BY <2>1 DEF Delete, LoadDeps
  <2> QED
    BY <1>0, <2>1, <2>2 DEF ClockRises, Advances
<1>11. ASSUME Tick
       PROVE  ClockRises /\ \A i \in DOMAIN ops \cap DOMAIN ops' : Advances(i)
  <2>1. now' \in now + 1 .. MaxTimestamp /\ ops' = ops /\ deps' = deps
    BY <1>11 DEF Tick
  <2>2. ClockRises
    BY <1>0, <2>1, WidthAssumption DEF ClockRises
  <2> QED
    BY <2>1, <2>2 DEF Advances, LoadDeps
<1> QED
  BY <1>1, <1>2, <1>3, <1>4, <1>5, <1>6, <1>7, <1>8, <1>9, <1>10, <1>11 DEF Next

\* What has expired stays expired.
LEMMA ExpiryIsFinal ==
    ASSUME IInv, ClockRises, NEW i \in DOMAIN ops \cap DOMAIN ops', Advances(i),
           IsExpired(ops[i])
    PROVE  IsExpired(ops[i])'
<1>1. ops[i].eta \in Nat /\ ops[i].grace \in Nat /\ now \in Nat /\ MaxTimestamp \in Nat
  BY OpTypes, WidthAssumption DEF IInv, TypeOK
<1> QED
  BY <1>1 DEF ClockRises, Advances, IsExpired

\* An operation that is live after a step was live before it.
LEMMA LiveBefore ==
    ASSUME IInv, ClockRises, NEW i \in DOMAIN ops \cap DOMAIN ops', Advances(i), Live(i)'
    PROVE  Live(i)
  BY ExpiryIsFinal DEF Live, Pending, Advances

\* The operations has_blocked_dependency_at_depth reports when those of B are
\* what it reports with one level less.
BlockedBy(B) ==
    {i \in DOMAIN ops : \E d \in LoadDeps(i) :
        \/ d \notin DOMAIN ops
        \/ ops[d].cancelled
        \/ ~ops[d].executed /\ (IsExpired(ops[d]) \/ d \in B)}

Levels(b) == b[0] = DOMAIN ops /\ \A k \in Nat : b[k + 1] = BlockedBy(b[k])

\* The recursion of has_blocked_dependency, level by level.
LEMMA BlockedLevels ==
    ASSUME NEW id
    PROVE  \E b : /\ Levels(b)
                  /\ HasBlockedDependency(id) <=> id \in b[MaxDependencyDepth + 1]
<1> DEFINE body(b) == [k \in Nat |-> IF k = 0 THEN DOMAIN ops ELSE BlockedBy(b[k - 1])]
<1>1. PICK X : X = SUBSET DOMAIN ops
  OBVIOUS
<1>2. PICK step : step = [k \in Nat |-> [B \in X |-> BlockedBy(B)]]
  OBVIOUS
<1>3. \A B : BlockedBy(B) \in X
  BY <1>1 DEF BlockedBy
<1>4. step \in [Nat -> [X -> X]]
  <2> HIDE DEF BlockedBy
  <2> QED
    BY <1>2, <1>3
<1>5. DOMAIN ops \in X
  BY <1>1
<1>6. PICK f \in [Nat -> X] : IsRun(f, DOMAIN ops, step)
  BY <1>4, <1>5, Steps
<1>7. /\ f[0] = DOMAIN ops
      /\ \A k \in Nat : f[k + 1] = BlockedBy(f[k])
  <2>1. f[0] = DOMAIN ops
    BY <1>6 DEF IsRun
  <2>2. ASSUME NEW k \in Nat
        PROVE  f[k + 1] = BlockedBy(f[k])
    <3>1. f[k + 1] = step[k + 1][f[k]]
      BY <1>6 DEF IsRun
    <3>2. k + 1 \in Nat /\ f[k] \in X
      BY <1>6
    <3> QED
      BY <1>2, <3>1, <3>2
  <2> QED
    BY <2>1, <2>2
<1>8. \A k \in Nat : f[k] = IF k = 0 THEN DOMAIN ops ELSE BlockedBy(f[k - 1])
  <2> SUFFICES ASSUME NEW k \in Nat, k # 0
               PROVE  f[k] = BlockedBy(f[k - 1])
    BY <1>7
  <2>1. k - 1 \in Nat /\ (k - 1) + 1 = k
    OBVIOUS
  <2> QED
    BY <1>7, <2>1
<1>9. f = body(f)
  <2>1. f = [k \in Nat |-> f[k]]
    BY <1>6
  <2> QED
    BY <1>8, <2>1
<1>10. PICK b : b = CHOOSE g : g = body(g)
  OBVIOUS
<1>11. b = body(b)
  <2> HIDE DEF body
  <2> QED
    BY <1>9, <1>10
<1>12. HasBlockedDependency(id) <=> id \in b[MaxDependencyDepth + 1]
  BY <1>10 DEF HasBlockedDependency, BlockedBy
<1>13. Levels(b)
  <2>1. PICK c : c = b
    OBVIOUS
  <2>2. b = body(c)
    BY <1>11, <2>1
  <2>3. b[0] = DOMAIN ops
    BY <2>2
  <2>4. ASSUME NEW k \in Nat
        PROVE  b[k + 1] = BlockedBy(c[k])
    <3>1. k + 1 \in Nat /\ k + 1 # 0 /\ (k + 1) - 1 = k
      OBVIOUS
    <3> QED
      BY <2>2, <3>1
  <2> QED
    BY <2>1, <2>3, <2>4 DEF Levels
<1> QED
  BY <1>12, <1>13

\* An operation is reported as blocked only if some dependency of it is not
\* stored, or cancelled, or not executed.
LEMMA BlockedByOne ==
    ASSUME NEW id, HasBlockedDependency(id)
    PROVE  \E d \in LoadDeps(id) :
              d \notin DOMAIN ops \/ ops[d].cancelled \/ ~ops[d].executed
<1>1. PICK b : Levels(b) /\ id \in b[MaxDependencyDepth + 1]
  BY BlockedLevels
<1>2. b[MaxDependencyDepth + 1] = BlockedBy(b[MaxDependencyDepth])
  BY <1>1, WidthAssumption DEF Levels
<1> QED
  BY <1>1, <1>2 DEF BlockedBy

\* An operation that can never be executed is reported as blocked: where the
\* recursion reports nothing, the operations it goes through are a set closed
\* under unexecuted dependencies without a dependency that is lost.
LEMMA UnfulfillableIsBlocked ==
    \A id \in DOMAIN ops : Unfulfillable(id) => HasBlockedDependency(id)
<1> SUFFICES ASSUME NEW id \in DOMAIN ops, ~HasBlockedDependency(id)
             PROVE  ~Unfulfillable(id)
  OBVIOUS
<1>1. PICK b : Levels(b) /\ id \notin b[MaxDependencyDepth + 1]
  BY BlockedLevels
<1> DEFINE S == {i \in DOMAIN ops : \E k \in Nat : i \notin b[k]}
<1>2. id \in S
  BY <1>1, WidthAssumption
<1>3. ASSUME NEW i \in S, NEW d \in LoadDeps(i)
      PROVE  /\ d \in DOMAIN ops /\ ~ops[d].cancelled
             /\ ~ops[d].executed => ~IsExpired(ops[d]) /\ d \in S
  <2>1. PICK k \in Nat : i \notin b[k]
    OBVIOUS
  <2>2. k # 0
    BY <1>1, <2>1 DEF Levels
  <2>3. k - 1 \in Nat /\ (k - 1) + 1 = k
    BY <2>2
  <2>4. i \notin BlockedBy(b[k - 1])
    BY <1>1, <2>1, <2>3 DEF Levels
  <2> QED
    BY <2>3, <2>4 DEF BlockedBy
<1> HIDE DEF S
<1>4. S \in SUBSET DOMAIN ops
  BY DEF S
<1> QED
  BY <1>2, <1>3, <1>4 DEF Unfulfillable

\* What can never be executed can never be executed after the next step either.
LEMMA UnfulfillableStays ==
    ASSUME IInv, [Next]_vars, NEW id \in DOMAIN ops \cap DOMAIN ops', Live(id)',
           Unfulfillable(id)
    PROVE  Unfulfillable(id)'
<1>0. /\ ClockRises
      /\ \A i \in DOMAIN ops \cap DOMAIN ops' : Advances(i)
  BY StepAdvances
<1>00. ASSUME NEW i \in DOMAIN ops \cap DOMAIN ops'
       PROVE  /\ Live(i)' => Live(i)
              /\ IsExpired(ops[i]) => IsExpired(ops[i])'
  BY <1>0, LiveBefore, ExpiryIsFinal
<1> DEFINE lost(d) == \/ d \notin DOMAIN ops'
                      \/ ops'[d].cancelled
                      \/ ~ops'[d].executed /\ IsExpired(ops[d])'
<1> SUFFICES ASSUME NEW S \in SUBSET DOMAIN ops', id \in S,
                    \A i \in S : \A d \in LoadDeps(i)' :
                        d \in DOMAIN ops' /\ ~ops'[d].executed => d \in S,
                    \A i \in S : \A d \in LoadDeps(i)' : ~lost(d)
             PROVE  FALSE
  BY DEF Unfulfillable
<1> DEFINE waiting == {i \in S : i \in DOMAIN ops /\ Live(i)'}
           served == {i \in DOMAIN ops : DependenciesExecuted(i)}
           T == waiting \cup served
<1>1. id \in T /\ T \in SUBSET DOMAIN ops
  OBVIOUS
<1>2. ASSUME NEW i \in waiting, NEW d \in LoadDeps(i)
      PROVE  /\ d \in DOMAIN ops /\ ~ops[d].cancelled
             /\ ~ops[d].executed => d \in T /\ ~IsExpired(ops[d])
  <2>1. i \in DOMAIN ops \cap DOMAIN ops' /\ Advances(i) /\ Live(i) /\ i \in S
    BY <1>0, <1>00
  <2>2. d \in LoadDeps(i)' /\ d \in DOMAIN ops
    BY <2>1 DEF Advances, IInv, LiveDepsKept
  <2>3. d \in DOMAIN ops' /\ ~lost(d) /\ (~ops'[d].executed => d \in S)
    BY <2>1, <2>2
  <2>4. Advances(d) /\ d \in DOMAIN ops \cap DOMAIN ops'
    BY <1>0, <2>2, <2>3
  <2>5. ~ops[d].cancelled
    BY <2>3, <2>4 DEF Advances
  <2>6. ASSUME ~ops[d].executed, ops'[d].executed
        PROVE  d \in T /\ ~IsExpired(ops[d])
    BY <2>2, <2>4, <2>6 DEF Advances, Live
  <2>7. ASSUME ~ops[d].executed, ~ops'[d].executed
        PROVE  d \in T /\ ~IsExpired(ops[d])
    <3>1. ~IsExpired(ops[d])' /\ ~ops'[d].cancelled /\ d \in S
      BY <2>3, <2>7
    <3>2. Live(d)'
      BY <2>3, <2>7, <3>1 DEF Live, Pending
    <3> QED
      BY <1>00, <2>2, <2>4, <3>1, <3>2
  <2> QED
    BY <2>2, <2>5, <2>6, <2>7
<1>3. ASSUME NEW i \in served, NEW d \in LoadDeps(i)
      PROVE  d \in DOMAIN ops /\ ~ops[d].cancelled /\ ops[d].executed
  <2>1. d \in DOMAIN ops /\ ops[d].executed
    BY DEF DependenciesExecuted
  <2> QED
    BY <2>1 DEF IInv, ExecutedWasDue, Executed
<1> HIDE DEF waiting, served, lost
<1>4. ASSUME NEW i \in T, NEW d \in LoadDeps(i)
      PROVE  /\ d \in DOMAIN ops /\ ~ops[d].cancelled
             /\ ~ops[d].executed => d \in T /\ ~IsExpired(ops[d])
  BY <1>2, <1>3
<1> HIDE DEF T
<1> QED
  BY <1>1, <1>4 DEF Unfulfillable

\* What get_operation_status answers in each case.
Answers(id) ==
    /\ ops[id].cancelled => Status(id) = "Cancelled"
    /\ ~ops[id].cancelled /\ ops[id].executed => Status(id) = "Executed"
    /\ Pending(id) /\ ~Live(id) => Status(id) = "Expired"
    /\ Live(id) /\ HasBlockedDependency(id) => Status(id) = "Blocked"
    /\ Live(id) /\ ~HasBlockedDependency(id) /\ Due(id) => Status(id) = "Ready"
    /\ Live(id) /\ ~HasBlockedDependency(id) /\ ~Due(id) => Status(id) = "Queued"

LEMMA StatusAnswers == \A id \in DOMAIN ops : Answers(id)
<1> SUFFICES ASSUME NEW id \in DOMAIN ops PROVE Answers(id)
  OBVIOUS
<1>1. ops[id].cancelled => Status(id) = "Cancelled"
  BY DEF Status, Pending, Live
<1>2. ~ops[id].cancelled /\ ops[id].executed => Status(id) = "Executed"
  BY DEF Status, Pending, Live
<1>3. Pending(id) => Status(id) = IF ~Live(id) THEN "Expired"
                                  ELSE IF HasBlockedDependency(id) THEN "Blocked"
                                  ELSE IF Due(id) THEN "Ready" ELSE "Queued"
  BY StatusOfPending
<1>4. Live(id) => Pending(id)
  BY DEF Live
<1> QED
  BY <1>1, <1>2, <1>3, <1>4 DEF Answers

\* Statuses change only as the property says.  An operation that can never be
\* executed answers "Blocked" for as long as it is live, for that report finds
\* every lost dependency.
THEOREM StatusesFollowLifecycle == Spec => StatusLifecycle
<1> DEFINE BlockedFound == \A id \in DOMAIN ops : Unfulfillable(id) => HasBlockedDependency(id)
           AllAnswer == \A id \in DOMAIN ops : Answers(id)
           Step == \A id \in DOMAIN ops : id \in DOMAIN ops' => Status(id)' \in Successors(id)
<1>1. BlockedFound
  BY UnfulfillableIsBlocked
<1>2. AllAnswer
  BY StatusAnswers
<1>3. IInv /\ AllAnswer /\ AllAnswer' /\ BlockedFound' /\ [Next]_vars => [Step]_vars
  <2> SUFFICES ASSUME IInv, AllAnswer, AllAnswer', BlockedFound', [Next]_vars,
                      NEW id \in DOMAIN ops, id \in DOMAIN ops'
               PROVE  Status(id)' \in Successors(id)
    OBVIOUS
  <2>1. ClockRises /\ Advances(id)
    BY StepAdvances
  <2>2. /\ IsExpired(ops[id]) => IsExpired(ops[id])'
        /\ Live(id)' => Live(id)
    BY <2>1, ExpiryIsFinal, LiveBefore
  <2>3. /\ Answers(id) /\ Answers(id)'
        /\ Unfulfillable(id)' => HasBlockedDependency(id)'
    OBVIOUS
  <2>4. /\ Live(id) <=> Pending(id) /\ ~IsExpired(ops[id])
        /\ Live(id)' <=> Pending(id)' /\ ~IsExpired(ops[id])'
        /\ Pending(id) <=> ~ops[id].executed /\ ~ops[id].cancelled
        /\ Pending(id)' <=> ~ops'[id].executed /\ ~ops'[id].cancelled
    BY DEF Live, Pending
  <2> HIDE DEF BlockedFound, AllAnswer, Step
  <2>5. \/ Status(id)' \in {"Cancelled", "Executed", "Expired"}
        \/ Live(id)' /\ Status(id)' \in {"Blocked", "Ready", "Queued"}
    BY <2>3, <2>4 DEF Answers
  <2>6. CASE ops[id].cancelled
    <3>1. Status(id) = "Cancelled" /\ Status(id)' = "Cancelled"
      BY <2>1, <2>3, <2>6 DEF Answers, Advances
    <3>2. Successors(id) = {"Cancelled"}
      BY <3>1 DEF Successors
    <3> QED
      BY <3>1, <3>2
  <2>7. CASE ~ops[id].cancelled /\ ops[id].executed
    <3>1. ~ops'[id].cancelled /\ ops'[id].executed
      BY <2>1, <2>7, NextIInv DEF Advances, IInv, ExecutedWasDue, Executed
    <3>2. Status(id) = "Executed" /\ Status(id)' = "Executed"
      BY <2>3, <2>7, <3>1 DEF Answers
    <3>3. Successors(id) = {"Executed"}
      BY <3>2 DEF Successors
    <3> QED
      BY <3>2, <3>3
  <2>8. CASE Pending(id) /\ ~Live(id)
    <3>1. Status(id) = "Expired" /\ ~ops'[id].executed /\ ~Live(id)'
      BY <2>1, <2>2, <2>3, <2>4, <2>8 DEF Answers, Advances
    <3>2. Status(id)' \in {"Expired", "Cancelled"}
      BY <2>3, <2>4, <3>1 DEF Answers
    <3>3. Successors(id) = {"Expired", "Cancelled"}
      BY <3>1 DEF Successors
    <3> QED
      BY <3>2, <3>3
  <2>9. CASE Live(id) /\ HasBlockedDependency(id)
    <3>1. Status(id) = "Blocked"
      BY <2>3, <2>9 DEF Answers
    <3>2. ~ops'[id].executed
      <4>1. PICK d \in LoadDeps(id) :
              d \notin DOMAIN ops \/ ops[d].cancelled \/ ~ops[d].executed
        BY <2>9, BlockedByOne
      <4>2. ~DependenciesExecuted(id)
        BY <4>1 DEF DependenciesExecuted, IInv, ExecutedWasDue, Executed
      <4> QED
        BY <2>1, <2>4, <2>9, <4>2 DEF Advances
    <3>3. Live(id)' /\ Unfulfillable(id) => Status(id)' = "Blocked"
      BY <2>3, UnfulfillableStays DEF Answers
    <3>4. \/ Status(id)' \in {"Cancelled", "Expired", "Blocked"}
          \/ ~Unfulfillable(id) /\ Status(id)' \in {"Queued", "Ready"}
      BY <2>3, <2>4, <2>5, <3>2, <3>3 DEF Answers
    <3>5. Successors(id) = {"Blocked", "Expired", "Cancelled"} \cup
                             IF Unfulfillable(id) THEN {} ELSE {"Queued", "Ready"}
      BY <3>1 DEF Successors
    <3> QED
      BY <3>4, <3>5
  <2>10. CASE Live(id) /\ ~HasBlockedDependency(id) /\ Due(id)
    <3>1. Status(id) = "Ready"
      BY <2>3, <2>10 DEF Answers
    <3>2. Due(id)'
      <4>1. now \in Nat /\ ops[id].eta \in Nat
        BY OpTypes, WidthAssumption DEF IInv, TypeOK
      <4> QED
        BY <2>1, <2>10, <4>1 DEF Due, ClockRises, Advances
    <3>3. Status(id)' \in {"Ready", "Blocked", "Executed", "Expired", "Cancelled"}
      BY <2>3, <2>4, <3>2 DEF Answers
    <3>4. Successors(id) = {"Ready", "Blocked", "Executed", "Expired", "Cancelled"}
      BY <3>1 DEF Successors
    <3> QED
      BY <3>3, <3>4
  <2>11. CASE Live(id) /\ ~HasBlockedDependency(id) /\ ~Due(id)
    <3>1. Status(id) = "Queued"
      BY <2>3, <2>11 DEF Answers
    <3>2. ~ops'[id].executed
      BY <2>1, <2>4, <2>11 DEF Advances
    <3>3. Status(id)' \in {"Queued", "Ready", "Blocked", "Expired", "Cancelled"}
      BY <2>3, <2>4, <3>2 DEF Answers
    <3>4. Successors(id) = {"Queued", "Ready", "Blocked", "Expired", "Cancelled"}
      BY <3>1 DEF Successors
    <3> QED
      BY <3>3, <3>4
  <2> QED
    BY <2>4, <2>6, <2>7, <2>8, <2>9, <2>10, <2>11
<1> QED
  BY <1>1, <1>2, <1>3, IInvHolds, PTL DEF Spec, StatusLifecycle

-----------------------------------------------------------------------------
(* The contract implements TimelockPromise: each step of HistorySpec is a  *)
(* step of the promise or leaves it unchanged.                             *)

HInv == IInv /\ PerformedWasDue

\* Only the ledger moves time.
LEMMA TimeStep == [Next]_vars => now' = now \/ now' \in now + 1 .. MaxTimestamp
<1> SUFFICES ASSUME [Next]_vars PROVE now' = now \/ now' \in now + 1 .. MaxTimestamp
  OBVIOUS
<1>0. CASE UNCHANGED vars
  BY <1>0 DEF vars
<1>1. CASE \E a \in Addresses, delay \in Delays, cap \in PendingCaps : Initialize(a, delay, cap)
  BY <1>1 DEF Initialize
<1>2. CASE \E a \in Addresses, d \in Descriptions, t \in Targets, delay \in Delays,
              grace \in Graces, ds \in DepSets : Queue(a, d, t, delay, grace, ds)
  BY <1>2 DEF Queue
<1>3. CASE \E a \in Addresses, id \in OpIds : Cancel(a, id) \/ Execute(a, id)
  BY <1>3 DEF Cancel, Execute, Finalize
<1>4. CASE \E a \in Addresses, id \in OpIds, d \in Descriptions : UpdateDescription(a, id, d)
  BY <1>4 DEF UpdateDescription
<1>5. CASE Cleanup
  <2>1. PICK limit \in Limits : CleanupExpired(limit)
    BY <1>5 DEF Cleanup
  <2>2. now' = now
    BY <2>1 DEF CleanupExpired
  <2> QED
    BY <2>2
<1>6. CASE \E a \in Addresses, delay \in Delays : SetMinDelay(a, delay)
  BY <1>6 DEF SetMinDelay
<1>7. CASE \E a, b \in Addresses : TransferAdmin(a, b)
  BY <1>7 DEF TransferAdmin
<1>8. CASE Tick
  BY <1>8 DEF Tick
<1> QED
  BY <1>0, <1>1, <1>2, <1>3, <1>4, <1>5, <1>6, <1>7, <1>8 DEF Next

\* The history invariant is preserved because time never goes back.
LEMMA HistoryInvariant == HistorySpec => []HInv
<1>1. HistoryInit => HInv
  <2>1. HistoryInit => IInv
    BY InitIInv DEF HistoryInit
  <2>2. HistoryInit => PerformedWasDue
    BY DEF HistoryInit, Init, PerformedWasDue, Executed
  <2> QED
    BY <2>1, <2>2 DEF HInv
<1>2. HInv /\ [HistoryNext]_historyVars => HInv'
  <2> SUFFICES ASSUME HInv, [HistoryNext]_historyVars PROVE HInv'
    OBVIOUS
  <2>1. [Next]_vars
    BY DEF HistoryNext, historyVars, vars, config
  <2>2. IInv'
    BY <2>1, NextIInv DEF HInv
  <2>3. now' >= now /\ now \in Nat /\ now' \in Nat
    <3>1. now \in Nat /\ now' \in Nat
      BY <2>2, WidthAssumption DEF HInv, IInv, TypeOK
    <3> QED
      BY <2>1, <3>1, TimeStep, WidthAssumption
  <2>4. \A id \in OpIds : id.eta \in Nat
    BY WidthAssumption DEF OpIds
  <2>5. CASE UNCHANGED historyVars
    <3>1. now' = now /\ ops' = ops /\ performed' = performed
      BY <2>5 DEF historyVars
    <3>2. Executed' = Executed
      BY <3>1 DEF Executed
    <3> QED
      BY <2>2, <3>1, <3>2 DEF HInv, PerformedWasDue
  <2>6. CASE HistoryNext
    <3>1. performed' = performed \cup Executed'
      BY <2>6 DEF HistoryNext
    <3>2. \A id \in Executed' : id \in OpIds /\ id.eta <= now'
      BY <2>2 DEF IInv, TypeOK, ExecutedWasDue, Executed
    <3>3. \A id \in performed : id \in OpIds /\ id.eta <= now'
      BY <2>3, <2>4 DEF HInv, PerformedWasDue
    <3> QED
      BY <2>2, <3>1, <3>2, <3>3 DEF HInv, PerformedWasDue
  <2> QED
    BY <2>5, <2>6
<1> QED
  BY <1>1, <1>2, PTL DEF HistorySpec

-----------------------------------------------------------------------------
(* Steps.                                                                  *)

\* Two views are equal when they announce the same operations on the same terms.
LEMMA AnnouncedDomain ==
    /\ DOMAIN Announced = {i \in DOMAIN ops : Pending(i)}
    /\ \A i \in DOMAIN Announced :
          Announced[i] = [needs |-> LoadDeps(i), until |-> ops[i].eta + ops[i].grace]
  BY DEF Announced

\* A step that performs nothing new and leaves the terms of the operations
\* that stay announced alone, announcing none, is a withdrawal.
LEMMA WithdrawStep ==
    ASSUME HInv, performed' = performed \cup Executed', Executed' \subseteq Executed,
           now' = now, minDelay' = minDelay,
           \A i \in DOMAIN ops' : Pending(i)' =>
              /\ i \in DOMAIN ops /\ Pending(i)
              /\ LoadDeps(i)' = LoadDeps(i)
              /\ ops'[i].eta = ops[i].eta /\ ops'[i].grace = ops[i].grace
    PROVE  Promise!Withdraw
<1>1. performed' = performed
  BY DEF HInv, PerformedWasDue
<1>2. DOMAIN Announced' = {i \in DOMAIN ops' : Pending(i)'}
  BY DEF Announced
<1>3. \A i \in DOMAIN Announced' :
         Announced'[i] = [needs |-> LoadDeps(i)', until |-> ops'[i].eta + ops'[i].grace]
  BY DEF Announced
<1>4. \A i \in DOMAIN Announced' : i \in DOMAIN Announced /\ Announced'[i] = Announced[i]
  BY <1>2, <1>3, AnnouncedDomain
<1>5. Announced' = [i \in DOMAIN Announced' |-> Announced'[i]]
  BY DEF Announced
<1>6. Announced' = [i \in DOMAIN Announced' |-> Announced[i]]
  BY <1>4, <1>5
<1> QED
  BY <1>1, <1>4, <1>6 DEF Promise!Withdraw

\* queue announces: the delay is positive, so the id is new to history.
LEMMA AnnounceStep ==
    ASSUME HInv,
           NEW caller \in Addresses, NEW description \in Descriptions, NEW target \in Targets,
           NEW delay \in Delays, NEW grace \in Graces, NEW ds \in DepSets,
           Queue(caller, description, target, delay, grace, ds),
           performed' = performed \cup Executed'
    PROVE  \E id \in OpIds : Promise!Announce(id)
<1> USE DEF HInv, IInv
<1>1. /\ caller = admin /\ delay >= minDelay /\ now + delay <= MaxTimestamp
      /\ now' = now /\ minDelay' = minDelay
  BY DEF Queue, HasRoom, config
<1>2. /\ now \in Nat /\ delay \in Nat /\ minDelay \in Nat /\ MaxTimestamp \in Nat
      /\ minDelay > 0 /\ now + delay \in 0 .. MaxTimestamp
  <2>1. now \in Nat /\ MaxTimestamp \in Nat /\ minDelay \in Nat /\ delay \in Nat
    BY WidthAssumption, InputAssumption DEF TypeOK
  <2>2. minDelay > 0
    BY <1>1, NoAdminAssumption DEF Configured
  <2> QED
    BY <1>1, <2>1, <2>2
<1>3. PICK id \in OpIds : id = [description |-> description, target |-> target, eta |-> now + delay]
  BY <1>2 DEF OpIds
<1>4. PICK op : /\ ~op.executed /\ ~op.cancelled
                /\ op = [proposer |-> caller, description |-> description, target |-> target,
                         eta |-> now + delay, grace |-> grace,
                         executed |-> FALSE, cancelled |-> FALSE]
  OBVIOUS
<1>5. /\ id \notin DOMAIN ops /\ ds \subseteq OpIds
      /\ ops' = Put(ops, id, op)
      /\ deps' = IF ds = {} THEN deps ELSE Put(deps, id, ds)
  BY <1>3, <1>4 DEF Queue, DepSets
<1>6. /\ DOMAIN ops' = DOMAIN ops \cup {id} /\ ops'[id] = op
      /\ \A i \in DOMAIN ops : ops'[i] = ops[i]
  BY <1>5 DEF Put
<1>7. LoadDeps(id)' = ds /\ \A i \in DOMAIN ops : LoadDeps(i)' = LoadDeps(i)
  BY <1>5 DEF Put, LoadDeps, TypeOK
<1>8. Pending(id)' /\ \A i \in DOMAIN ops : Pending(i)' <=> Pending(i)
  BY <1>4, <1>5, <1>6 DEF Pending
<1>9. id.eta >= now + minDelay /\ id \notin performed
  <2>1. id.eta = now + delay
    BY <1>3
  <2> QED
    BY <1>1, <1>2, <2>1 DEF PerformedWasDue
<1>10. performed' = performed
  <2>1. Executed' = Executed
    BY <1>4, <1>6 DEF Executed
  <2> QED
    BY <2>1 DEF PerformedWasDue
<1>11. DOMAIN Announced' = {i \in DOMAIN ops' : Pending(i)'}
  BY DEF Announced
<1>12. \A i \in DOMAIN Announced' :
          Announced'[i] = [needs |-> LoadDeps(i)', until |-> ops'[i].eta + ops'[i].grace]
  BY DEF Announced
<1>13. DOMAIN Announced' = DOMAIN Announced \cup {id} /\ id \notin DOMAIN Announced
  BY <1>5, <1>6, <1>8, <1>11, AnnouncedDomain
<1>14. \A i \in DOMAIN Announced : Announced'[i] = Announced[i]
  BY <1>6, <1>7, <1>12, <1>13, AnnouncedDomain
<1>15. Announced'[id].needs \in SUBSET OpIds
  <2>1. id \in DOMAIN Announced'
    BY <1>13
  <2>2. Announced'[id] = [needs |-> LoadDeps(id)', until |-> ops'[id].eta + ops'[id].grace]
    BY <1>12, <2>1
  <2>3. Announced'[id].needs = LoadDeps(id)'
    BY <2>2
  <2> QED
    BY <1>5, <1>7, <2>3
<1>16. Announced' = [i \in DOMAIN Announced' |-> Announced'[i]]
  BY DEF Announced
<1>17. Announced' = [i \in DOMAIN Announced' |-> IF i = id THEN Announced'[id] ELSE Announced[i]]
  BY <1>13, <1>14, <1>16
<1>18. Promise!Announce(id)
  BY <1>1, <1>2, <1>9, <1>10, <1>13, <1>15, <1>17 DEF Promise!Announce
<1> QED
  BY <1>3, <1>18

\* execute performs: in the window, after the dependencies, and for the first
\* time only as far as the promise can tell (a repetition would need queue to
\* announce the id again).
LEMMA PerformStep ==
    ASSUME HInv, NEW caller \in Addresses, NEW id \in OpIds, Execute(caller, id),
           performed' = performed \cup Executed'
    PROVE  Promise!Perform(id)
<1> USE DEF HInv, IInv
<1>1. /\ id \in DOMAIN ops /\ Pending(id) /\ now >= ops[id].eta /\ ~IsExpired(ops[id])
      /\ DependenciesExecuted(id) /\ ops' = [ops EXCEPT ![id].executed = TRUE]
      /\ now' = now /\ minDelay' = minDelay /\ deps' = deps
  BY DEF Execute, Due, Finalize, Pending, config
<1>2. ops[id] \in Ops /\ ops[id].eta = id.eta
  BY <1>1, OpTypes DEF EtaOfId
<1>3. /\ now \in Nat /\ ops[id].eta \in Nat /\ ops[id].grace \in Nat
  BY <1>2, WidthAssumption DEF TypeOK, Ops
<1>4. now <= ops[id].eta + ops[id].grace
  BY <1>1, <1>3 DEF IsExpired
<1>5. /\ DOMAIN ops' = DOMAIN ops /\ ops'[id].executed
      /\ \A i \in DOMAIN ops : i # id => ops'[i] = ops[i]
  BY <1>1, <1>2 DEF Ops
<1>6. \A i : LoadDeps(i)' = LoadDeps(i)
  BY <1>1 DEF LoadDeps
<1>7. ~Pending(id)' /\ \A i \in DOMAIN ops : i # id => (Pending(i)' <=> Pending(i))
  BY <1>5 DEF Pending
<1>8. performed' = performed \cup {id}
  <2>1. Executed' = Executed \cup {id}
    BY <1>1, <1>5 DEF Executed
  <2> QED
    BY <2>1 DEF PerformedWasDue
<1>9. LoadDeps(id) \subseteq performed
  BY <1>1 DEF DependenciesExecuted, PerformedWasDue, Executed
<1>10. DOMAIN Announced' = {i \in DOMAIN ops' : Pending(i)'}
  BY DEF Announced
<1>11. \A i \in DOMAIN Announced' :
          Announced'[i] = [needs |-> LoadDeps(i)', until |-> ops'[i].eta + ops'[i].grace]
  BY DEF Announced
<1>12. DOMAIN Announced' = DOMAIN Announced \ {id}
  BY <1>5, <1>7, <1>10, AnnouncedDomain
<1>13. \A i \in DOMAIN Announced' : Announced'[i] = Announced[i]
  BY <1>5, <1>6, <1>11, <1>12, AnnouncedDomain
<1>14. Announced' = [i \in DOMAIN Announced' |-> Announced'[i]]
  BY DEF Announced
<1>15. Announced' = [i \in DOMAIN Announced \ {id} |-> Announced[i]]
  BY <1>12, <1>13, <1>14
<1>16. id \in DOMAIN Announced
  BY <1>1, AnnouncedDomain
<1>17. Announced[id].until = ops[id].eta + ops[id].grace /\ Announced[id].needs = LoadDeps(id)
  BY <1>16, AnnouncedDomain
<1> QED
  BY <1>1, <1>2, <1>4, <1>8, <1>9, <1>15, <1>16, <1>17 DEF Promise!Perform

\* Steps that only touch the clock or the configuration leave the
\* announcements alone.
LEMMA SameAnnouncements ==
    ASSUME HInv, performed' = performed \cup Executed',
           UNCHANGED <<ops, deps>>
    PROVE  performed' = performed /\ Announced' = Announced
<1>1. Executed' = Executed
  BY DEF Executed
<1>2. performed' = performed
  BY <1>1 DEF HInv, PerformedWasDue
<1>3. \A i : LoadDeps(i)' = LoadDeps(i) /\ (Pending(i)' <=> Pending(i))
  BY DEF LoadDeps, Pending
<1>4. /\ DOMAIN Announced' = {i \in DOMAIN ops' : Pending(i)'}
      /\ \A i \in DOMAIN Announced' :
            Announced'[i] = [needs |-> LoadDeps(i)', until |-> ops'[i].eta + ops'[i].grace]
  BY DEF Announced
<1>5. DOMAIN Announced' = DOMAIN Announced
  BY <1>3, <1>4, AnnouncedDomain
<1>6. \A i \in DOMAIN Announced : Announced'[i] = Announced[i]
  BY <1>3, <1>4, <1>5, AnnouncedDomain
<1>7. /\ Announced' = [i \in DOMAIN Announced' |-> Announced'[i]]
      /\ Announced = [i \in DOMAIN Announced |-> Announced[i]]
  BY DEF Announced
<1> QED
  BY <1>2, <1>5, <1>6, <1>7

\* Every step keeps the promise.
LEMMA StepKeepsPromise ==
    HInv /\ HInv' /\ [HistoryNext]_historyVars => [Promise!Next]_(Promise!vars)
<1> SUFFICES ASSUME HInv, HInv', [HistoryNext]_historyVars
             PROVE  [Promise!Next]_(Promise!vars)
  OBVIOUS
<1>0. CASE UNCHANGED historyVars
  <2>1. /\ now' = now /\ minDelay' = minDelay /\ performed' = performed
        /\ ops' = ops /\ deps' = deps
    BY <1>0 DEF historyVars, config
  <2>2. Executed' = Executed
    BY <2>1 DEF Executed
  <2>3. Announced' = Announced
    BY <2>1, <2>2, SameAnnouncements DEF HInv, PerformedWasDue
  <2> QED
    BY <2>1, <2>3 DEF Promise!vars
<1>1. CASE HistoryNext
  <2>0. performed' = performed \cup Executed' /\ Next
    BY <1>1 DEF HistoryNext
  <2>1. ASSUME NEW a \in Addresses, NEW delay \in Delays, NEW cap \in PendingCaps,
               Initialize(a, delay, cap)
        PROVE  Promise!Next
    <3>1. /\ now' = now /\ ops' = ops /\ deps' = deps /\ minDelay' = delay
          /\ delay > 0 /\ delay \in Nat
      BY <2>1, InputAssumption DEF Initialize
    <3>2. performed' = performed /\ Announced' = Announced
      BY <2>0, <3>1, SameAnnouncements
    <3>3. Promise!Configure
      BY <3>1, <3>2 DEF Promise!Configure
    <3> QED
      BY <3>3 DEF Promise!Next
  <2>2. ASSUME NEW a \in Addresses, NEW d \in Descriptions, NEW t \in Targets,
               NEW delay \in Delays, NEW grace \in Graces, NEW ds \in DepSets,
               Queue(a, d, t, delay, grace, ds)
        PROVE  Promise!Next
    BY <2>0, <2>2, AnnounceStep DEF Promise!Next
  <2>3. ASSUME NEW a \in Addresses, NEW id \in OpIds, Cancel(a, id)
        PROVE  Promise!Next
    <3>1. /\ id \in DOMAIN ops /\ ops' = [ops EXCEPT ![id].cancelled = TRUE]
          /\ now' = now /\ minDelay' = minDelay /\ deps' = deps
      BY <2>3 DEF Cancel, Finalize, Pending, config
    <3>2. ops[id] \in Ops
      BY <3>1, OpTypes DEF HInv, IInv
    <3>3. /\ DOMAIN ops' = DOMAIN ops
          /\ ops'[id].cancelled /\ ops'[id].executed = ops[id].executed
          /\ \A i \in DOMAIN ops : i # id => ops'[i] = ops[i]
      BY <3>1, <3>2 DEF Ops
    <3>4. Executed' \subseteq Executed
      BY <3>3 DEF Executed
    <3>5. \A i : LoadDeps(i)' = LoadDeps(i)
      BY <3>1 DEF LoadDeps
    <3>6. ~Pending(id)' /\ \A i \in DOMAIN ops : i # id => (Pending(i)' <=> Pending(i))
      BY <3>3 DEF Pending
    <3>7. Promise!Withdraw
      BY <2>0, <3>1, <3>3, <3>4, <3>5, <3>6, WithdrawStep
    <3> QED
      BY <3>7 DEF Promise!Next
  <2>4. ASSUME NEW a \in Addresses, NEW id \in OpIds, Execute(a, id)
        PROVE  Promise!Next
    BY <2>0, <2>4, PerformStep DEF Promise!Next
  <2>5. ASSUME NEW a \in Addresses, NEW id \in OpIds, NEW d \in Descriptions,
               UpdateDescription(a, id, d)
        PROVE  Promise!Next
    <3>1. /\ id \in DOMAIN ops /\ ops' = [ops EXCEPT ![id].description = d]
          /\ now' = now /\ minDelay' = minDelay /\ deps' = deps
      BY <2>5 DEF UpdateDescription, Pending, config
    <3>2. ops[id] \in Ops
      BY <3>1, OpTypes DEF HInv, IInv
    <3>3. /\ DOMAIN ops' = DOMAIN ops
          /\ \A i \in DOMAIN ops : /\ ops'[i].eta = ops[i].eta /\ ops'[i].grace = ops[i].grace
                                   /\ ops'[i].executed = ops[i].executed
                                   /\ ops'[i].cancelled = ops[i].cancelled
      BY <3>1, <3>2 DEF Ops
    <3>4. Executed' \subseteq Executed
      BY <3>3 DEF Executed
    <3>5. \A i : LoadDeps(i)' = LoadDeps(i)
      BY <3>1 DEF LoadDeps
    <3>6. \A i \in DOMAIN ops : Pending(i)' <=> Pending(i)
      BY <3>3 DEF Pending
    <3>7. Promise!Withdraw
      BY <2>0, <3>1, <3>3, <3>4, <3>5, <3>6, WithdrawStep
    <3> QED
      BY <3>7 DEF Promise!Next
  <2>6. ASSUME Cleanup
        PROVE  Promise!Next
    <3>1. PICK gone : /\ ops' = Delete(ops, gone) /\ deps' = Delete(deps, gone)
                      /\ now' = now /\ minDelay' = minDelay
      <4>1. PICK limit \in Limits : CleanupExpired(limit)
        BY <2>6 DEF Cleanup
      <4> QED
        BY <4>1 DEF CleanupExpired, RemoveOpStorage, config
    <3>2. /\ DOMAIN ops' = DOMAIN ops \ gone
          /\ \A i \in DOMAIN ops' : ops'[i] = ops[i] /\ LoadDeps(i)' = LoadDeps(i)
      BY <3>1 DEF Delete, LoadDeps
    <3>3. Executed' \subseteq Executed
      BY <3>2 DEF Executed
    <3>4. \A i \in DOMAIN ops' : Pending(i)' <=> Pending(i)
      BY <3>2 DEF Pending
    <3>5. Promise!Withdraw
      BY <2>0, <3>1, <3>2, <3>3, <3>4, WithdrawStep
    <3> QED
      BY <3>5 DEF Promise!Next
  <2>7. ASSUME NEW a \in Addresses, NEW delay \in Delays, SetMinDelay(a, delay)
        PROVE  Promise!Next
    <3>1. /\ now' = now /\ ops' = ops /\ deps' = deps /\ minDelay' = delay
          /\ delay > 0 /\ delay \in Nat
      BY <2>7, InputAssumption DEF SetMinDelay
    <3>2. performed' = performed /\ Announced' = Announced
      BY <2>0, <3>1, SameAnnouncements
    <3>3. Promise!Configure
      BY <3>1, <3>2 DEF Promise!Configure
    <3> QED
      BY <3>3 DEF Promise!Next
  <2>8. ASSUME NEW a \in Addresses, NEW b \in Addresses, TransferAdmin(a, b)
        PROVE  UNCHANGED Promise!vars
    <3>1. now' = now /\ ops' = ops /\ deps' = deps /\ minDelay' = minDelay
      BY <2>8 DEF TransferAdmin
    <3>2. performed' = performed /\ Announced' = Announced
      BY <2>0, <3>1, SameAnnouncements
    <3> QED
      BY <3>1, <3>2 DEF Promise!vars
  <2>9. ASSUME Tick
        PROVE  Promise!Next
    <3>1. /\ now' \in now + 1 .. MaxTimestamp
          /\ minDelay' = minDelay /\ ops' = ops /\ deps' = deps
      BY <2>9 DEF Tick, config
    <3>2. now \in Nat /\ now' \in Nat /\ now' >= now
      BY <3>1, WidthAssumption DEF HInv, IInv, TypeOK
    <3>4. performed' = performed /\ Announced' = Announced
      BY <2>0, <3>1, SameAnnouncements
    <3>5. Promise!Advance
      BY <3>1, <3>2, <3>4 DEF Promise!Advance
    <3> QED
      BY <3>5 DEF Promise!Next
  <2> QED
    BY <2>0, <2>1, <2>2, <2>3, <2>4, <2>5, <2>6, <2>7, <2>8, <2>9 DEF Next
<1> QED
  BY <1>0, <1>1

\* The timelock implements its promise: whatever is queued, cancelled,
\* reclaimed and queued again, no operation is executed twice, before its eta,
\* after its window, or before the operations it needs.
THEOREM ImplementsPromise == HistorySpec => KeepsPromise
<1>1. HistoryInit => Promise!Init
  BY DEF HistoryInit, Init, Promise!Init, Announced
<1>2. HInv /\ HInv' /\ [HistoryNext]_historyVars => [Promise!Next]_(Promise!vars)
  BY StepKeepsPromise
<1> QED
  BY <1>1, <1>2, HistoryInvariant, PTL DEF HistorySpec, KeepsPromise, Promise!Spec

=============================================================================
