------------------------ MODULE RouterMulticallProofs -----------------------
(***************************************************************************)
(* A batch of router-multicall happens at once or not at all, and what is  *)
(* stored of the last batches is what came of them, for any calls, sizes,  *)
(* budgets and bounds, whatever the called contracts do in between.        *)
(***************************************************************************)
EXTENDS RouterMulticall, VectorLemmas

-----------------------------------------------------------------------------
(* The inductive invariant.                                                *)

\* What is stored of the batches from lo up to hi: the counts c of some of them,
\* and for each as many results r as were counted.
WindowOK(lo, hi, c, r) ==
    /\ c = [b \in DOMAIN c |-> c[b]] /\ r = [k \in DOMAIN r |-> r[k]]
    /\ \A b \in DOMAIN c : b \in 0 .. hi - 1 /\ lo <= b /\ c[b] \in 1 .. MaxCalls
    /\ DOMAIN r \subseteq (0 .. MaxTotal) \X (0 .. MaxCalls)
    /\ \A b \in 0 .. MaxTotal, i \in 0 .. MaxCalls :
          <<b, i>> \in DOMAIN r <=> b \in DOMAIN c /\ i < c[b]
    /\ \A k \in DOMAIN r : r[k] \in BOOLEAN

Types ==
    /\ admin \in Addresses \cup {None}
    /\ maxSize \in (Nat \ {0}) \cup {None}
    /\ admin = None <=> maxSize = None
    /\ total \in 0 .. MaxTotal
    /\ executing \in BOOLEAN
    /\ effects \in 0 .. MaxEffects
    /\ frame \in Frames \cup {None}
    /\ receipt \in Receipts \cup {None}

Storing(request) == request.store /\ ~request.simulate

\* The first calls of a batch came out like this: none failed that had to
\* succeed, and none was made after a failure if the caller asked for that.
CameOut(request, outcomes) ==
    /\ Len(outcomes) <= Len(request.calls)
    /\ \A i \in DOMAIN outcomes : ~outcomes[i] =>
          ~request.calls[i].required /\ (request.failFast => i = Len(outcomes))

\* The results r0 and, if they are to be stored, the outcomes of batch b.
StoredSoFar(r, r0, b, outcomes) ==
    /\ r = [k \in DOMAIN r |-> r[k]]
    /\ DOMAIN r = DOMAIN r0 \cup {<<b, i - 1>> : i \in DOMAIN outcomes}
    /\ \A k \in DOMAIN r0 : r[k] = r0[k]
    /\ \A i \in DOMAIN outcomes : r[<<b, i - 1>>] = outcomes[i]

\* A batch under way has changed nothing but what it stored and what its calls
\* did; what would be restored is sound.
Running ==
    /\ executing
    /\ admin # None /\ frame.config[1] # None /\ frame.config[2] \notin {None, 0}
    /\ frame.before.admin # None /\ frame.before.maxSize \notin {None, 0}
    /\ frame.id = total /\ total < MaxTotal
    /\ frame.before.total = total /\ frame.before.counts = counts
    /\ WindowOK(total - MaxStoredBatches, total, counts, frame.before.results)
    /\ Len(frame.request.calls) \in 1 .. MaxCalls
    /\ CameOut(frame.request, frame.outcomes)
    /\ frame.before.effects \in 0 .. MaxEffects
    /\ effects = frame.before.effects
                 + Cardinality({i \in DOMAIN frame.outcomes : frame.outcomes[i]})
    /\ IF Storing(frame.request)
         THEN StoredSoFar(results, frame.before.results, frame.id, frame.outcomes)
         ELSE results = frame.before.results

MulticallInv ==
    /\ Types
    /\ admin = None => total = 0
    /\ IF frame = None THEN ~executing /\ WindowOK(total - MaxStoredBatches, total, counts, results) ELSE Running

-----------------------------------------------------------------------------
(* What is stored.                                                         *)

\* One more outcome counts once if it is a success.
LEMMA CountUp ==
    ASSUME NEW s \in Seq(BOOLEAN), NEW x \in BOOLEAN
    PROVE  /\ Cardinality({i \in DOMAIN s : s[i]}) \in Nat
           /\ Cardinality({i \in DOMAIN Append(s, x) : Append(s, x)[i]})
                = Cardinality({i \in DOMAIN s : s[i]}) + (IF x THEN 1 ELSE 0)
<1>1. PICK n \in Nat : n = Len(s) /\ DOMAIN s = 1 .. n /\ DOMAIN Append(s, x) = 1 .. n + 1
  OBVIOUS
<1>2. PICK A : A = {i \in DOMAIN s : s[i]}
  OBVIOUS
<1>3. IsFiniteSet(A) /\ Cardinality(A) \in Nat /\ A \subseteq 1 .. n
  <2>1. A \subseteq 1 .. n
    BY <1>1, <1>2
  <2>2. IsFiniteSet(1 .. n)
    BY FS_Interval
  <2>3. IsFiniteSet(A)
    BY <2>1, <2>2, FS_Subset
  <2> QED
    BY <2>1, <2>3, FS_CardinalityType
<1>4. Append(s, x)[n + 1] = x /\ \A i \in 1 .. n : Append(s, x)[i] = s[i]
  BY <1>1
<1>5. {i \in DOMAIN Append(s, x) : Append(s, x)[i]} = IF x THEN A \cup {n + 1} ELSE A
  BY <1>1, <1>2, <1>4
<1>6. n + 1 \notin A
  BY <1>1, <1>3
<1>7. Cardinality(A \cup {n + 1}) = Cardinality(A) + 1
  BY <1>3, <1>6, FS_AddElement
<1>8. Cardinality(IF x THEN A \cup {n + 1} ELSE A) = Cardinality(A) + (IF x THEN 1 ELSE 0)
  <2>1. CASE x
    BY <1>7, <2>1
  <2>2. CASE ~x
    <3>1. Cardinality(A) + 0 = Cardinality(A)
      BY <1>3
    <3> QED
      BY <2>2, <3>1
  <2> QED
    BY <2>1, <2>2
<1> QED
  BY <1>2, <1>3, <1>5, <1>8

\* Storing the next outcome.
LEMMA StoreOne ==
    ASSUME NEW r, NEW r0, NEW b, NEW s \in Seq(BOOLEAN), NEW x \in BOOLEAN,
           StoredSoFar(r, r0, b, s), \A i \in Nat : <<b, i>> \notin DOMAIN r0
    PROVE  StoredSoFar(Put(r, <<b, Len(s)>>, x), r0, b, Append(s, x))
<1>1. PICK n \in Nat : n = Len(s) /\ DOMAIN s = 1 .. n /\ DOMAIN Append(s, x) = 1 .. n + 1
  OBVIOUS
<1>2. PICK q : q = Put(r, <<b, n>>, x)
  OBVIOUS
<1>3. /\ DOMAIN q = DOMAIN r \cup {<<b, n>>} /\ q = [k \in DOMAIN q |-> q[k]]
      /\ q[<<b, n>>] = x /\ \A k \in DOMAIN r : k # <<b, n>> => q[k] = r[k]
  BY <1>2 DEF Put
<1>4. Append(s, x)[n + 1] = x /\ \A i \in 1 .. n : Append(s, x)[i] = s[i]
  BY <1>1
<1>5. DOMAIN q = DOMAIN r0 \cup {<<b, i - 1>> : i \in 1 .. n + 1}
  <2>1. DOMAIN r = DOMAIN r0 \cup {<<b, i - 1>> : i \in 1 .. n}
    BY <1>1 DEF StoredSoFar
  <2>2. n + 1 \in 1 .. n + 1 /\ (n + 1) - 1 = n /\ \A i \in 1 .. n + 1 : i # n + 1 => i \in 1 .. n
    OBVIOUS
  <2> QED
    BY <1>3, <2>1, <2>2
<1>6. \A k \in DOMAIN r0 : q[k] = r0[k]
  BY <1>3 DEF StoredSoFar
<1>7. ASSUME NEW i \in 1 .. n + 1
      PROVE  q[<<b, i - 1>>] = Append(s, x)[i]
  <2>1. CASE i = n + 1
    <3>1. i - 1 = n
      BY <2>1
    <3> QED
      BY <1>3, <1>4, <2>1, <3>1
  <2>2. CASE i \in 1 .. n
    <3>1. r[<<b, i - 1>>] = s[i] /\ <<b, i - 1>> \in DOMAIN r /\ i - 1 # n
      BY <1>1, <2>2 DEF StoredSoFar
    <3>2. <<b, i - 1>> # <<b, n>>
      BY <3>1
    <3> QED
      BY <1>3, <1>4, <2>2, <3>1, <3>2
  <2>3. i = n + 1 \/ i \in 1 .. n
    OBVIOUS
  <2> QED
    BY <2>1, <2>2, <2>3
<1>8. StoredSoFar(q, r0, b, Append(s, x))
  BY <1>1, <1>3, <1>5, <1>6, <1>7 DEF StoredSoFar
<1> QED
  BY <1>1, <1>2, <1>8

\* Counting what was stored.
LEMMA StoredWindow ==
    ASSUME NEW lo \in Int, NEW t \in 0 .. MaxTotal, NEW c, NEW r0, NEW r, NEW s \in Seq(BOOLEAN),
           WindowOK(lo, t, c, r0), lo <= t, StoredSoFar(r, r0, t, s), Len(s) \in 1 .. MaxCalls
    PROVE  WindowOK(lo, t + 1, Put(c, t, Len(s)), r)
<1>1. PICK n \in 1 .. MaxCalls : n = Len(s) /\ DOMAIN s = 1 .. n
  OBVIOUS
<1>n. MaxCalls \in Nat /\ MaxTotal \in Nat /\ n \in Nat
  BY <1>1, MulticallNumbers
<1>2. PICK d : d = Put(c, t, n)
  OBVIOUS
<1>3. t \notin DOMAIN c
  BY <1>n DEF WindowOK
<1>4. /\ DOMAIN d = DOMAIN c \cup {t} /\ d = [b \in DOMAIN d |-> d[b]]
      /\ d[t] = n /\ \A b \in DOMAIN c : d[b] = c[b]
  BY <1>2, <1>3 DEF Put
<1>5. \A b \in DOMAIN d : b \in 0 .. (t + 1) - 1 /\ lo <= b /\ d[b] \in 1 .. MaxCalls
  BY <1>1, <1>n, <1>4 DEF WindowOK
<1>6. /\ DOMAIN r = DOMAIN r0 \cup {<<t, i - 1>> : i \in 1 .. n}
      /\ r = [k \in DOMAIN r |-> r[k]]
      /\ \A k \in DOMAIN r0 : r[k] = r0[k]
      /\ \A i \in 1 .. n : r[<<t, i - 1>>] = s[i]
  BY <1>1 DEF StoredSoFar
<1>7. DOMAIN r \subseteq (0 .. MaxTotal) \X (0 .. MaxCalls)
  <2>1. \A i \in 1 .. n : i - 1 \in 0 .. MaxCalls
    BY <1>n
  <2> QED
    BY <1>6, <2>1 DEF WindowOK
<1>8. ASSUME NEW b \in 0 .. MaxTotal, NEW i \in 0 .. MaxCalls
      PROVE  <<b, i>> \in DOMAIN r <=> b \in DOMAIN d /\ i < d[b]
  <2>1. <<b, i>> \in DOMAIN r0 <=> b \in DOMAIN c /\ i < c[b]
    BY DEF WindowOK
  <2>2. <<b, i>> \in {<<t, j - 1>> : j \in 1 .. n} <=> b = t /\ i < n
    <3>1. ASSUME NEW j \in 1 .. n, <<b, i>> = <<t, j - 1>>
          PROVE  b = t /\ i < n
      BY <1>n, <3>1
    <3>2. ASSUME b = t, i < n
          PROVE  i + 1 \in 1 .. n /\ <<b, i>> = <<t, (i + 1) - 1>>
      BY <1>n, <3>2
    <3> QED
      BY <3>1, <3>2
  <2> QED
    BY <1>3, <1>4, <1>6, <2>1, <2>2
<1>9. \A k \in DOMAIN r : r[k] \in BOOLEAN
  <2>1. \A i \in 1 .. n : s[i] \in BOOLEAN
    BY <1>1
  <2> QED
    BY <1>6, <2>1 DEF WindowOK
<1>10. WindowOK(lo, t + 1, d, r)
  BY <1>4, <1>5, <1>6, <1>7, <1>8, <1>9 DEF WindowOK
<1> QED
  BY <1>1, <1>2, <1>10

\* The batch that is forgotten with number lo, and what is stored of it.
Oldest(c, lo) == {b \in DOMAIN c : b = lo}
Forgotten(c, r, lo) == {k \in DOMAIN r : k[1] \in Oldest(c, lo) /\ k[2] < c[k[1]]}

\* d and q are the counts and results of the batches after number lo.
After(c, r, lo, d, q) ==
    /\ DOMAIN d = {b \in DOMAIN c : b > lo} /\ \A b \in DOMAIN d : d[b] = c[b]
    /\ DOMAIN q = {k \in DOMAIN r : k[1] > lo} /\ \A k \in DOMAIN q : q[k] = r[k]

\* Pruning the oldest batch.
LEMMA PrunedWindow ==
    ASSUME NEW lo \in Int, NEW t \in Nat, NEW c, NEW r, WindowOK(lo, t, c, r),
           NEW d, d = Delete(c, Oldest(c, lo)),
           NEW q, q = Delete(r, Forgotten(c, r, lo))
    PROVE  WindowOK(lo + 1, t, d, q) /\ After(c, r, lo, d, q)
<1> DEFINE S == Oldest(c, lo)
<1>n. MaxCalls \in Nat /\ MaxTotal \in Nat
  BY MulticallNumbers
<1>0. /\ \A b \in DOMAIN c : b \in Int /\ lo <= b /\ c[b] \in 1 .. MaxCalls /\ b \in 0 .. t - 1
      /\ DOMAIN r \subseteq (0 .. MaxTotal) \X (0 .. MaxCalls)
      /\ \A b \in 0 .. MaxTotal, i \in 0 .. MaxCalls :
            <<b, i>> \in DOMAIN r <=> b \in DOMAIN c /\ i < c[b]
      /\ \A k \in DOMAIN r : r[k] \in BOOLEAN
  BY DEF WindowOK
<1>1. /\ DOMAIN d = {b \in DOMAIN c : b > lo} /\ \A b \in DOMAIN d : d[b] = c[b]
      /\ d = [b \in DOMAIN d |-> d[b]]
  <2>1. DOMAIN d = DOMAIN c \ S /\ d = [b \in DOMAIN d |-> d[b]] /\ \A b \in DOMAIN d : d[b] = c[b]
    BY DEF Delete
  <2>2. \A b \in DOMAIN c : b \in S <=> ~(b > lo)
    BY <1>0 DEF Oldest
  <2> QED
    BY <2>1, <2>2
<1>2. \A k \in DOMAIN r : /\ k = <<k[1], k[2]>> /\ k[1] \in 0 .. MaxTotal /\ k[2] \in 0 .. MaxCalls
                           /\ k[1] \in DOMAIN c /\ k[2] < c[k[1]]
  BY <1>0
<1>3. /\ DOMAIN q = {k \in DOMAIN r : k[1] > lo} /\ \A k \in DOMAIN q : q[k] = r[k]
      /\ q = [k \in DOMAIN q |-> q[k]]
  <2>1. /\ DOMAIN q = DOMAIN r \ {k \in DOMAIN r : k[1] \in S /\ k[2] < c[k[1]]}
        /\ q = [k \in DOMAIN q |-> q[k]] /\ \A k \in DOMAIN q : q[k] = r[k]
    BY DEF Delete, Forgotten
  <2>2. \A k \in DOMAIN r : (k[1] \in S /\ k[2] < c[k[1]]) <=> ~(k[1] > lo)
    BY <1>0, <1>2 DEF Oldest
  <2> QED
    BY <2>1, <2>2
<1>4. \A b \in DOMAIN d : b \in 0 .. t - 1 /\ lo + 1 <= b /\ d[b] \in 1 .. MaxCalls
  BY <1>0, <1>1
<1>5. ASSUME NEW b \in 0 .. MaxTotal, NEW i \in 0 .. MaxCalls
      PROVE  <<b, i>> \in DOMAIN q <=> b \in DOMAIN d /\ i < d[b]
  <2>1. <<b, i>>[1] = b
    OBVIOUS
  <2>2. <<b, i>> \in DOMAIN q <=> <<b, i>> \in DOMAIN r /\ b > lo
    BY <1>3, <2>1
  <2> QED
    BY <1>0, <1>1, <2>2
<1> QED
  BY <1>0, <1>1, <1>3, <1>4, <1>5 DEF WindowOK, After

-----------------------------------------------------------------------------
(* The invariant holds at first, and every step keeps it.                  *)

LEMMA Started == Init => MulticallInv
<1> SUFFICES ASSUME Init
             PROVE  MulticallInv
  OBVIOUS
<1>1. Types
  <2>1. MaxTotal \in Nat /\ MaxEffects \in Nat
    BY MulticallNumbers
  <2>2. 0 \in 0 .. MaxTotal /\ 0 \in 0 .. MaxEffects
    BY <2>1
  <2> QED
    BY <2>2 DEF Init, Types
<1>2. WindowOK(total - MaxStoredBatches, total, counts, results)
  BY DEF Init, WindowOK
<1> QED
  BY <1>1, <1>2 DEF MulticallInv, Init

\* What is stored is of the types a snapshot has.
LEMMA SnapshotTypes ==
    ASSUME Types, NEW lo, NEW hi \in 0 .. MaxTotal, WindowOK(lo, hi, counts, results)
    PROVE  Snapshot \in Snapshots
<1>n. MaxTotal \in Nat /\ MaxCalls \in Nat /\ hi \in Nat
  BY MulticallNumbers
<1>1. counts \in Partial(0 .. MaxTotal, Nat)
  <2>1. DOMAIN counts \in SUBSET (0 .. MaxTotal)
    BY <1>n DEF WindowOK
  <2>2. counts \in [DOMAIN counts -> Nat]
    BY <1>n DEF WindowOK
  <2> QED
    BY <2>1, <2>2 DEF Partial
<1>2. results \in Partial((0 .. MaxTotal) \X (0 .. MaxCalls), BOOLEAN)
  <2>1. DOMAIN results \in SUBSET ((0 .. MaxTotal) \X (0 .. MaxCalls))
    BY DEF WindowOK
  <2>2. results \in [DOMAIN results -> BOOLEAN]
    BY DEF WindowOK
  <2> QED
    BY <2>1, <2>2 DEF Partial
<1>3. /\ admin \in Addresses \cup {None} /\ maxSize \in Nat \cup {None}
      /\ total \in Nat /\ effects \in Nat
  BY <1>n, MulticallNumbers DEF Types
<1> QED
  BY <1>1, <1>2, <1>3 DEF Snapshot, Snapshots

LEMMA Configures ==
    ASSUME MulticallInv,
           \/ \E a \in Addresses, n \in Sizes : Initialize(a, n) \/ SetMaxBatchSize(a, n)
           \/ \E a, b \in Addresses : TransferAdmin(a, b)
    PROVE  MulticallInv' /\ UNCHANGED <<total, stored, effects, frame, receipt>>
<1>1. Sizes \subseteq Nat
  BY MulticallNumbers
<1>2. /\ total' = total /\ UNCHANGED <<executing, stored, effects, frame, receipt>>
      /\ admin' \in Addresses
      /\ maxSize' \in Nat \ {0}
  <2>0. Types /\ (admin = None => total = 0)
    BY DEF MulticallInv
  <2>1. CASE \E a \in Addresses, n \in Sizes : Initialize(a, n)
    BY <1>1, <2>0, <2>1 DEF Initialize
  <2>2. CASE \E a \in Addresses, n \in Sizes : SetMaxBatchSize(a, n)
    <3>1. \E a \in Addresses : a = admin
      BY <2>2 DEF SetMaxBatchSize
    <3> QED
      BY <1>1, <2>0, <2>2, <3>1 DEF SetMaxBatchSize
  <2>3. CASE \E a, b \in Addresses : TransferAdmin(a, b)
    <3>1. admin # None
      BY <2>3, MulticallNone DEF TransferAdmin
    <3>2. maxSize \in Nat \ {0}
      BY <2>0, <3>1 DEF Types
    <3> QED
      BY <2>3, <3>2 DEF TransferAdmin
  <2> QED
    BY <2>1, <2>2, <2>3
<1>3. admin' # None /\ maxSize' # None
  BY <1>2, MulticallNone
<1>4. Types'
  BY <1>2, <1>3 DEF MulticallInv, Types
<1>5. frame = None => ~executing' /\ WindowOK(total - MaxStoredBatches, total, counts, results)'
  BY <1>2 DEF MulticallInv, stored
<1>6. frame # None => Running'
  <2> SUFFICES ASSUME frame # None
               PROVE  Running'
    OBVIOUS
  <2>1. Running
    BY DEF MulticallInv
  <2> QED
    BY <1>2, <1>3, <2>1 DEF Running, stored
<1> QED
  BY <1>2, <1>3, <1>4, <1>5, <1>6 DEF MulticallInv

\* A batch begins.
LEMMA Begins ==
    ASSUME MulticallInv, NEW request \in Requests, NEW g,
           Len(request.calls) <= MaxCalls, Begin(request, g)
    PROVE  /\ MulticallInv' /\ frame = None /\ frame' # None /\ frame'.before = Snapshot
           /\ UNCHANGED receipt
<1>1. frame = None /\ WindowOK(total - MaxStoredBatches, total, counts, results) /\ Types
  BY DEF MulticallInv, Running, Begin
<1>2. Snapshot \in Snapshots
  <2>1. total \in 0 .. MaxTotal
    BY <1>1 DEF Types
  <2> QED
    BY <1>1, <2>1, SnapshotTypes
<1>3. maxSize # None /\ admin # None /\ maxSize # 0
  <2>1. maxSize # None
    BY DEF Begin, Acceptable
  <2> QED
    BY <1>1, <2>1 DEF Types
<1>4. PICK f : f = [request |-> request, id |-> total, outcomes |-> << >>, before |-> Snapshot,
                    config |-> <<admin, maxSize>>]
  OBVIOUS
<1>5. frame' = f /\ executing' /\ UNCHANGED <<admin, maxSize, total, results, counts, effects, receipt>>
  BY <1>4 DEF Begin, config, stored
<1>6. f \in Frames
  <2>1. << >> \in Seq(BOOLEAN) /\ total \in Nat
        /\ <<admin, maxSize>> \in (Addresses \cup {None}) \X (Nat \cup {None})
    BY <1>1, MulticallNumbers DEF Types
  <2> QED
    BY <1>2, <1>4, <2>1 DEF Frames
<1>7. f # None
  BY <1>6, MulticallNone
<1>8. /\ f.request = request /\ f.id = total /\ f.outcomes = << >> /\ f.before = Snapshot
      /\ f.config[1] = admin /\ f.config[2] = maxSize
      /\ f.before.admin = admin /\ f.before.maxSize = maxSize /\ f.before.total = total
      /\ f.before.results = results /\ f.before.counts = counts /\ f.before.effects = effects
  BY <1>4 DEF Snapshot
<1>9. Types'
  BY <1>1, <1>5, <1>6 DEF Types
<1>10. CameOut(request, << >>)
  <2>1. Len(request.calls) \in Nat
    BY DEF Requests
  <2> QED
    BY <2>1 DEF CameOut
<1>11. Cardinality({i \in DOMAIN << >> : << >>[i]}) = 0
  <2>1. {i \in DOMAIN << >> : << >>[i]} = {}
    OBVIOUS
  <2> QED
    BY <2>1, FS_EmptySet
<1>12. StoredSoFar(results, results, total, << >>)
  <2>1. results = [k \in DOMAIN results |-> results[k]]
    BY <1>1 DEF WindowOK
  <2>2. DOMAIN results = DOMAIN results \cup {<<total, i - 1>> : i \in DOMAIN << >>}
    <3>1. \A i : i \notin DOMAIN << >>
      OBVIOUS
    <3>2. {<<total, i - 1>> : i \in DOMAIN << >>} = {}
      BY <3>1
    <3> QED
      BY <3>2
  <2>3. \A i \in DOMAIN << >> : results[<<total, i - 1>>] = << >>[i]
    OBVIOUS
  <2> QED
    BY <2>1, <2>2, <2>3 DEF StoredSoFar
<1>13. Running'
  <2>1. Len(request.calls) \in 1 .. MaxCalls
    <3>1. Len(request.calls) \in Nat /\ Len(request.calls) >= 1
      BY <1>1, <1>3 DEF Begin, Acceptable, Requests, Types
    <3> QED
      BY <3>1, MulticallNumbers
  <2>2. total < MaxTotal
    BY DEF Begin
  <2>3. effects \in 0 .. MaxEffects /\ effects = effects + 0
    BY <1>1, MulticallNumbers DEF Types
  <2>4. /\ frame'.before.effects \in 0 .. MaxEffects
        /\ effects' = frame'.before.effects
                      + Cardinality({i \in DOMAIN frame'.outcomes : frame'.outcomes[i]})
    BY <1>5, <1>8, <1>11, <2>3
  <2>5. /\ results' = frame'.before.results
        /\ StoredSoFar(results', frame'.before.results, frame'.id, frame'.outcomes)
    BY <1>5, <1>8, <1>12
  <2>6. CameOut(frame'.request, frame'.outcomes)
    BY <1>5, <1>8, <1>10
  <2> QED
    BY <1>1, <1>3, <1>5, <1>8, <2>1, <2>2, <2>4, <2>5, <2>6 DEF Running
<1> QED
  BY <1>1, <1>5, <1>7, <1>8, <1>9, <1>13, <1>3 DEF MulticallInv

\* A batch under way, its parts named.
LEMMA FrameParts ==
    ASSUME MulticallInv, frame # None
    PROVE  \E request \in Requests, id \in Nat, outcomes \in Seq(BOOLEAN), before \in Snapshots,
              a \in Addresses, n \in Nat \ {0} :
              frame = [request |-> request, id |-> id, outcomes |-> outcomes, before |-> before,
                       config |-> <<a, n>>]
<1>1. frame \in Frames /\ Running
  BY DEF MulticallInv, Types
<1>2. PICK request \in Requests, id \in Nat, outcomes \in Seq(BOOLEAN), before \in Snapshots,
           g \in (Addresses \cup {None}) \X (Nat \cup {None}) :
        frame = [request |-> request, id |-> id, outcomes |-> outcomes, before |-> before,
                 config |-> g]
  BY <1>1 DEF Frames
<1>3. g = <<g[1], g[2]>> /\ g[1] \in Addresses /\ g[2] \in Nat \ {0}
  BY <1>1, <1>2 DEF Running
<1> QED
  BY <1>2, <1>3

\* A call returns.
LEMMA Records ==
    ASSUME MulticallInv, frame # None, ~Done, NEW x \in BOOLEAN, x \/ ~NextCall.required,
           Record(x), effects' = effects + (IF x THEN 1 ELSE 0), effects' <= MaxEffects
    PROVE  /\ MulticallInv' /\ frame' # None /\ frame'.before = frame.before
           /\ UNCHANGED receipt
<1>1. PICK request \in Requests, id \in Nat, s \in Seq(BOOLEAN), before \in Snapshots,
           a \in Addresses, m \in Nat \ {0} :
        frame = [request |-> request, id |-> id, outcomes |-> s, before |-> before,
                 config |-> <<a, m>>]
  BY FrameParts
<1>2. /\ frame.request = request /\ frame.id = id /\ frame.outcomes = s /\ frame.before = before
      /\ frame.config[1] = a /\ frame.config[2] = m
  BY <1>1
<1>3. Running /\ Types
  BY DEF MulticallInv
<1>4. PICK n \in Nat : n = Len(s) /\ DOMAIN s = 1 .. n
  OBVIOUS
<1>5. Append(s, x) \in Seq(BOOLEAN) /\ Len(Append(s, x)) = n + 1 /\ DOMAIN Append(s, x) = 1 .. n + 1
      /\ Append(s, x)[n + 1] = x /\ \A i \in 1 .. n : Append(s, x)[i] = s[i]
  BY <1>4
<1>6. PICK b, k : b = admin' /\ k = maxSize'
  OBVIOUS
<1>7. /\ b \in Addresses /\ k \in Nat \ {0} /\ b # None /\ k # None
      /\ UNCHANGED <<total, executing, counts, receipt>>
  <2>1. admin \in Addresses /\ maxSize \in Nat \ {0}
    BY <1>3 DEF Running, Types
  <2>2. b = IF x THEN admin ELSE a
    BY <1>2, <1>6 DEF Record
  <2>3. k = IF x THEN maxSize ELSE m
    BY <1>2, <1>6 DEF Record
  <2>4. UNCHANGED <<total, executing, counts, receipt>>
    BY DEF Record
  <2> QED
    BY <2>1, <2>2, <2>3, <2>4, MulticallNone
<1>8. PICK f : f = [request |-> request, id |-> id, outcomes |-> Append(s, x), before |-> before,
                    config |-> <<b, k>>]
  OBVIOUS
<1>9. frame' = f
  <2>1. frame' = [frame EXCEPT !.outcomes = Append(@, x), !.config = <<b, k>>]
    BY <1>6 DEF Record, config
  <2>2. frame' = [frame EXCEPT !.outcomes = Append(s, x), !.config = <<b, k>>]
    BY <1>2, <2>1
  <2>3. PICK g : g = [frame EXCEPT !.outcomes = Append(s, x)]
    OBVIOUS
  <2>0. PICK o, e : o = Append(s, x) /\ e = <<a, m>>
    OBVIOUS
  <2>4. g = [request |-> request, id |-> id, outcomes |-> o, before |-> before, config |-> e]
    BY <1>1, <2>0, <2>3
  <2>5. PICK d : d = <<b, k>>
    OBVIOUS
  <2>6. frame' = [g EXCEPT !.config = d]
    BY <2>2, <2>3, <2>5
  <2>7. [g EXCEPT !.config = d] = [request |-> request, id |-> id, outcomes |-> o,
                                   before |-> before, config |-> d]
    BY <2>4
  <2> QED
    BY <1>8, <2>0, <2>5, <2>6, <2>7
<1>10. f \in Frames
  <2>1. <<b, k>> \in (Addresses \cup {None}) \X (Nat \cup {None})
    BY <1>7
  <2> QED
    BY <1>5, <1>8, <2>1 DEF Frames
<1>11. f # None
  BY <1>10, MulticallNone
<1>12. /\ f.request = request /\ f.id = id /\ f.outcomes = Append(s, x) /\ f.before = before
       /\ f.config[1] = b /\ f.config[2] = k
  BY <1>8
<1>13. effects' \in 0 .. MaxEffects
  <2>1. effects \in Nat /\ MaxEffects \in Nat
    BY <1>3, MulticallNumbers DEF Types
  <2> QED
    BY <2>1
<1>14. Types'
  BY <1>3, <1>6, <1>7, <1>9, <1>10, <1>13 DEF Types
<1>15. CameOut(request, Append(s, x))
  <2>1. PICK l \in Nat : l = Len(request.calls)
    BY DEF Requests
  <2>2. CameOut(request, s)
    BY <1>2, <1>3 DEF Running
  <2>3. n # l /\ (n > 0 /\ request.failFast => s[n])
    BY <1>2, <1>4, <2>1 DEF Done
  <2>4. n + 1 <= l
    BY <1>4, <2>1, <2>2, <2>3 DEF CameOut
  <2>5. x \/ ~request.calls[n + 1].required
    BY <1>2, <1>4 DEF NextCall
  <2>6. ASSUME NEW i \in 1 .. n, ~s[i]
        PROVE  ~request.calls[i].required /\ ~request.failFast
    <3>1. ~request.calls[i].required /\ (request.failFast => i = n)
      BY <1>4, <2>2, <2>6 DEF CameOut
    <3> QED
      BY <2>3, <2>6, <3>1
  <2>7. \A i \in 1 .. n + 1 : i = n + 1 \/ i \in 1 .. n
    OBVIOUS
  <2> QED
    BY <1>5, <2>1, <2>4, <2>5, <2>6, <2>7 DEF CameOut
<1>16. effects' = before.effects + Cardinality({i \in DOMAIN Append(s, x) : Append(s, x)[i]})
  <2>1. PICK e \in Nat : e = before.effects
    BY <1>2, <1>3 DEF Running
  <2>2. PICK c : c = Cardinality({i \in DOMAIN s : s[i]})
    OBVIOUS
  <2>3. c \in Nat /\ Cardinality({i \in DOMAIN Append(s, x) : Append(s, x)[i]})
                     = c + (IF x THEN 1 ELSE 0)
    BY <2>2, CountUp
  <2>4. effects = e + c
    BY <1>2, <1>3, <2>1, <2>2 DEF Running
  <2>5. PICK d \in Nat : d = IF x THEN 1 ELSE 0
    OBVIOUS
  <2>6. effects' = (e + c) + d
    BY <2>4, <2>5
  <2>7. Cardinality({i \in DOMAIN Append(s, x) : Append(s, x)[i]}) = c + d
    BY <2>3, <2>5
  <2>8. (e + c) + d = e + (c + d)
    BY <2>3
  <2> QED
    BY <2>1, <2>6, <2>7, <2>8
<1>17. IF Storing(request)
         THEN StoredSoFar(results', before.results, id, Append(s, x))
         ELSE results' = before.results
  <2>1. CASE Storing(request)
    <3>1. StoredSoFar(results, before.results, id, s)
      BY <1>2, <1>3, <2>1 DEF Running
    <3>2. results' = Put(results, <<id, Len(s)>>, x)
      BY <1>2, <2>1 DEF Record, Storing
    <3>3. \A i \in Nat : <<id, i>> \notin DOMAIN before.results
      <4>1. WindowOK(total - MaxStoredBatches, total, counts, before.results) /\ id = total
        BY <1>2, <1>3 DEF Running
      <4>2. total \in 0 .. MaxTotal /\ total \notin DOMAIN counts
        BY <1>3, <4>1, MulticallNumbers DEF WindowOK, Types
      <4>3. ASSUME NEW i \in Nat, <<id, i>> \in DOMAIN before.results
            PROVE  FALSE
        <5>1. i \in 0 .. MaxCalls
          BY <4>1, <4>3 DEF WindowOK
        <5> QED
          BY <4>1, <4>2, <4>3, <5>1 DEF WindowOK
      <4> QED
        BY <4>3
    <3>4. StoredSoFar(Put(results, <<id, Len(s)>>, x), before.results, id, Append(s, x))
      BY <3>1, <3>3, StoreOne
    <3> QED
      BY <2>1, <3>2, <3>4
  <2>2. CASE ~Storing(request)
    BY <1>2, <1>3, <2>2 DEF Running, Record, Storing
  <2> QED
    BY <2>1, <2>2
<1>18. Running'
  <2>1. /\ executing' /\ admin' # None /\ frame'.config[1] # None /\ frame'.config[2] \notin {None, 0}
        /\ frame'.before.admin # None /\ frame'.before.maxSize \notin {None, 0}
        /\ frame'.id = total' /\ total' < MaxTotal
        /\ frame'.before.total = total' /\ frame'.before.counts = counts'
        /\ frame'.before.effects \in 0 .. MaxEffects
        /\ Len(frame'.request.calls) \in 1 .. MaxCalls
    BY <1>2, <1>3, <1>6, <1>7, <1>9, <1>12 DEF Running
  <2>2. WindowOK(total' - MaxStoredBatches, total', counts', frame'.before.results)
    BY <1>2, <1>3, <1>7, <1>9, <1>12 DEF Running
  <2>3. CameOut(frame'.request, frame'.outcomes)
    BY <1>9, <1>12, <1>15
  <2>4. effects' = frame'.before.effects
                   + Cardinality({i \in DOMAIN frame'.outcomes : frame'.outcomes[i]})
    BY <1>9, <1>12, <1>16
  <2>5. IF Storing(frame'.request)
          THEN StoredSoFar(results', frame'.before.results, frame'.id, frame'.outcomes)
          ELSE results' = frame'.before.results
    BY <1>9, <1>12, <1>17
  <2> QED
    BY <2>1, <2>2, <2>3, <2>4, <2>5 DEF Running
<1> QED
  BY <1>2, <1>6, <1>7, <1>9, <1>11, <1>12, <1>14, <1>18 DEF MulticallInv

\* The host undoes the batch.
LEMMA RollsBack ==
    ASSUME MulticallInv, frame # None, RollBack
    PROVE  MulticallInv' /\ frame' = None /\ Snapshot' = frame.before /\ UNCHANGED receipt
<1>1. PICK request \in Requests, id \in Nat, s \in Seq(BOOLEAN), before \in Snapshots,
           a \in Addresses, m \in Nat \ {0} :
        frame = [request |-> request, id |-> id, outcomes |-> s, before |-> before,
                 config |-> <<a, m>>]
  BY FrameParts
<1>2. frame.before = before /\ Running /\ Types
  BY <1>1 DEF MulticallInv
<1>3. before = [admin |-> before.admin, maxSize |-> before.maxSize, total |-> before.total,
                results |-> before.results, counts |-> before.counts, effects |-> before.effects]
      /\ before.admin \in Addresses \cup {None} /\ before.maxSize \in Nat \cup {None}
  BY DEF Snapshots
<1>4. /\ admin' = before.admin /\ maxSize' = before.maxSize /\ total' = before.total
      /\ results' = before.results /\ counts' = before.counts /\ effects' = before.effects
      /\ executing' = FALSE /\ frame' = None /\ UNCHANGED receipt
  BY <1>2 DEF RollBack
<1>5. Snapshot' = before
  BY <1>3, <1>4 DEF Snapshot
<1>6. /\ before.admin # None /\ before.maxSize \notin {None, 0} /\ before.total = total
      /\ before.counts = counts /\ before.effects \in 0 .. MaxEffects
      /\ WindowOK(total - MaxStoredBatches, total, counts, before.results)
  BY <1>2 DEF Running
<1>7. Types'
  BY <1>2, <1>3, <1>4, <1>6 DEF Types
<1>8. WindowOK(total' - MaxStoredBatches, total', counts', results')
  BY <1>4, <1>6
<1> QED
  BY <1>2, <1>4, <1>5, <1>6, <1>7, <1>8 DEF MulticallInv

\* The batch that returns Ok leaves the window one further on: the oldest batch
\* forgotten, its own outcomes kept if they were to be stored.
LEMMA WindowMoves ==
    ASSUME MulticallInv, frame # None, Finish, ~frame.request.simulate
    PROVE  /\ total' = total + 1
           /\ WindowOK(total' - MaxStoredBatches, total', counts', results')
           /\ DOMAIN counts' = {b \in DOMAIN counts : b > total - MaxStoredBatches}
                               \cup (IF frame.request.store THEN {total} ELSE {})
           /\ \A b \in DOMAIN counts' : b # total =>
                 /\ b \in DOMAIN counts /\ counts'[b] = counts[b]
                 /\ \A i \in 1 .. counts[b] :
                       results'[<<b, i - 1>>] = frame.before.results[<<b, i - 1>>]
           /\ frame.request.store =>
                 /\ counts'[total] = Len(frame.outcomes)
                 /\ \A i \in 1 .. Len(frame.outcomes) :
                       results'[<<total, i - 1>>] = frame.outcomes[i]
<1>1. PICK request \in Requests, id \in Nat, s \in Seq(BOOLEAN), before \in Snapshots,
           a \in Addresses, m \in Nat \ {0} :
        frame = [request |-> request, id |-> id, outcomes |-> s, before |-> before,
                 config |-> <<a, m>>]
  BY FrameParts
<1>2. /\ frame.request = request /\ frame.id = id /\ frame.outcomes = s /\ frame.before = before
      /\ ~request.simulate
  BY <1>1
<1>3. Running /\ Types
  BY DEF MulticallInv
<1>4. PICK t, lo, r0 : t = total /\ lo = total - MaxStoredBatches /\ r0 = before.results
  OBVIOUS
<1>5. /\ t \in 0 .. MaxTotal /\ t \in Nat /\ t + 1 \in 0 .. MaxTotal /\ lo \in Int /\ lo < t
      /\ lo + 1 = (t + 1) - MaxStoredBatches
  <2>1. MaxTotal \in Nat /\ MaxStoredBatches \in Nat \ {0} /\ total \in 0 .. MaxTotal /\ total < MaxTotal
    BY <1>3, MulticallNumbers DEF Running, Types
  <2> QED
    BY <1>4, <2>1
<1>6. id = t /\ WindowOK(lo, t, counts, r0)
  BY <1>2, <1>3, <1>4 DEF Running
<1>7. PICK l \in Nat : l = Len(request.calls)
  BY DEF Requests
<1>8. PICK n \in Nat : n = Len(s) /\ DOMAIN s = 1 .. n
  OBVIOUS
<1>9. n \in 1 .. MaxCalls
  <2>1. l \in 1 .. MaxCalls /\ n <= l
    BY <1>2, <1>3, <1>7, <1>8 DEF Running, CameOut
  <2>2. n = l \/ n > 0
    BY <1>2, <1>7, <1>8 DEF Finish, Done
  <2> QED
    BY <2>1, <2>2, MulticallNumbers
<1>10. IF request.store THEN StoredSoFar(results, r0, t, s) ELSE results = r0
  <2>1. IF Storing(request) THEN StoredSoFar(results, before.results, id, s) ELSE results = before.results
    BY <1>2, <1>3 DEF Running
  <2> QED
    BY <1>2, <1>4, <1>6, <2>1 DEF Storing
<1>11. PICK c : c = IF request.store THEN Put(counts, t, n) ELSE counts
  OBVIOUS
<1>12. WindowOK(lo, t + 1, c, results)
  <2>1. CASE request.store
    <3>1. StoredSoFar(results, r0, t, s) /\ lo <= t /\ Len(s) \in 1 .. MaxCalls
      BY <1>5, <1>8, <1>9, <1>10, <2>1
    <3>2. WindowOK(lo, t + 1, Put(counts, t, Len(s)), results)
      BY <1>5, <1>6, <3>1, StoredWindow
    <3> QED
      BY <1>8, <1>11, <2>1, <3>2
  <2>2. CASE ~request.store
    <3>1. \A b : b \in 0 .. t - 1 => b \in 0 .. (t + 1) - 1
      BY <1>5
    <3>2. WindowOK(lo, t + 1, counts, r0)
      BY <1>6, <3>1 DEF WindowOK
    <3> QED
      BY <1>10, <1>11, <2>2, <3>2
  <2> QED
    BY <2>1, <2>2
<1>13. Oldest(c, lo) = {b \in DOMAIN c : b = t - MaxStoredBatches}
  BY <1>4 DEF Oldest
<1>14. /\ total' = t + 1
       /\ counts' = Delete(c, Oldest(c, lo))
       /\ results' = Delete(results, Forgotten(c, results, lo))
  <2>1. total' = id + 1 /\ Prune(c, id)
    BY <1>2, <1>6, <1>8, <1>11 DEF Finish
  <2>2. Prune(c, t)
    BY <1>6, <2>1
  <2> QED
    BY <1>6, <1>13, <2>1, <2>2 DEF Prune, Forgotten
<1>15. PICK d, q : d = counts' /\ q = results'
  OBVIOUS
<1>16. d = Delete(c, Oldest(c, lo)) /\ q = Delete(results, Forgotten(c, results, lo))
  BY <1>14, <1>15
<1>17. /\ WindowOK(lo + 1, t + 1, d, q)
       /\ DOMAIN d = {b \in DOMAIN c : b > lo} /\ \A b \in DOMAIN d : d[b] = c[b]
       /\ DOMAIN q = {k \in DOMAIN results : k[1] > lo} /\ \A k \in DOMAIN q : q[k] = results[k]
  <2>1. t + 1 \in Nat /\ lo \in Int
    BY <1>5
  <2>2. WindowOK(lo + 1, t + 1, d, q) /\ After(c, results, lo, d, q)
    BY <1>12, <1>16, <2>1, PrunedWindow
  <2> QED
    BY <2>2 DEF After
<1>18. t \notin DOMAIN counts
  BY <1>5, <1>6 DEF WindowOK
<1>19. DOMAIN c = DOMAIN counts \cup (IF request.store THEN {t} ELSE {})
       /\ (\A b \in DOMAIN counts : c[b] = counts[b]) /\ (request.store => c[t] = n)
  BY <1>11, <1>18 DEF Put
<1>20. DOMAIN d = {b \in DOMAIN counts : b > lo} \cup (IF request.store THEN {t} ELSE {})
  BY <1>5, <1>17, <1>19
<1>21. ASSUME NEW b \in DOMAIN d, NEW i \in 1 .. d[b]
       PROVE  <<b, i - 1>> \in DOMAIN q /\ q[<<b, i - 1>>] = results[<<b, i - 1>>]
  <2>0. b \in 0 .. (t + 1) - 1 /\ d[b] \in 1 .. MaxCalls
    BY <1>17 DEF WindowOK
  <2>1. b \in 0 .. MaxTotal /\ d[b] \in 1 .. MaxCalls
    BY <1>5, <2>0, MulticallNumbers
  <2>2. i - 1 \in 0 .. MaxCalls /\ i - 1 < d[b]
    BY <2>1, MulticallNumbers
  <2>3. <<b, i - 1>> \in DOMAIN q
    BY <1>17, <2>1, <2>2 DEF WindowOK
  <2> QED
    BY <1>17, <2>3
<1>22. ASSUME NEW b \in DOMAIN d, b # t
       PROVE  /\ b \in DOMAIN counts /\ d[b] = counts[b]
              /\ \A i \in 1 .. counts[b] : q[<<b, i - 1>>] = r0[<<b, i - 1>>]
  <2>1. b \in DOMAIN counts /\ d[b] = counts[b]
    BY <1>17, <1>19, <1>20, <1>22
  <2>0. b \in 0 .. t - 1 /\ counts[b] \in 1 .. MaxCalls
    BY <1>6, <2>1 DEF WindowOK
  <2>2. b \in 0 .. MaxTotal /\ counts[b] \in 1 .. MaxCalls
    BY <1>5, <2>0, MulticallNumbers
  <2>3. ASSUME NEW i \in 1 .. counts[b]
        PROVE  q[<<b, i - 1>>] = r0[<<b, i - 1>>]
    <3>1. i - 1 \in 0 .. MaxCalls /\ i - 1 < counts[b]
      BY <2>2, MulticallNumbers
    <3>2. <<b, i - 1>> \in DOMAIN r0
      BY <1>6, <2>1, <2>2, <3>1 DEF WindowOK
    <3>3. results[<<b, i - 1>>] = r0[<<b, i - 1>>]
      BY <1>10, <3>2 DEF StoredSoFar
    <3> QED
      BY <1>21, <2>1, <3>3
  <2> QED
    BY <2>1, <2>3
<1>23. ASSUME request.store
       PROVE  d[t] = n /\ \A i \in 1 .. n : q[<<t, i - 1>>] = s[i]
  <2>1. t \in DOMAIN d /\ d[t] = n
    BY <1>17, <1>19, <1>20, <1>23
  <2>2. \A i \in 1 .. n : results[<<t, i - 1>>] = s[i]
    BY <1>8, <1>10, <1>23 DEF StoredSoFar
  <2> QED
    BY <1>21, <2>1, <2>2
<1>24. WindowOK(total' - MaxStoredBatches, total', counts', results')
  BY <1>5, <1>14, <1>15, <1>17
<1> QED
  BY <1>2, <1>4, <1>8, <1>14, <1>15, <1>20, <1>22, <1>23, <1>24

\* The batch returns Ok.
LEMMA Finishes ==
    ASSUME MulticallInv, frame # None, Finish
    PROVE  /\ MulticallInv' /\ frame' = None /\ receipt' # None
           /\ receipt'.request = frame.request /\ receipt'.outcomes = frame.outcomes
<1>1. PICK request \in Requests, id \in Nat, s \in Seq(BOOLEAN), before \in Snapshots,
           a \in Addresses, m \in Nat \ {0} :
        frame = [request |-> request, id |-> id, outcomes |-> s, before |-> before,
                 config |-> <<a, m>>]
  BY FrameParts
<1>2. frame.request = request /\ frame.outcomes = s /\ frame.before = before
  BY <1>1
<1>3. Running /\ Types
  BY DEF MulticallInv
<1>4. PICK t : t = [request |-> request, outcomes |-> s]
  OBVIOUS
<1>5. /\ t \in Receipts /\ t # None /\ t.request = request /\ t.outcomes = s
  <2>1. t \in Receipts
    BY <1>4 DEF Receipts
  <2> QED
    BY <1>4, <2>1, MulticallNone
<1>6. receipt' = t /\ executing' = FALSE /\ frame' = None /\ UNCHANGED <<admin, maxSize, effects>>
  BY <1>2, <1>4 DEF Finish, config
<1>7. total' \in 0 .. MaxTotal /\ WindowOK(total' - MaxStoredBatches, total', counts', results')
  <2>1. MaxTotal \in Nat /\ total \in 0 .. MaxTotal /\ total < MaxTotal
    BY <1>3, MulticallNumbers DEF Running, Types
  <2>2. CASE request.simulate
    <3>1. total' = total /\ counts' = counts /\ results' = results
      BY <1>2, <2>2 DEF Finish, stored
    <3>2. results = before.results
      BY <1>2, <1>3, <2>2 DEF Running, Storing
    <3>3. WindowOK(total - MaxStoredBatches, total, counts, before.results)
      BY <1>2, <1>3 DEF Running
    <3> QED
      BY <2>1, <3>1, <3>2, <3>3
  <2>3. CASE ~request.simulate
    <3>1. total' = total + 1 /\ WindowOK(total' - MaxStoredBatches, total', counts', results')
      BY <1>2, <2>3, WindowMoves
    <3> QED
      BY <2>1, <3>1
  <2> QED
    BY <2>2, <2>3
<1>8. Types'
  BY <1>3, <1>5, <1>6, <1>7 DEF Types
<1>9. admin' # None
  BY <1>3, <1>6 DEF Running
<1> QED
  BY <1>2, <1>5, <1>6, <1>7, <1>8, <1>9 DEF MulticallInv

\* The request a batch begins with.
LEMMA RequestTypes ==
    ASSUME NEW calls \in CallLists, NEW simulate \in BOOLEAN, NEW store \in BOOLEAN,
           NEW failFast \in BOOLEAN,
           NEW request, request = [calls |-> calls, simulate |-> simulate, store |-> store,
                                   failFast |-> failFast]
    PROVE  request \in Requests /\ Len(request.calls) <= MaxCalls
<1>1. PICK n \in 0 .. MaxCalls : calls \in [1 .. n -> Calls]
  BY DEF CallLists
<1>2. MaxCalls \in Nat /\ n \in Nat /\ n <= MaxCalls
  BY <1>1, MulticallNumbers
<1>3. calls \in Seq(Calls) /\ Len(calls) = n
  BY <1>1, <1>2
<1> QED
  BY <1>2, <1>3 DEF Requests

\* What a step does to the batch under way.
LEMMA StepKinds ==
    ASSUME MulticallInv, Next
    PROVE  /\ MulticallInv'
           /\ \/ UNCHANGED <<total, stored, effects, frame, receipt>>
              \/ frame = None /\ frame' # None /\ frame'.before = Snapshot /\ UNCHANGED receipt
              \/ frame # None /\ frame' # None /\ frame'.before = frame.before /\ UNCHANGED receipt
              \/ frame # None /\ frame' = None /\ Snapshot' = frame.before /\ UNCHANGED receipt
              \/ frame # None /\ Finish /\ frame' = None /\ receipt' # None
                 /\ receipt'.request = frame.request /\ receipt'.outcomes = frame.outcomes
<1>1. ASSUME NEW a \in Addresses, NEW n \in Sizes, Initialize(a, n) \/ SetMaxBatchSize(a, n)
      PROVE  MulticallInv' /\ UNCHANGED <<total, stored, effects, frame, receipt>>
  BY <1>1, Configures
<1>2. ASSUME NEW a \in Addresses, NEW b \in Addresses, TransferAdmin(a, b)
      PROVE  MulticallInv' /\ UNCHANGED <<total, stored, effects, frame, receipt>>
  BY <1>2, Configures
<1>3. ASSUME NEW calls \in CallLists, NEW simulate \in BOOLEAN, NEW store \in BOOLEAN,
             NEW failFast \in BOOLEAN, NEW g \in GasLimits \cup {None},
             Begin([calls |-> calls, simulate |-> simulate, store |-> store,
                    failFast |-> failFast], g)
      PROVE  /\ MulticallInv'
             /\ frame = None /\ frame' # None /\ frame'.before = Snapshot /\ UNCHANGED receipt
  <2>1. PICK request : request = [calls |-> calls, simulate |-> simulate, store |-> store,
                                  failFast |-> failFast]
    OBVIOUS
  <2>2. Begin(request, g)
    BY <1>3, <2>1
  <2>3. request \in Requests /\ Len(request.calls) <= MaxCalls
    BY <2>1, RequestTypes
  <2> QED
    BY <2>2, <2>3, Begins
<1>4. ASSUME CallSucceeds
      PROVE  /\ MulticallInv' /\ frame # None
             /\ frame' # None /\ frame'.before = frame.before /\ UNCHANGED receipt
  <2>1. /\ frame # None /\ ~Done /\ Record(TRUE) /\ effects' = effects + 1 /\ effects < MaxEffects
    BY <1>4 DEF CallSucceeds
  <2>2. effects' <= MaxEffects
    BY <2>1, MulticallNumbers DEF MulticallInv, Types
  <2>3. effects' = effects + (IF TRUE THEN 1 ELSE 0)
    BY <2>1
  <2> QED
    BY <2>1, <2>2, <2>3, Records
<1>5. ASSUME OptionalCallFails
      PROVE  /\ MulticallInv' /\ frame # None
             /\ frame' # None /\ frame'.before = frame.before /\ UNCHANGED receipt
  <2>1. /\ frame # None /\ ~Done /\ ~NextCall.required /\ Record(FALSE) /\ effects' = effects
    BY <1>5 DEF OptionalCallFails
  <2>2. effects \in Nat /\ effects <= MaxEffects
    BY MulticallNumbers DEF MulticallInv, Types
  <2>3. effects' = effects + (IF FALSE THEN 1 ELSE 0) /\ effects' <= MaxEffects
    BY <2>1, <2>2
  <2> QED
    BY <2>1, <2>3, Records
<1>6. ASSUME RequiredCallFails \/ Trap
      PROVE  /\ MulticallInv'
             /\ frame # None /\ frame' = None /\ Snapshot' = frame.before /\ UNCHANGED receipt
  <2>1. frame # None /\ RollBack
    BY <1>6 DEF RequiredCallFails, Trap
  <2> QED
    BY <2>1, RollsBack
<1>7. ASSUME Finish
      PROVE  /\ MulticallInv'
             /\ frame # None /\ frame' = None /\ receipt' # None
             /\ receipt'.request = frame.request /\ receipt'.outcomes = frame.outcomes
  <2>1. frame # None
    BY <1>7 DEF Finish
  <2> QED
    BY <1>7, <2>1, Finishes
<1> QED
  BY <1>1, <1>2, <1>3, <1>4, <1>5, <1>6, <1>7 DEF Next, Step

LEMMA InvKept == MulticallInv /\ [Next]_vars => MulticallInv'
<1>1. ASSUME MulticallInv, UNCHANGED vars
      PROVE  MulticallInv'
  <2>1. UNCHANGED <<admin, maxSize, total, executing, results, counts, effects, frame, receipt>>
    BY <1>1 DEF vars, config, stored
  <2> QED
    BY <1>1, <2>1 DEF MulticallInv, Types, Running
<1> QED
  BY <1>1, StepKinds

LEMMA MulticallStaysSound == Spec => []MulticallInv
<1> QED
  BY Started, InvKept, PTL DEF Spec

-----------------------------------------------------------------------------
(* What is stored is what get_batch_results returns.                       *)

\* The results stored while a batch runs are of its type too.
LEMMA ResultTypes ==
    ASSUME MulticallInv
    PROVE  /\ DOMAIN results \subseteq (0 .. MaxTotal) \X Nat
           /\ results \in [DOMAIN results -> BOOLEAN]
<1>n. MaxCalls \in Nat /\ MaxTotal \in Nat
  BY MulticallNumbers
<1>1. ASSUME NEW lo, NEW hi, NEW c, NEW r, WindowOK(lo, hi, c, r)
      PROVE  /\ DOMAIN r \subseteq (0 .. MaxTotal) \X Nat
             /\ r = [k \in DOMAIN r |-> r[k]] /\ \A k \in DOMAIN r : r[k] \in BOOLEAN
  BY <1>n, <1>1 DEF WindowOK
<1>2. /\ DOMAIN results \subseteq (0 .. MaxTotal) \X Nat
      /\ results = [k \in DOMAIN results |-> results[k]]
      /\ \A k \in DOMAIN results : results[k] \in BOOLEAN
  <2>1. CASE frame = None
    <3>1. WindowOK(total - MaxStoredBatches, total, counts, results)
      BY <2>1 DEF MulticallInv
    <3> QED
      BY <1>1, <3>1
  <2>2. CASE frame # None
    <3>1. PICK s \in Seq(BOOLEAN), id \in Nat, before \in Snapshots :
                  s = frame.outcomes /\ id = frame.id /\ before = frame.before
      BY <2>2, FrameParts
    <3> DEFINE r0 == before.results
    <3>2. /\ id \in 0 .. MaxTotal /\ WindowOK(total - MaxStoredBatches, total, counts, r0)
          /\ StoredSoFar(results, r0, id, s) \/ results = r0
      BY <2>2, <3>1 DEF MulticallInv, Running, Types
    <3>3. CASE results = r0
      BY <1>1, <3>2, <3>3
    <3>4. CASE StoredSoFar(results, r0, id, s)
      <4>1. PICK n \in Nat : n = Len(s) /\ DOMAIN s = 1 .. n
        OBVIOUS
      <4>2. \A i \in 1 .. n : i - 1 \in Nat /\ s[i] \in BOOLEAN
        BY <4>1
      <4>3. /\ DOMAIN r0 \subseteq (0 .. MaxTotal) \X Nat
            /\ \A k \in DOMAIN r0 : r0[k] \in BOOLEAN
        BY <1>1, <3>2
      <4>4. /\ results = [k \in DOMAIN results |-> results[k]]
            /\ DOMAIN results = DOMAIN r0 \cup {<<id, i - 1>> : i \in 1 .. n}
            /\ \A k \in DOMAIN r0 : results[k] = r0[k]
            /\ \A i \in 1 .. n : results[<<id, i - 1>>] = s[i]
        BY <3>4, <4>1 DEF StoredSoFar
      <4> QED
        BY <3>2, <4>2, <4>3, <4>4
    <3> QED
      BY <3>2, <3>3, <3>4
  <2> QED
    BY <2>1, <2>2
<1> QED
  BY <1>2

LEMMA TypesHold == MulticallInv => TypeOK
<1> SUFFICES ASSUME MulticallInv
             PROVE  TypeOK
  OBVIOUS
<1>n. MaxCalls \in Nat /\ MaxTotal \in Nat
  BY MulticallNumbers
<1>1. Types
  BY DEF MulticallInv
<1>2. DOMAIN counts \subseteq 0 .. MaxTotal /\ counts \in [DOMAIN counts -> Nat \ {0}]
  <2>1. \E r : WindowOK(total - MaxStoredBatches, total, counts, r)
    BY DEF MulticallInv, Running
  <2>2. /\ counts = [b \in DOMAIN counts |-> counts[b]]
        /\ \A b \in DOMAIN counts : b \in 0 .. total - 1 /\ counts[b] \in 1 .. MaxCalls
    BY <2>1 DEF WindowOK
  <2>3. total \in 0 .. MaxTotal
    BY <1>1 DEF Types
  <2>4. \A b \in DOMAIN counts : b \in 0 .. MaxTotal /\ counts[b] \in Nat \ {0}
    BY <1>n, <2>2, <2>3
  <2> QED
    BY <2>2, <2>4
<1>3. frame # None => frame.request \in Requests /\ frame.outcomes \in Seq(BOOLEAN)
  BY <1>1 DEF Types, Frames
<1>4. receipt # None => receipt.request \in Requests /\ receipt.outcomes \in Seq(BOOLEAN)
  BY <1>1 DEF Types, Receipts
<1> QED
  BY <1>1, <1>2, <1>3, <1>4, ResultTypes DEF TypeOK, Types

\* get_batch_results stops at the first missing result, which is the one after
\* the last counted.
LEMMA ReadsAll ==
    ASSUME NEW lo, NEW hi \in 0 .. MaxTotal, WindowOK(lo, hi, counts, results),
           NEW b \in DOMAIN counts
    PROVE  Len(GetBatchResults(b)) = counts[b]
<1>n. MaxCalls \in Nat /\ MaxTotal \in Nat
  BY MulticallNumbers
<1>1. PICK n \in Nat : n = counts[b] /\ n \in 1 .. MaxCalls /\ b \in 0 .. MaxTotal
  <2>1. counts[b] \in 1 .. MaxCalls /\ b \in 0 .. hi - 1
    BY DEF WindowOK
  <2> QED
    BY <1>n, <2>1
<1>2. \A i \in 0 .. MaxCalls : <<b, i>> \in DOMAIN results <=> i < n
  BY <1>1 DEF WindowOK
<1> DEFINE First(k) == /\ <<b, k>> \notin DOMAIN results
                       /\ \A i \in 0 .. k - 1 : <<b, i>> \in DOMAIN results
<1>3. First(n)
  <2>1. n \in 0 .. MaxCalls /\ \A i \in 0 .. n - 1 : i \in 0 .. MaxCalls /\ i < n
    BY <1>n, <1>1
  <2> QED
    BY <1>2, <2>1
<1>4. ASSUME NEW k \in 0 .. MaxCalls, First(k)
      PROVE  k = n
  <2>1. ~(k < n)
    BY <1>2, <1>4
  <2>2. n \in 0 .. MaxCalls /\ <<b, n>> \notin DOMAIN results
    BY <1>n, <1>1, <1>2
  <2>3. ~(n \in 0 .. k - 1)
    BY <1>4, <2>2
  <2> QED
    BY <1>1, <1>n, <2>1, <2>3
<1>5. (CHOOSE k \in 0 .. MaxCalls : First(k)) = n
  <2>1. n \in 0 .. MaxCalls
    BY <1>n, <1>1
  <2> HIDE DEF First
  <2> QED
    BY <1>3, <1>4, <2>1
<1>6. GetBatchResults(b) = [i \in 1 .. n |-> results[<<b, i - 1>>]]
  BY <1>5 DEF GetBatchResults
<1> QED
  BY <1>1, <1>6

LEMMA StoredAsCounted ==
    ASSUME NEW lo, NEW hi \in 0 .. MaxTotal, WindowOK(lo, hi, counts, results)
    PROVE  DOMAIN results = UNION {{b} \X (0 .. counts[b] - 1) : b \in DOMAIN counts}
<1>n. MaxCalls \in Nat /\ MaxTotal \in Nat
  BY MulticallNumbers
<1>1. \A b \in DOMAIN counts : b \in 0 .. MaxTotal /\ counts[b] \in 1 .. MaxCalls
  <2>1. \A b \in DOMAIN counts : b \in 0 .. hi - 1 /\ counts[b] \in 1 .. MaxCalls
    BY DEF WindowOK
  <2> QED
    BY <1>n, <2>1
<1>2. ASSUME NEW k \in DOMAIN results
      PROVE  \E b \in DOMAIN counts : k \in {b} \X (0 .. counts[b] - 1)
  <2>1. PICK b \in 0 .. MaxTotal, i \in 0 .. MaxCalls : k = <<b, i>>
    BY DEF WindowOK
  <2>2. b \in DOMAIN counts /\ i < counts[b]
    BY <2>1 DEF WindowOK
  <2>3. i \in 0 .. counts[b] - 1
    BY <1>1, <1>n, <2>2
  <2> QED
    BY <2>1, <2>2, <2>3
<1>3. ASSUME NEW b \in DOMAIN counts, NEW i \in 0 .. counts[b] - 1
      PROVE  <<b, i>> \in DOMAIN results
  <2>1. b \in 0 .. MaxTotal /\ i \in 0 .. MaxCalls /\ i < counts[b]
    BY <1>1, <1>n
  <2> QED
    BY <2>1 DEF WindowOK
<1> QED
  BY <1>2, <1>3

\* Between batches the guard is down, what is counted is of the last
\* MaxStoredBatches batches, and get_batch_results returns every outcome that
\* is stored: nothing is out of reach of the prune of execute_batch.
THEOREM ResultsStayInWindow == Spec => []ResultsWindow
<1>1. MulticallInv => ResultsWindow
  <2> SUFFICES ASSUME MulticallInv, frame = None
               PROVE  /\ ~executing
                      /\ \A b \in DOMAIN counts : total - MaxStoredBatches <= b /\ b < total
                      /\ \A b \in DOMAIN counts : Len(GetBatchResults(b)) = counts[b]
                      /\ DOMAIN results = UNION {{b} \X (0 .. counts[b] - 1) : b \in DOMAIN counts}
    BY TypesHold DEF ResultsWindow
  <2>1. ~executing /\ WindowOK(total - MaxStoredBatches, total, counts, results)
    BY DEF MulticallInv
  <2>2. total \in 0 .. MaxTotal
    BY DEF MulticallInv, Types
  <2>3. \A b \in DOMAIN counts : total - MaxStoredBatches <= b /\ b < total
    BY <2>1, <2>2, MulticallNumbers DEF WindowOK
  <2> QED
    BY <2>1, <2>2, <2>3, ReadsAll, StoredAsCounted
<1> QED
  BY <1>1, MulticallStaysSound, PTL

-----------------------------------------------------------------------------
(* A batch, for all its steps, happens at once.                            *)

\* Between two batches a step shows nothing, and neither does one of a batch
\* under way that is not the last.
LEMMA NothingSeen ==
    ASSUME \/ UNCHANGED <<total, stored, effects, frame, receipt>>
           \/ frame = None /\ frame' # None /\ frame'.before = Snapshot /\ UNCHANGED receipt
           \/ frame # None /\ frame' # None /\ frame'.before = frame.before /\ UNCHANGED receipt
           \/ frame # None /\ frame' = None /\ Snapshot' = frame.before /\ UNCHANGED receipt
    PROVE  UNCHANGED Atomic!vars
<1>1. /\ Seen'.total = Seen.total /\ Seen'.effects = Seen.effects
      /\ Seen'.results = Seen.results /\ Seen'.counts = Seen.counts /\ UNCHANGED receipt
  <2>1. CASE UNCHANGED <<total, stored, effects, frame, receipt>>
    BY <2>1 DEF Seen, Snapshot, stored
  <2>2. CASE Seen' = Seen /\ UNCHANGED receipt
    BY <2>2
  <2>3. \/ UNCHANGED <<total, stored, effects, frame, receipt>>
        \/ Seen' = Seen /\ UNCHANGED receipt
    BY DEF Seen
  <2> QED
    BY <2>1, <2>2, <2>3
<1>2. Outcomes(Seen)' = Outcomes(Seen)
  BY <1>1 DEF Outcomes
<1> QED
  BY <1>1, <1>2 DEF Atomic!vars

\* What came of a batch that returns Ok is what its caller asked for.
LEMMA ComesOut ==
    ASSUME MulticallInv, frame # None, Done
    PROVE  Atomic!Plausible(frame.request, frame.outcomes)
<1>1. PICK request \in Requests, s \in Seq(BOOLEAN) : request = frame.request /\ s = frame.outcomes
  BY FrameParts
<1>2. PICK n \in Nat : n = Len(s) /\ DOMAIN s = 1 .. n
  OBVIOUS
<1>3. PICK l \in Nat : l = Len(request.calls)
  BY DEF Requests
<1>4. CameOut(request, s) /\ l \in 1 .. MaxCalls
  BY <1>1, <1>3 DEF MulticallInv, Running
<1>5. n = l \/ (n > 0 /\ request.failFast /\ ~s[n])
  BY <1>1, <1>2, <1>3 DEF Done
<1>6. /\ n <= l
      /\ \A i \in 1 .. n : ~s[i] => ~request.calls[i].required /\ (request.failFast => i = n)
  BY <1>2, <1>3, <1>4 DEF CameOut
<1>7. n \in 1 .. l
  BY <1>4, <1>5, <1>6
<1>8. {i \in 1 .. n : ~s[i]} = {} => n = l
  BY <1>5, <1>7
<1>9. IF request.failFast THEN {i \in 1 .. n : ~s[i]} \subseteq {n} ELSE n = l
  BY <1>5, <1>6
<1> QED
  BY <1>1, <1>2, <1>3, <1>6, <1>7, <1>8, <1>9 DEF Atomic!Plausible

\* The stored outcomes, batch by batch.
LEMMA KeptSince ==
    ASSUME MulticallInv, frame # None, Finish, ~frame.request.simulate,
           NEW recent, recent = {b \in DOMAIN counts : b > total - MaxStoredBatches}
    PROVE  Outcomes(Snapshot)' =
             [b \in recent \cup (IF frame.request.store THEN {total} ELSE {}) |->
                IF b = total THEN frame.outcomes ELSE Outcomes(frame.before)[b]]
<1>1. PICK s \in Seq(BOOLEAN), before \in Snapshots :
        s = frame.outcomes /\ before = frame.before
  BY FrameParts
<1>2. PICK t, store, r0, c : t = total /\ store = frame.request.store /\ r0 = before.results /\ c = counts
  OBVIOUS
<1>3. PICK d, q : d = counts' /\ q = results'
  OBVIOUS
<1>4. before.counts = c /\ t \notin DOMAIN c
  <2>1. before.counts = c /\ WindowOK(total - MaxStoredBatches, total, counts, r0)
    BY <1>1, <1>2 DEF MulticallInv, Running
  <2>2. total \in Nat
    BY MulticallNumbers DEF MulticallInv, Types
  <2> QED
    BY <1>2, <2>1, <2>2 DEF WindowOK
<1>5. /\ DOMAIN d = recent \cup (IF store THEN {t} ELSE {})
      /\ \A b \in DOMAIN d : b # t =>
            /\ b \in DOMAIN c /\ d[b] = c[b]
            /\ \A i \in 1 .. c[b] : q[<<b, i - 1>>] = r0[<<b, i - 1>>]
      /\ store => d[t] = Len(s) /\ \A i \in 1 .. Len(s) : q[<<t, i - 1>>] = s[i]
  BY <1>1, <1>2, <1>3, WindowMoves
<1>6. Outcomes(Snapshot)' = [b \in DOMAIN d |-> [i \in 1 .. d[b] |-> q[<<b, i - 1>>]]]
  BY <1>3 DEF Outcomes, Snapshot
<1>7. Outcomes(before) = [b \in DOMAIN c |-> [i \in 1 .. c[b] |-> r0[<<b, i - 1>>]]]
  BY <1>2, <1>4 DEF Outcomes
<1>8. ASSUME NEW b \in DOMAIN d
      PROVE  [i \in 1 .. d[b] |-> q[<<b, i - 1>>]] = IF b = t THEN s ELSE Outcomes(before)[b]
  <2>1. CASE b = t
    <3>1. store
      BY <1>2, <1>4, <1>5, <2>1
    <3>2. s = [i \in 1 .. Len(s) |-> s[i]]
      OBVIOUS
    <3> QED
      BY <1>5, <2>1, <3>1, <3>2
  <2>2. CASE b # t
    <3>1. b \in DOMAIN c /\ d[b] = c[b] /\ \A i \in 1 .. c[b] : q[<<b, i - 1>>] = r0[<<b, i - 1>>]
      BY <1>5, <2>2
    <3>2. Outcomes(before)[b] = [i \in 1 .. c[b] |-> r0[<<b, i - 1>>]]
      BY <1>7, <3>1
    <3> QED
      BY <2>2, <3>1, <3>2
  <2> QED
    BY <2>1, <2>2
<1> QED
  BY <1>1, <1>2, <1>5, <1>6, <1>8

\* The last step of a batch that returns Ok is the batch.
LEMMA HappensAtOnce ==
    ASSUME MulticallInv, frame # None, Finish, frame' = None, receipt' # None,
           receipt'.request = frame.request, receipt'.outcomes = frame.outcomes
    PROVE  Atomic!Next
<1>1. PICK request \in Requests, s \in Seq(BOOLEAN), before \in Snapshots :
        request = frame.request /\ s = frame.outcomes /\ before = frame.before
  BY FrameParts
<1>2. Seen = before /\ Seen' = Snapshot'
  BY <1>1 DEF Seen
<1>3. /\ before.total = total /\ before.counts = counts
      /\ effects = before.effects + Cardinality({i \in DOMAIN s : s[i]})
  BY <1>1 DEF MulticallInv, Running
<1>4. Atomic!Plausible(receipt'.request, receipt'.outcomes)
  BY ComesOut DEF Finish
<1>5. /\ Seen'.total = total' /\ Seen'.effects = effects /\ Seen'.results = results'
      /\ Seen'.counts = counts'
  BY <1>2 DEF Snapshot, Finish
<1>6. Seen'.effects = Seen.effects + Cardinality({i \in DOMAIN receipt'.outcomes : receipt'.outcomes[i]})
  BY <1>1, <1>2, <1>3, <1>5
<1>7. ASSUME request.simulate
      PROVE  Seen'.total = Seen.total /\ Outcomes(Seen)' = Outcomes(Seen)
  <2>1. total' = total /\ counts' = counts /\ results' = results
    BY <1>1, <1>7 DEF Finish, stored
  <2>2. results = before.results
    BY <1>1, <1>7 DEF MulticallInv, Running, Storing
  <2> QED
    BY <1>2, <1>3, <1>5, <2>1, <2>2 DEF Outcomes
<1>8. ASSUME ~request.simulate
      PROVE  /\ Seen'.total = Seen.total + 1
             /\ Outcomes(Seen)' =
                  [b \in {b \in DOMAIN Outcomes(Seen) : b > Seen.total - MaxStoredBatches}
                           \cup (IF request.store THEN {Seen.total} ELSE {}) |->
                     IF b = Seen.total THEN receipt'.outcomes ELSE Outcomes(Seen)[b]]
  <2>1. PICK recent : recent = {b \in DOMAIN counts : b > total - MaxStoredBatches}
    OBVIOUS
  <2>2. Outcomes(Snapshot)' =
          [b \in recent \cup (IF request.store THEN {total} ELSE {}) |->
             IF b = total THEN s ELSE Outcomes(before)[b]]
    BY <1>1, <1>8, <2>1, KeptSince
  <2>3. Outcomes(Seen)' = Outcomes(Snapshot)'
    BY <1>2 DEF Outcomes
  <2>4. DOMAIN Outcomes(Seen) = DOMAIN counts
    BY <1>2, <1>3 DEF Outcomes
  <2>5. {b \in DOMAIN Outcomes(Seen) : b > Seen.total - MaxStoredBatches} = recent
    BY <1>2, <1>3, <2>1, <2>4
  <2>6. total' = total + 1
    BY <1>1, <1>8, WindowMoves
  <2> QED
    BY <1>1, <1>2, <1>3, <1>5, <2>2, <2>3, <2>5, <2>6
<1>9. Atomic!Cardinality({i \in DOMAIN receipt'.outcomes : receipt'.outcomes[i]})
        = Cardinality({i \in DOMAIN receipt'.outcomes : receipt'.outcomes[i]})
  BY DEF Atomic!Cardinality, Cardinality
<1> QED
  BY <1>1, <1>4, <1>6, <1>7, <1>8, <1>9 DEF Atomic!Next, Atomic!Batch

\* A batch, whatever happens between its calls, takes effect in one step or not
\* at all: when it returns Ok its calls' effects, its number and its stored
\* outcomes appear together, and no required call failed.
THEOREM BatchesStayAtomic == Spec => BatchesAreAtomic
<1>1. Init => Atomic!Init
  <2> SUFFICES ASSUME Init
               PROVE  Atomic!Init
    OBVIOUS
  <2>1. Seen = Snapshot
    BY DEF Init, Seen
  <2>2. Seen.total = 0 /\ Seen.effects = 0 /\ Seen.counts = << >> /\ receipt = None
    BY <2>1 DEF Init, Snapshot
  <2>3. DOMAIN Outcomes(Seen) = {}
    BY <2>2 DEF Outcomes
  <2> QED
    BY <2>2, <2>3 DEF Atomic!Init
<1>2. MulticallInv /\ [Next]_vars => [Atomic!Next]_(Atomic!vars)
  <2>1. ASSUME UNCHANGED vars
        PROVE  UNCHANGED Atomic!vars
    <3>1. UNCHANGED <<total, stored, effects, frame, receipt>>
      BY <2>1 DEF vars
    <3> QED
      BY <3>1, NothingSeen
  <2>2. ASSUME MulticallInv, Next
        PROVE  Atomic!Next \/ UNCHANGED Atomic!vars
    BY <2>2, StepKinds, NothingSeen, HappensAtOnce
  <2> QED
    BY <2>1, <2>2
<1> QED
  BY <1>1, <1>2, MulticallStaysSound, PTL DEF Spec, BatchesAreAtomic, Atomic!Spec

=============================================================================
