-------------------------- MODULE StandaloneProofs --------------------------
(***************************************************************************)
(* The parts that share no state, proved for every value of the constants: *)
(* the api-server's address limiter, the execution and the quote contract, *)
(* the collector and the registry.  Each has an inductive invariant of its *)
(* own.                                                                    *)
(***************************************************************************)
EXTENDS RouterRegistry, RouterExecution, RouterQuote, ScrapeLoop, AddressLimiter, VectorLemmas

-----------------------------------------------------------------------------
(* The address limiter: its invariant.                                     *)

CallKinds == {"new", "arrived", "admitted", "refused", "answered"}

\* A request that was counted in a window.
Done(i) == call[i].at \in {"admitted", "refused", "answered"}
Admitted(i) == call[i].at = "admitted"

\* A request that began its window and had read the clock since the last sweep
\* of its address.
Begun(i) == Admitted(i) /\ call[i].in = i /\ ~call[i].late

\* What a refused request was told falls short of what it takes by less than a
\* second.
AnswerNear(i) == call[i].told + (call[i].retry + 1) * Second > call[i].opens

CallOK(i) ==
    /\ call[i].at \in CallKinds
    /\ call[i].at # "new" => call[i].address \in Addressees /\ call[i].stamp \in 0 .. moment
    /\ call[i].at \in {"admitted", "refused"} =>
          call[i].in \in CallIds /\ Done(call[i].in)
          /\ call[call[i].in].address = call[i].address
    /\ Admitted(i) => call[i].remaining \in 0 .. CallLimit - 1
    /\ call[i].at = "answered" => AnswerNear(i)

LimiterTypes ==
    /\ moment \in Nat
    /\ DOMAIN call = CallIds /\ call = [i \in CallIds |-> call[i]]
    /\ DOMAIN windows \subseteq Addressees /\ DOMAIN maker = DOMAIN windows
    /\ \A a \in DOMAIN windows : windows[a].count \in Nat /\ windows[a].start \in 0 .. moment
    /\ sweeper.read \in 0 .. moment
    /\ sweptAt \in [Addressees -> Nat]
    /\ \A a \in Addressees : sweptAt[a] <= sweeper.read

\* Who began a window was counted in it, and whoever it admits was told a
\* remainder that its count has since passed.
WindowOK(a) ==
    /\ maker[a] \in CallIds /\ Done(maker[a]) /\ call[maker[a]].address = a
    /\ \A j \in CallIds : Admitted(j) /\ call[j].in = maker[a] =>
          CallLimit - windows[a].count <= call[j].remaining

RemaindersDiffer ==
    \A i, j \in CallIds :
        Admitted(i) /\ Admitted(j) /\ i # j /\ call[i].in = call[j].in =>
            call[i].remaining # call[j].remaining

\* A window that began is the current one, or a window's length before the
\* current one, or before the last sweep of its address.
Outdated(i) ==
    LET a == call[i].address
    IN  \/ a \in DOMAIN windows /\ maker[a] = i /\ windows[a].start = call[i].stamp
        \/ a \in DOMAIN windows /\ call[i].stamp + LimitWindow <= windows[a].start
        \/ call[i].stamp + LimitWindow <= sweptAt[a]

WindowsApart ==
    \A i, j \in CallIds :
        Begun(i) /\ Begun(j) /\ i # j /\ call[i].address = call[j].address =>
            \/ call[i].stamp - call[j].stamp >= LimitWindow
            \/ call[j].stamp - call[i].stamp >= LimitWindow

LimiterInv ==
    /\ LimiterTypes
    /\ \A i \in CallIds : CallOK(i)
    /\ \A a \in DOMAIN windows : WindowOK(a)
    /\ RemaindersDiffer
    /\ \A i \in CallIds : Begun(i) => Outdated(i)
    /\ WindowsApart

-----------------------------------------------------------------------------
(* The address limiter: its steps.                                         *)

LEMMA LimiterStarts == LimiterInit => LimiterInv
<1> SUFFICES ASSUME LimiterInit
             PROVE  LimiterInv
  OBVIOUS
<1>1. \A i \in CallIds : call[i].at = "new"
  BY DEF LimiterInit
<1>2. DOMAIN windows = {} /\ DOMAIN maker = {}
  BY DEF LimiterInit
<1>3. LimiterTypes
  BY <1>2 DEF LimiterInit, LimiterTypes
<1>4. \A i \in CallIds : CallOK(i)
  BY <1>1 DEF CallOK, CallKinds, Admitted
<1> QED
  BY <1>1, <1>2, <1>3, <1>4 DEF LimiterInv, RemaindersDiffer, WindowsApart, Begun, Admitted

\* The clock, and what reads it, only go on.
LEMMA ClockGoesOn ==
    ASSUME LimiterInv, UNCHANGED <<windows, call, maker, sweptAt>>,
           moment' \in Nat, moment <= moment',
           sweeper'.read \in 0 .. moment', sweeper.read <= sweeper'.read
    PROVE  LimiterInv'
<1>1. LimiterTypes'
  BY DEF LimiterInv, LimiterTypes
<1>2. \A i \in CallIds : CallOK(i)'
  BY DEF LimiterInv, LimiterTypes, CallOK, Admitted, Done, AnswerNear
<1>3. \A a \in DOMAIN windows' : WindowOK(a)'
  BY DEF LimiterInv, WindowOK, Admitted, Done
<1>4. RemaindersDiffer' /\ WindowsApart'
  BY DEF LimiterInv, RemaindersDiffer, WindowsApart, Begun, Admitted
<1>5. \A i \in CallIds : Begun(i)' => Outdated(i)'
  BY DEF LimiterInv, Begun, Outdated, Admitted
<1> QED
  BY <1>1, <1>2, <1>3, <1>4, <1>5 DEF LimiterInv

LEMMA SweepBeginsStep ==
    ASSUME LimiterInv, SweepBegins
    PROVE  LimiterInv'
<1>1. sweeper' = [read |-> moment, left |-> Addressees, due |-> sweeper.due + LimitWindow]
  BY DEF SweepBegins
<1>2. sweeper'.read = moment
  BY <1>1
<1> QED
  BY <1>2, ClockGoesOn DEF SweepBegins, LimiterInv, LimiterTypes

LEMMA TimePassesStep ==
    ASSUME LimiterInv, TimePasses
    PROVE  LimiterInv'
  BY ClockGoesOn DEF TimePasses, LimiterInv, LimiterTypes

\* A request that moves on without being counted: i becomes r.
LEMMA CallMoves ==
    ASSUME LimiterInv, UNCHANGED <<moment, windows, sweeper, maker, sweptAt>>,
           NEW i \in CallIds, NEW r, call' = [call EXCEPT ![i] = r],
           ~Admitted(i), r.at # "admitted", r.at # "new",
           r.at \in {"arrived", "answered"},
           Done(i) => r.at = "answered" /\ r.address = call[i].address,
           r.address \in Addressees, r.stamp \in 0 .. moment,
           r.at = "answered" => r.told + (r.retry + 1) * Second > r.opens
    PROVE  LimiterInv'
<1>1. DOMAIN call = CallIds /\ call = [j \in CallIds |-> call[j]]
  BY DEF LimiterInv, LimiterTypes
<1>2. /\ call'[i] = r /\ DOMAIN call' = CallIds /\ call' = [j \in CallIds |-> call'[j]]
      /\ \A j \in CallIds : j # i => call'[j] = call[j]
  BY <1>1
<1>3. \A j \in CallIds : /\ Admitted(j)' <=> Admitted(j)
                         /\ Admitted(j) => call'[j] = call[j]
                         /\ Done(j) => Done(j)' /\ call'[j].address = call[j].address
  BY <1>2 DEF Admitted, Done
<1>4. LimiterTypes'
  BY <1>2 DEF LimiterInv, LimiterTypes
<1>5. ASSUME NEW j \in CallIds
      PROVE  CallOK(j)'
  <2>1. CASE j = i
    BY <1>2, <2>1 DEF CallOK, CallKinds, Admitted, AnswerNear
  <2>2. CASE j # i
    <3>1. CallOK(j) /\ call'[j] = call[j]
      BY <1>2, <2>2 DEF LimiterInv
    <3> QED
      BY <1>3, <3>1 DEF CallOK, CallKinds, Admitted, AnswerNear
  <2> QED
    BY <2>1, <2>2
<1>6. ASSUME NEW a \in DOMAIN windows'
      PROVE  WindowOK(a)'
  <2>1. WindowOK(a)
    BY <1>6 DEF LimiterInv
  <2> QED
    BY <1>3, <2>1 DEF WindowOK
<1>7. RemaindersDiffer'
  BY <1>3 DEF LimiterInv, RemaindersDiffer
<1>8. \A j \in CallIds : Begun(j)' <=> Begun(j)
  BY <1>3 DEF Begun
<1>9. \A j \in CallIds : Begun(j)' => Outdated(j)' /\ call'[j] = call[j]
  BY <1>3, <1>8 DEF LimiterInv, Outdated, Begun
<1>10. WindowsApart'
  BY <1>8, <1>9 DEF LimiterInv, WindowsApart
<1> QED
  BY <1>4, <1>5, <1>6, <1>7, <1>9, <1>10 DEF LimiterInv

LEMMA CallArrivesStep ==
    ASSUME LimiterInv, NEW i \in CallIds, NEW a \in Addressees, CallArrives(i, a)
    PROVE  LimiterInv'
<1>1. PICK r : r = [at |-> "arrived", address |-> a, stamp |-> moment]
  OBVIOUS
<1>2. call' = [call EXCEPT ![i] = r] /\ r.at = "arrived" /\ r.address = a /\ r.stamp = moment
  BY <1>1 DEF CallArrives
<1>3. ~Admitted(i) /\ ~Done(i)
  BY DEF CallArrives, Admitted, Done
<1>4. moment \in 0 .. moment
  BY DEF LimiterInv, LimiterTypes
<1> QED
  BY <1>2, <1>3, <1>4, CallMoves DEF CallArrives

\* Whole seconds, and one more, are longer than what they were cut from.
LEMMA SecondsCut ==
    ASSUME NEW s \in Nat \ {0}, NEW left \in Int, NEW retry \in Int,
           retry >= left \div s, retry >= 1
    PROVE  (retry + 1) * s > left
<1>1. PICK q \in Int : q = left \div s
  OBVIOUS
<1>2. left < (q + 1) * s
  BY <1>1
<1>3. (q + 1) * s <= (retry + 1) * s
  <2>1. q + 1 <= retry + 1
    BY <1>1
  <2> QED
    BY <2>1
<1>4. (q + 1) * s \in Int /\ (retry + 1) * s \in Int
  OBVIOUS
<1> QED
  BY <1>2, <1>3, <1>4

LEMMA RefuseStep ==
    ASSUME LimiterInv, NEW i \in CallIds, Refuse(i)
    PROVE  LimiterInv'
<1>1. PICK a : a = call[i].address
  OBVIOUS
<1>2. /\ call[i].at = "refused" /\ a \in Addressees /\ call[i].stamp \in 0 .. moment
      /\ moment \in Nat
  BY <1>1 DEF LimiterInv, LimiterTypes, CallOK, Refuse
<1>3. PICK opens : opens = IF a \in DOMAIN windows THEN windows[a].start + LimitWindow ELSE moment
  OBVIOUS
<1>4. PICK r : r = [at |-> "answered", address |-> a, stamp |-> call[i].stamp,
                    told |-> moment, retry |-> RetryAfterSecs(a), opens |-> opens]
  OBVIOUS
<1>5. call' = [call EXCEPT ![i] = r]
  BY <1>1, <1>3, <1>4 DEF Refuse
<1>6. /\ r.at = "answered" /\ r.address = a /\ r.stamp = call[i].stamp
      /\ r.told = moment /\ r.retry = RetryAfterSecs(a) /\ r.opens = opens
  BY <1>4
<1>7. moment + (RetryAfterSecs(a) + 1) * Second > opens
  <2>1. PICK s \in Nat \ {0} : s = Second
    BY LimiterLimits
  <2>2. CASE a \in DOMAIN windows
    <3>1. PICK left \in Int : left = windows[a].start + LimitWindow - moment
      BY <1>2, <2>2, LimiterLimits DEF LimiterInv, LimiterTypes
    <3>2. PICK q \in Int : q = left \div s
      BY <2>1
    <3>3. PICK retry \in Int : retry = RetryAfterSecs(a) /\ retry >= q /\ retry >= 1
      BY <2>1, <2>2, <3>1, <3>2 DEF RetryAfterSecs
    <3>4. (retry + 1) * s > left
      BY <3>2, <3>3, SecondsCut
    <3>5. opens = moment + left
      BY <1>2, <1>3, <2>2, <3>1, LimiterLimits DEF LimiterInv, LimiterTypes
    <3> QED
      BY <1>2, <2>1, <3>3, <3>4, <3>5
  <2>3. CASE a \notin DOMAIN windows
    <3>1. RetryAfterSecs(a) = 1 /\ opens = moment
      BY <1>3, <2>3 DEF RetryAfterSecs
    <3> QED
      BY <1>2, <2>1, <3>1
  <2> QED
    BY <2>2, <2>3
<1>8. ~Admitted(i)
  BY <1>2 DEF Admitted
<1>9. UNCHANGED <<moment, windows, sweeper, maker, sweptAt>>
  BY DEF Refuse
<1>10. /\ r.at \in {"arrived", "answered"} /\ r.address = call[i].address
       /\ r.address \in Addressees /\ r.stamp \in 0 .. moment
       /\ r.told + (r.retry + 1) * Second > r.opens
  BY <1>1, <1>2, <1>6, <1>7
<1> QED
  BY <1>5, <1>6, <1>8, <1>9, <1>10, CallMoves

LEMMA SweepVisitsStep ==
    ASSUME LimiterInv, NEW a \in Addressees, SweepVisits(a)
    PROVE  LimiterInv'
<1>1. /\ UNCHANGED <<moment, call>> /\ sweeper'.read = sweeper.read
      /\ moment \in Nat /\ sweeper.read \in 0 .. moment
  BY DEF SweepVisits, LimiterInv, LimiterTypes
<1>2. CASE UNCHANGED <<windows, maker, sweptAt>>
  BY <1>1, <1>2, ClockGoesOn
<1>3. CASE /\ a \in DOMAIN windows /\ WindowOver(a)
           /\ windows' = Delete(windows, {a}) /\ maker' = Delete(maker, {a})
           /\ sweptAt' = [sweptAt EXCEPT ![a] = sweeper.read]
  <2>1. /\ DOMAIN windows' = DOMAIN windows \ {a} /\ DOMAIN maker' = DOMAIN windows'
        /\ \A b \in DOMAIN windows' : windows'[b] = windows[b] /\ maker'[b] = maker[b]
    BY <1>3 DEF Delete, LimiterInv, LimiterTypes
  <2>2. /\ sweptAt' \in [Addressees -> Nat]
        /\ \A b \in Addressees :
              /\ sweptAt'[b] = IF b = a THEN sweeper.read ELSE sweptAt[b]
              /\ sweptAt'[b] \in Nat /\ sweptAt[b] \in Nat
              /\ sweptAt[b] <= sweptAt'[b] /\ sweptAt'[b] <= sweeper.read
    BY <1>1, <1>3 DEF LimiterInv, LimiterTypes
  <2>3. windows[a].start \in Nat /\ windows[a].start + LimitWindow <= sweptAt'[a]
    BY <1>1, <1>3, <2>2, LimiterLimits DEF WindowOver, LimiterInv, LimiterTypes
  <2>4. LimiterTypes'
    BY <1>1, <2>1, <2>2 DEF LimiterInv, LimiterTypes
  <2>5. \A i \in CallIds : CallOK(i)'
    BY <1>1 DEF LimiterInv, CallOK, Admitted, Done, AnswerNear
  <2>6. \A b \in DOMAIN windows' : WindowOK(b)'
    BY <1>1, <2>1 DEF LimiterInv, WindowOK, Admitted, Done
  <2>7. RemaindersDiffer' /\ WindowsApart'
    BY <1>1 DEF LimiterInv, RemaindersDiffer, WindowsApart, Begun, Admitted
  <2>8. ASSUME NEW i \in CallIds, Begun(i)'
        PROVE  Outdated(i)'
    <3>1. PICK b : b = call[i].address /\ b \in Addressees
      BY <1>1, <2>8 DEF LimiterInv, CallOK, CallKinds, Begun, Admitted
    <3>2. PICK t \in Nat : t = call[i].stamp
      BY <1>1, <2>8 DEF LimiterInv, CallOK, CallKinds, Begun, Admitted
    <3>3. Outdated(i)
      BY <1>1, <2>8 DEF LimiterInv, Begun, Admitted
    <3>4. \/ b \in DOMAIN windows /\ maker[b] = i /\ windows[b].start = t
          \/ b \in DOMAIN windows /\ t + LimitWindow <= windows[b].start
          \/ t + LimitWindow <= sweptAt[b]
      BY <3>1, <3>2, <3>3 DEF Outdated
    <3>5. CASE b = a
      <4>1. t + LimitWindow <= sweptAt'[b]
        <5>1. LimitWindow \in Nat
          BY LimiterLimits
        <5> QED
          BY <2>2, <2>3, <3>1, <3>4, <3>5, <5>1
      <4> QED
        BY <1>1, <3>1, <3>2, <4>1 DEF Outdated
    <3>6. CASE b # a
      BY <1>1, <2>1, <2>2, <3>1, <3>2, <3>4, <3>6 DEF Outdated
    <3> QED
      BY <3>5, <3>6
  <2> QED
    BY <2>4, <2>5, <2>6, <2>7, <2>8 DEF LimiterInv
<1> QED
  BY <1>2, <1>3 DEF SweepVisits

\* What a request finds in its bucket and leaves there: in a window that began
\* at s with request m, it is the n-th.
Counts(i, a, t, begins, n, s, m) ==
    /\ a = call[i].address /\ t = call[i].stamp
    /\ begins <=> a \notin DOMAIN windows \/ t - windows[a].start >= LimitWindow
    /\ begins => n = 1 /\ s = t /\ m = i
    /\ ~begins => n = windows[a].count + 1 /\ s = windows[a].start /\ m = maker[a]
    /\ DOMAIN windows' = DOMAIN windows \cup {a}
    /\ windows'[a].count = n /\ windows'[a].start = s /\ maker'[a] = m
    /\ \A b \in DOMAIN windows \ {a} : windows'[b] = windows[b] /\ maker'[b] = maker[b]
    /\ call'[i].at = IF n <= CallLimit THEN "admitted" ELSE "refused"
    /\ call'[i].address = a /\ call'[i].stamp = t /\ call'[i].in = m
    /\ call'[i].late = (t < sweptAt[a])
    /\ n <= CallLimit => call'[i].remaining = CallLimit - n

LEMMA Counting ==
    ASSUME LimiterInv, NEW i \in CallIds, CheckAndRemaining(i)
    PROVE  /\ \E begins \in BOOLEAN : \E n \in Nat \ {0} : \E s \in 0 .. moment : \E m \in CallIds :
                 Counts(i, call[i].address, call[i].stamp, begins, n, s, m)
           /\ call[i].address \in Addressees /\ call[i].stamp \in 0 .. moment
           /\ DOMAIN maker' = DOMAIN windows'
           /\ DOMAIN call' = CallIds /\ call' = [j \in CallIds |-> call'[j]]
           /\ \A j \in CallIds : j # i => call'[j] = call[j]
           /\ ~Done(i)
<1>1. PICK a : a = call[i].address
  OBVIOUS
<1>2. PICK t : t = call[i].stamp
  OBVIOUS
<1>3. a \in Addressees /\ t \in 0 .. moment /\ call[i].at = "arrived" /\ moment \in Nat
  BY <1>1, <1>2 DEF CheckAndRemaining, LimiterInv, LimiterTypes, CallOK
<1>4. PICK begins \in BOOLEAN :
         begins <=> a \notin DOMAIN windows \/ t - windows[a].start >= LimitWindow
  OBVIOUS
<1>5. ~begins => /\ windows[a].count \in Nat /\ windows[a].start \in 0 .. moment
                 /\ maker[a] \in CallIds
  BY <1>4 DEF LimiterInv, LimiterTypes, WindowOK
<1>6. PICK n \in Nat \ {0} : n = IF begins THEN 1 ELSE windows[a].count + 1
  BY <1>5
<1>7. PICK s \in 0 .. moment : s = IF begins THEN t ELSE windows[a].start
  BY <1>3, <1>5
<1>8. PICK m \in CallIds : m = IF begins THEN i ELSE maker[a]
  BY <1>5
<1>9. PICK w : w = [count |-> n, start |-> s]
  OBVIOUS
<1>10. PICK r : r = [at |-> IF n <= CallLimit THEN "admitted" ELSE "refused",
                     address |-> a, stamp |-> t, in |-> m, late |-> t < sweptAt[a],
                     remaining |-> IF n <= CallLimit THEN CallLimit - n ELSE 0]
  OBVIOUS
<1>11. /\ windows' = Put(windows, a, w) /\ maker' = Put(maker, a, m)
       /\ call' = [call EXCEPT ![i] = r]
  BY <1>1, <1>2, <1>4, <1>6, <1>7, <1>8, <1>9, <1>10 DEF CheckAndRemaining
<1>12. /\ DOMAIN windows' = DOMAIN windows \cup {a} /\ DOMAIN maker' = DOMAIN windows'
       /\ windows'[a] = w /\ maker'[a] = m
       /\ \A b \in DOMAIN windows \ {a} : windows'[b] = windows[b] /\ maker'[b] = maker[b]
  BY <1>11 DEF Put, LimiterInv, LimiterTypes
<1>13. /\ DOMAIN call' = CallIds /\ call' = [j \in CallIds |-> call'[j]] /\ call'[i] = r
       /\ \A j \in CallIds : j # i => call'[j] = call[j]
  BY <1>11 DEF LimiterInv, LimiterTypes
<1>14. Counts(i, a, t, begins, n, s, m)
  <2>1. w.count = n /\ w.start = s
    BY <1>9
  <2>2. /\ r.at = (IF n <= CallLimit THEN "admitted" ELSE "refused")
        /\ r.address = a /\ r.stamp = t /\ r.in = m /\ r.late = (t < sweptAt[a])
        /\ n <= CallLimit => r.remaining = CallLimit - n
    BY <1>10
  <2> QED
    BY <1>1, <1>2, <1>4, <1>6, <1>7, <1>8, <1>12, <1>13, <2>1, <2>2 DEF Counts
<1> QED
  BY <1>1, <1>2, <1>3, <1>12, <1>13, <1>14 DEF Done

\* Whoever began a window before this one did so a window's length ago.
LEMMA EarlierOnes ==
    ASSUME LimiterInv, NEW i \in CallIds, NEW a \in Addressees, NEW t \in 0 .. moment,
           NEW begins \in BOOLEAN, NEW n, NEW s \in 0 .. moment, NEW m,
           Counts(i, a, t, begins, n, s, m), NEW j \in CallIds, Begun(j), call[j].address = a
    PROVE  /\ begins => call[j].stamp + LimitWindow <= s \/ call[j].stamp + LimitWindow <= sweptAt[a]
           /\ begins /\ ~(t < sweptAt[a]) => call[j].stamp + LimitWindow <= t
           /\ ~begins => \/ m = j /\ s = call[j].stamp
                         \/ call[j].stamp + LimitWindow <= s
                         \/ call[j].stamp + LimitWindow <= sweptAt[a]
<1>1. PICK u \in Nat : u = call[j].stamp
  BY DEF LimiterInv, LimiterTypes, CallOK, Begun, Admitted
<1>2. \/ a \in DOMAIN windows /\ maker[a] = j /\ windows[a].start = u
      \/ a \in DOMAIN windows /\ u + LimitWindow <= windows[a].start
      \/ u + LimitWindow <= sweptAt[a]
  BY <1>1 DEF LimiterInv, Outdated
<1>3. LimitWindow \in Nat /\ t \in Nat /\ s \in Nat /\ sweptAt[a] \in Nat /\ moment \in Nat
  BY LimiterLimits DEF LimiterInv, LimiterTypes
<1>4. a \in DOMAIN windows => windows[a].start \in Nat
  BY <1>3 DEF LimiterInv, LimiterTypes
<1>5. CASE begins
  <2>1. s = t /\ (a \in DOMAIN windows => t - windows[a].start >= LimitWindow)
    BY <1>5 DEF Counts
  <2> QED
    BY <1>1, <1>2, <1>3, <1>4, <1>5, <2>1
<1>6. CASE ~begins
  <2>1. s = windows[a].start /\ m = maker[a]
    BY <1>6 DEF Counts
  <2> QED
    BY <1>1, <1>2, <1>3, <1>6, <2>1
<1> QED
  BY <1>5, <1>6

LEMMA CheckAndRemainingStep ==
    ASSUME LimiterInv, NEW i \in CallIds, CheckAndRemaining(i)
    PROVE  LimiterInv'
<1>1. PICK a \in Addressees : a = call[i].address
  BY Counting
<1>2. PICK t \in 0 .. moment : t = call[i].stamp
  BY Counting
<1>3. PICK begins \in BOOLEAN : \E n \in Nat \ {0} : \E s \in 0 .. moment : \E m \in CallIds :
         Counts(i, a, t, begins, n, s, m)
  BY <1>1, <1>2, Counting
<1>4. PICK n \in Nat \ {0} : \E s \in 0 .. moment : \E m \in CallIds :
         Counts(i, a, t, begins, n, s, m)
  BY <1>3
<1>5. PICK s \in 0 .. moment : \E m \in CallIds : Counts(i, a, t, begins, n, s, m)
  BY <1>4
<1>6. PICK m \in CallIds : Counts(i, a, t, begins, n, s, m)
  BY <1>5
<1>7. /\ DOMAIN maker' = DOMAIN windows' /\ UNCHANGED <<moment, sweeper, sweptAt>>
      /\ DOMAIN call' = CallIds /\ call' = [j \in CallIds |-> call'[j]]
      /\ \A j \in CallIds : j # i => call'[j] = call[j]
      /\ ~Done(i) /\ moment \in Nat
  BY Counting DEF CheckAndRemaining, LimiterInv, LimiterTypes
<1>8. /\ call'[i].at = (IF n <= CallLimit THEN "admitted" ELSE "refused")
      /\ call'[i].address = a /\ call'[i].stamp = t /\ call'[i].in = m
      /\ call'[i].late = (t < sweptAt[a])
      /\ n <= CallLimit => call'[i].remaining = CallLimit - n
      /\ CallLimit \in Nat
  BY <1>6, LimiterLimits DEF Counts
<1>9. /\ DOMAIN windows' = DOMAIN windows \cup {a}
      /\ windows'[a].count = n /\ windows'[a].start = s /\ maker'[a] = m
      /\ \A b \in DOMAIN windows \ {a} : windows'[b] = windows[b] /\ maker'[b] = maker[b]
  BY <1>6 DEF Counts
<1>10. \A j \in CallIds : j # i => (Admitted(j)' <=> Admitted(j)) /\ (Done(j)' <=> Done(j))
  BY <1>7 DEF Admitted, Done
<1>11. Done(i)' /\ (Admitted(i)' <=> n <= CallLimit)
  BY <1>8 DEF Done, Admitted
<1>12. Done(m)' /\ call'[m].address = a /\ (m # i => ~begins /\ m = maker[a] /\ a \in DOMAIN windows)
  <2>1. CASE begins
    BY <1>6, <1>8, <1>11, <2>1 DEF Counts
  <2>2. CASE ~begins
    <3>1. m = maker[a] /\ a \in DOMAIN windows
      BY <1>6, <2>2 DEF Counts
    <3>2. Done(m) /\ call[m].address = a
      BY <3>1 DEF LimiterInv, WindowOK
    <3> QED
      BY <1>7, <1>10, <2>2, <3>1, <3>2
  <2> QED
    BY <2>1, <2>2
\* Nobody counted before was counted in a window that i began.
<1>13. \A j \in CallIds : Admitted(j) => call[j].in # i /\ call[j].in \in CallIds /\ j # i
                                      /\ call[j].remaining \in Int
  BY <1>7 DEF LimiterInv, CallOK, Admitted, Done
<1>14. \A j \in CallIds : Admitted(j) /\ call[j].in = m =>
          CallLimit - n < call[j].remaining /\ CallLimit - n <= call[j].remaining
  <2> SUFFICES ASSUME NEW j \in CallIds, Admitted(j), call[j].in = m
               PROVE  CallLimit - n < call[j].remaining
    BY <1>8, <1>13
  <2>1. m # i
    BY <1>13
  <2>2. a \in DOMAIN windows /\ m = maker[a] /\ n = windows[a].count + 1
    BY <1>6, <1>12, <2>1 DEF Counts
  <2>3. CallLimit - windows[a].count <= call[j].remaining /\ windows[a].count \in Nat
    BY <2>2 DEF LimiterInv, WindowOK, LimiterTypes
  <2> QED
    BY <1>8, <1>13, <2>2, <2>3
<1>15. LimiterTypes'
  <2>1. \A b \in DOMAIN windows' : windows'[b].count \in Nat /\ windows'[b].start \in 0 .. moment'
    BY <1>7, <1>9 DEF LimiterInv, LimiterTypes
  <2> QED
    BY <1>7, <1>9, <2>1 DEF LimiterInv, LimiterTypes
<1>16. ASSUME NEW j \in CallIds
       PROVE  CallOK(j)'
  <2>1. CASE j = i
    <3>1. n <= CallLimit => CallLimit - n \in 0 .. CallLimit - 1
      BY <1>8
    <3>2. call'[i].at # "answered" /\ call'[i].at \in CallKinds
      BY <1>8 DEF CallKinds
    <3> QED
      BY <1>7, <1>8, <1>11, <1>12, <2>1, <3>1, <3>2 DEF CallOK
  <2>2. CASE j # i
    <3>1. call'[j] = call[j] /\ CallOK(j)
      BY <1>7, <2>2 DEF LimiterInv
    <3>2. \A k \in CallIds : Done(k) => Done(k)' /\ call'[k].address = call[k].address
      BY <1>7, <1>10
    <3> QED
      BY <1>7, <3>1, <3>2 DEF CallOK, Admitted, AnswerNear
  <2> QED
    BY <2>1, <2>2
<1>17. ASSUME NEW b \in DOMAIN windows'
       PROVE  WindowOK(b)'
  <2>1. CASE b = a
    <3>1. ASSUME NEW j \in CallIds, Admitted(j)', call'[j].in = m
          PROVE  CallLimit - n <= call'[j].remaining
      <4>1. CASE j = i
        BY <1>8, <1>11, <3>1, <4>1
      <4>2. CASE j # i
        BY <1>7, <1>10, <1>14, <3>1, <4>2
      <4> QED
        BY <4>1, <4>2
    <3> QED
      BY <1>9, <1>12, <2>1, <3>1 DEF WindowOK
  <2>2. CASE b # a
    <3>1. b \in DOMAIN windows /\ windows'[b] = windows[b] /\ maker'[b] = maker[b] /\ WindowOK(b)
      BY <1>9, <1>17, <2>2 DEF LimiterInv
    <3>2. /\ maker[b] \in CallIds /\ Done(maker[b]) /\ call[maker[b]].address = b
          /\ maker[b] # i
      BY <1>7, <3>1 DEF WindowOK
    <3>3. Done(maker[b])' /\ call'[maker[b]].address = b
      BY <1>7, <1>10, <3>1, <3>2
    <3>4. maker[b] # m
      BY <1>12, <2>2, <3>1, <3>3
    <3>5. ASSUME NEW j \in CallIds, Admitted(j)', call'[j].in = maker[b]
          PROVE  CallLimit - windows[b].count <= call'[j].remaining
      <4>1. j # i
        BY <1>8, <3>4, <3>5
      <4> QED
        BY <1>7, <1>10, <3>1, <3>5, <4>1 DEF WindowOK
    <3> QED
      BY <3>1, <3>2, <3>3, <3>5 DEF WindowOK
  <2> QED
    BY <2>1, <2>2
<1>18. RemaindersDiffer'
  <2>1. ASSUME NEW j \in CallIds, j # i, Admitted(i)', Admitted(j)', call'[j].in = call'[i].in
        PROVE  call'[j].remaining # call'[i].remaining
    <3>1. Admitted(j) /\ call'[j] = call[j] /\ call[j].in = m
      BY <1>7, <1>8, <1>10, <2>1
    <3> QED
      BY <1>8, <1>11, <1>13, <1>14, <2>1, <3>1
  <2>2. ASSUME NEW j \in CallIds, NEW k \in CallIds, j # i, k # i, j # k,
               Admitted(j)', Admitted(k)', call'[j].in = call'[k].in
        PROVE  call'[j].remaining # call'[k].remaining
    BY <1>7, <1>10, <2>2 DEF LimiterInv, RemaindersDiffer
  <2> QED
    BY <2>1, <2>2 DEF RemaindersDiffer
<1>19. \A j \in CallIds : j # i /\ Begun(j)' => Begun(j) /\ call'[j] = call[j]
  BY <1>7, <1>10 DEF Begun
<1>20. \A j \in CallIds : Begun(j) => call[j].stamp \in Nat /\ call[j].address \in Addressees
  BY <1>7 DEF LimiterInv, CallOK, Begun, Admitted
<1>21. LimitWindow \in Nat /\ t \in Nat /\ s \in Nat
  BY <1>7, LimiterLimits
<1>22. ASSUME NEW j \in CallIds, Begun(j)'
       PROVE  Outdated(j)'
  <2>1. CASE j = i
    <3>1. m = i
      BY <1>8, <1>22, <2>1 DEF Begun
    <3>2. begins
      <4>1. ~begins => maker[a] = i /\ a \in DOMAIN windows
        BY <1>6, <3>1 DEF Counts
      <4> QED
        BY <1>7, <4>1 DEF LimiterInv, WindowOK
    <3>3. s = t
      BY <1>6, <3>2 DEF Counts
    <3> QED
      BY <1>8, <1>9, <2>1, <3>1, <3>3 DEF Outdated
  <2>2. CASE j # i /\ call[j].address = a
    <3>1. \/ call[j].stamp + LimitWindow <= s
          \/ call[j].stamp + LimitWindow <= sweptAt[a]
          \/ m = j /\ s = call[j].stamp
      BY <1>6, <1>19, <1>22, <2>2, EarlierOnes
    <3> QED
      BY <1>7, <1>9, <2>2, <3>1 DEF Outdated
  <2>3. CASE j # i /\ call[j].address # a
    <3>1. Outdated(j) /\ call'[j] = call[j]
      BY <1>19, <1>22, <2>3 DEF LimiterInv
    <3> QED
      BY <1>7, <1>9, <2>3, <3>1 DEF Outdated
  <2> QED
    BY <2>1, <2>2, <2>3
<1>23. WindowsApart'
  <2>1. ASSUME NEW j \in CallIds, j # i, Begun(i)', Begun(j)', call'[j].address = call'[i].address
        PROVE  call'[i].stamp - call'[j].stamp >= LimitWindow
    <3>1. m = i /\ ~(t < sweptAt[a])
      BY <1>8, <2>1 DEF Begun
    <3>2. begins
      <4>1. ~begins => maker[a] = i /\ a \in DOMAIN windows
        BY <1>6, <3>1 DEF Counts
      <4> QED
        BY <1>7, <4>1 DEF LimiterInv, WindowOK
    <3>3. Begun(j) /\ call'[j] = call[j] /\ call[j].address = a
      BY <1>8, <1>19, <2>1
    <3>4. call[j].stamp + LimitWindow <= t
      BY <1>6, <3>1, <3>2, <3>3, EarlierOnes
    <3> QED
      BY <1>8, <1>20, <1>21, <3>3, <3>4
  <2>2. ASSUME NEW j \in CallIds, NEW k \in CallIds, j # i, k # i, j # k,
               Begun(j)', Begun(k)', call'[j].address = call'[k].address
        PROVE  \/ call'[j].stamp - call'[k].stamp >= LimitWindow
               \/ call'[k].stamp - call'[j].stamp >= LimitWindow
    BY <1>19, <2>2 DEF LimiterInv, WindowsApart
  <2> QED
    BY <2>1, <2>2 DEF WindowsApart
<1> QED
  BY <1>15, <1>16, <1>17, <1>18, <1>22, <1>23 DEF LimiterInv

LEMMA LimiterKeeps == LimiterInv /\ [LimiterNext]_limiterVars => LimiterInv'
<1> SUFFICES ASSUME LimiterInv, [LimiterNext]_limiterVars
             PROVE  LimiterInv'
  OBVIOUS
<1>1. CASE UNCHANGED limiterVars
  BY <1>1, ClockGoesOn DEF limiterVars, LimiterInv, LimiterTypes
<1>2. CASE LimiterNext
  BY <1>2, CallArrivesStep, CheckAndRemainingStep, RefuseStep, SweepBeginsStep,
     SweepVisitsStep, TimePassesStep DEF LimiterNext
<1> QED
  BY <1>1, <1>2

\* Those one window admitted were told remainders of their own, so that there
\* are no more of them than remainders.
LEMMA WithinLimit ==
    ASSUME LimiterInv, NEW m
    PROVE  Cardinality({j \in CallIds : Admitted(j) /\ call[j].in = m}) <= CallLimit
<1>1. PICK S : S = {j \in CallIds : Admitted(j) /\ call[j].in = m}
  OBVIOUS
<1>2. PICK f : f = [j \in S |-> call[j].remaining]
  OBVIOUS
<1>3. PICK n \in Nat : n = CallLimit
  BY LimiterLimits
<1>4. \A j \in S : f[j] \in 0 .. n - 1
  BY <1>1, <1>2, <1>3 DEF LimiterInv, CallOK
<1>5. \A j, k \in S : j # k => f[j] # f[k]
  BY <1>1, <1>2 DEF LimiterInv, RemaindersDiffer
<1>6. f \in Injection(S, 0 .. n - 1)
  BY <1>2, <1>4, <1>5 DEF Injection, IsInjective
<1>7. IsFiniteSet(0 .. n - 1) /\ Cardinality(0 .. n - 1) = n
  BY <1>3, FS_Interval
<1> QED
  BY <1>1, <1>3, <1>6, <1>7, FS_Injection

\* The limiter keeps its promise to any number of clients and requests: a
\* window admits its limit, windows keep their distance, and the wait that is
\* told is right to the second (check_and_remaining, sweep, retry_after_secs).
THEOREM LimitStaysSound == LimiterSpec => []AddressLimitSound
<1>1. LimiterInv => AddressLimitSound
  <2> SUFFICES ASSUME LimiterInv
               PROVE  AddressLimitSound
    OBVIOUS
  <2>1. ASSUME NEW i \in {k \in CallIds : call[k].at = "admitted"}
        PROVE  LET same == {j \in {k \in CallIds : call[k].at = "admitted"} : call[j].in = call[i].in}
               IN  /\ Cardinality(same) <= CallLimit
                   /\ \A j \in same : i # j => call[i].remaining # call[j].remaining
    <3>1. {j \in {k \in CallIds : call[k].at = "admitted"} : call[j].in = call[i].in}
            = {j \in CallIds : Admitted(j) /\ call[j].in = call[i].in}
      BY DEF Admitted
    <3> QED
      BY <3>1, WithinLimit DEF LimiterInv, RemaindersDiffer, Admitted
  <2>2. \A i \in CallIds : call[i].at = "answered" =>
           call[i].told + (call[i].retry + 1) * Second > call[i].opens
    BY DEF LimiterInv, CallOK, AnswerNear
  <2> QED
    BY <2>1, <2>2 DEF LimiterInv, WindowsApart, Begun, Admitted, AddressLimitSound
<1>2. LimiterInit => LimiterInv
  BY LimiterStarts
<1>3. LimiterInv /\ [LimiterNext]_limiterVars => LimiterInv'
  BY LimiterKeeps
<1> QED
  BY <1>1, <1>2, <1>3, PTL DEF LimiterSpec

-----------------------------------------------------------------------------
(* The execution contract: its invariant.                                  *)

\* An execution in progress has changed nothing but its target, once at most;
\* it announced a delay for each retry, and retries only without simulation.
FrameOK ==
    /\ executionAdmin # None
    /\ frame.before.total = total /\ frame.before.errors = errors
    /\ frame.before.history = history
    /\ effects = frame.before.effects + (IF frame.carried THEN 1 ELSE 0)
    /\ frame.request.amount > 0
    /\ frame.retries <= frame.request.retries /\ frame.retries <= maxRetries
    /\ frame.carried => frame.request.simulate
    /\ frame.request.simulate => frame.attempts = 0
    /\ \A k \in DOMAIN frame.delays :
          frame.delays[k] = ComputeBackoff(backoff.base, backoff.multiplier, k - 1)

\* The receipt of the last execution that returned Ok, and its record.
ReceiptOK ==
    /\ receipt.attempts = Len(receipt.delays) + 1
    /\ receipt.attempts <= receipt.request.retries + 1 /\ receipt.attempts <= receipt.allowed + 1
    /\ receipt.request.simulate => receipt.attempts = 1
    /\ receipt.request.amount > 0
    /\ Rising(receipt.delays)
    /\ history # << >>
    /\ history[Len(history)].fee = ComputeActualFee(receipt.request.amount)

ExecutionInv ==
    /\ ExecutionTypeOK
    /\ executionAdmin = None => total = 0
    /\ frame # None => FrameOK
    /\ receipt # None => ReceiptOK

\* What the backoff is for a base and a multiplier above one: the delay before
\* each retry, for ever.
IsBackoff(f, base, multiplier) ==
    /\ f \in [Nat -> Nat] /\ f[0] = base
    /\ \A k \in Nat : f[k + 1] = Min((f[k] * multiplier) \div Scale, MaxBackoff)

LEMMA BackoffRun ==
    ASSUME NEW base \in Nat, NEW multiplier \in Nat
    PROVE  \E f : /\ IsBackoff(f, base, multiplier)
                  /\ \A retry \in Nat :
                        ComputeBackoff(base, multiplier, retry) =
                          IF base = 0 \/ multiplier <= Scale THEN Min(base, MaxBackoff) ELSE f[retry]
<1> DEFINE next(d) == Min((d * multiplier) \div Scale, MaxBackoff)
           loop(g, n) == [k \in 0 .. n |->
              IF k = 0 THEN base ELSE Min((g[k - 1] * multiplier) \div Scale, MaxBackoff)]
<1>1. \A d \in Nat : next(d) \in Nat
  <2> SUFFICES ASSUME NEW d \in Nat PROVE next(d) \in Nat
    OBVIOUS
  <2>1. PICK x \in Nat : x = d * multiplier
    OBVIOUS
  <2>2. PICK s \in Nat \ {0} : s = Scale
    BY ExecutionNumbers
  <2>3. x \div s \in Nat
    OBVIOUS
  <2> QED
    BY <2>1, <2>2, <2>3, ExecutionNumbers DEF Min
<1>2. PICK step : step = [k \in Nat |-> [d \in Nat |-> next(d)]]
  OBVIOUS
<1>3. step \in [Nat -> [Nat -> Nat]] /\ \A k \in Nat, d \in Nat : step[k][d] = next(d)
  <2> HIDE DEF next
  <2> QED
    BY <1>1, <1>2
<1>4. PICK f \in [Nat -> Nat] : IsRun(f, base, step)
  BY <1>3, Steps
<1>5. f[0] = base /\ \A k \in Nat : f[k + 1] = next(f[k])
  <2>1. f[0] = base /\ \A k \in Nat : f[k + 1] = step[k + 1][f[k]]
    BY <1>4 DEF IsRun
  <2>2. ASSUME NEW k \in Nat PROVE f[k + 1] = next(f[k])
    <3>1. k + 1 \in Nat /\ f[k] \in Nat
      BY <1>4
    <3> HIDE DEF next
    <3>2. step[k + 1][f[k]] = next(f[k])
      BY <1>3, <3>1
    <3> QED
      BY <2>1, <3>2
  <2> QED
    BY <2>1, <2>2
<1>6. IsBackoff(f, base, multiplier)
  BY <1>4, <1>5 DEF IsBackoff
<1>7. ASSUME NEW n \in Nat
      PROVE  (CHOOSE g : g = loop(g, n))[n] = f[n]
  <2>1. PICK h : h = [k \in 0 .. n |-> f[k]]
    OBVIOUS
  <2>2. \A k \in 0 .. n : f[k] = IF k = 0 THEN base ELSE next(h[k - 1])
    <3> SUFFICES ASSUME NEW k \in 0 .. n, k # 0 PROVE f[k] = next(h[k - 1])
      BY <1>5
    <3>1. PICK j \in Nat : j = k - 1 /\ j + 1 = k /\ j \in 0 .. n
      OBVIOUS
    <3>2. h[k - 1] = f[j]
      BY <2>1, <3>1
    <3> HIDE DEF next
    <3> QED
      BY <1>5, <3>1, <3>2
  <2>3. h = loop(h, n)
    BY <2>1, <2>2
  <2>4. PICK g : g = loop(g, n) /\ g = CHOOSE e : e = loop(e, n)
    <3> HIDE DEF loop
    <3> QED
      BY <2>3
  <2>5. \A k \in 0 .. n : g[k] = IF k = 0 THEN base ELSE next(g[k - 1])
    <3>1. PICK e : e = g
      OBVIOUS
    <3>2. g = loop(e, n)
      BY <2>4, <3>1
    <3>3. \A k \in 0 .. n : g[k] = IF k = 0 THEN base ELSE next(e[k - 1])
      BY <3>2
    <3> HIDE DEF next, loop
    <3> QED
      BY <3>1, <3>3
  <2> DEFINE S == {k \in Nat : k <= n => g[k] = f[k]}
  <2>6. 0 \in S
    BY <1>5, <2>5
  <2>7. ASSUME NEW k \in S
        PROVE  k + 1 \in S
    <3> SUFFICES ASSUME k + 1 <= n PROVE g[k + 1] = f[k + 1]
      OBVIOUS
    <3>1. k + 1 \in 0 .. n /\ k + 1 # 0 /\ (k + 1) - 1 = k /\ g[k] = f[k]
      OBVIOUS
    <3> HIDE DEF next
    <3> QED
      BY <1>5, <2>5, <3>1
  <2>8. S \in SUBSET Nat
    OBVIOUS
  <2>9. S = Nat
    <3> HIDE DEF S
    <3> QED
      BY <2>6, <2>7, <2>8, Induction
  <2>10. g[n] = f[n]
    BY <2>9
  <2> HIDE DEF loop
  <2> QED
    BY <2>4, <2>10
<1>8. \A retry \in Nat :
         ComputeBackoff(base, multiplier, retry) =
           IF base = 0 \/ multiplier <= Scale THEN Min(base, MaxBackoff)
           ELSE (CHOOSE g : g = loop(g, retry))[retry]
  BY DEF ComputeBackoff
<1>9. \A retry \in Nat :
         ComputeBackoff(base, multiplier, retry) =
           IF base = 0 \/ multiplier <= Scale THEN Min(base, MaxBackoff) ELSE f[retry]
  <2> HIDE DEF loop
  <2> QED
    BY <1>7, <1>8
<1> HIDE DEF next, loop
<1> QED
  BY <1>6, <1>9

\* Growing by a multiplier above one.
LEMMA Growth ==
    ASSUME NEW d \in Nat, NEW m \in Nat, NEW s \in Nat \ {0}, m > s
    PROVE  (d * m) \div s \in Nat /\ (d * m) \div s >= d
<1>1. PICK x \in Nat : x = d * m /\ x >= d * s
  <2>1. d * m = d * s + d * (m - s) /\ d * (m - s) \in Nat /\ d * s \in Nat /\ d * m \in Nat
    OBVIOUS
  <2> QED
    BY <2>1
<1>2. PICK q \in Nat : q = x \div s /\ x < (q + 1) * s
  OBVIOUS
<1>3. d * s < (q + 1) * s
  BY <1>1, <1>2
<1>4. ~(q + 1 <= d)
  <2> SUFFICES ASSUME q + 1 <= d PROVE FALSE
    OBVIOUS
  <2>1. (q + 1) * s <= d * s
    OBVIOUS
  <2> QED
    BY <1>3, <2>1
<1> QED
  BY <1>1, <1>2, <1>4

\* The delays of one execution only grow, and all but the first are within the
\* cap.
LEMMA BackoffRises ==
    ASSUME NEW base \in Nat, NEW multiplier \in Nat, NEW i \in Nat, NEW j \in Nat, i < j
    PROVE  /\ Min(ComputeBackoff(base, multiplier, i), MaxBackoff)
                <= ComputeBackoff(base, multiplier, j)
           /\ ComputeBackoff(base, multiplier, j) <= MaxBackoff
<1>1. PICK f : /\ IsBackoff(f, base, multiplier)
               /\ \A retry \in Nat :
                     ComputeBackoff(base, multiplier, retry) =
                       IF base = 0 \/ multiplier <= Scale THEN Min(base, MaxBackoff) ELSE f[retry]
  BY BackoffRun
<1>2. CASE base = 0 \/ multiplier <= Scale
  <2>1. PICK m \in Nat : m = Min(base, MaxBackoff) /\ m <= MaxBackoff /\ Min(m, MaxBackoff) = m
    BY ExecutionNumbers DEF Min
  <2> QED
    BY <1>1, <1>2, <2>1
<1>3. CASE ~(base = 0 \/ multiplier <= Scale)
  <2>1. PICK s \in Nat \ {0} : s = Scale
    BY ExecutionNumbers
  <2>2. PICK top \in Nat : top = MaxBackoff
    BY ExecutionNumbers
  <2>3. multiplier > s
    BY <1>3, <2>1
  <2>4. ASSUME NEW k \in Nat
        PROVE  Min(f[k], top) <= f[k + 1] /\ f[k + 1] <= top
    <3>1. PICK d \in Nat : d = f[k]
      BY <1>1 DEF IsBackoff
    <3>2. PICK q \in Nat : q = (d * multiplier) \div s /\ q >= d
      BY <2>3, Growth
    <3>3. f[k + 1] = Min(q, top)
      BY <1>1, <2>1, <2>2, <3>1, <3>2 DEF IsBackoff
    <3> QED
      BY <3>1, <3>2, <3>3 DEF Min
  <2> DEFINE S == {k \in Nat : i < k => Min(f[i], top) <= f[k] /\ f[k] <= top}
  <2>5. \A k \in Nat : f[k] \in Nat
    BY <1>1 DEF IsBackoff
  <2>6. 0 \in S
    OBVIOUS
  <2>7. ASSUME NEW k \in S
        PROVE  k + 1 \in S
    <3>1. CASE i = k
      BY <2>4, <3>1
    <3>2. CASE i < k
      <4>1. Min(f[i], top) <= f[k] /\ f[k] <= top
        BY <3>2
      <4>2. Min(f[k], top) <= f[k + 1] /\ f[k + 1] <= top
        BY <2>4
      <4>3. PICK a \in Nat, b \in Nat, c \in Nat : a = f[i] /\ b = f[k] /\ c = f[k + 1]
        BY <2>5
      <4>4. Min(a, top) <= c
        BY <4>1, <4>2, <4>3 DEF Min
      <4> QED
        BY <4>2, <4>3, <4>4
    <3>3. CASE i > k
      BY <3>3
    <3> QED
      BY <3>1, <3>2, <3>3
  <2>8. S \in SUBSET Nat
    OBVIOUS
  <2>9. S = Nat
    <3> HIDE DEF S
    <3> QED
      BY <2>6, <2>7, <2>8, Induction
  <2>10. Min(f[i], top) <= f[j] /\ f[j] <= top
    BY <2>9
  <2> QED
    BY <1>1, <1>3, <2>2, <2>10
<1> QED
  BY <1>2, <1>3

LEMMA Caps ==
    /\ MaxRetriesCap \in Nat /\ MaxBackoff \in Nat /\ MaxU64 \in Nat /\ MaxEffects \in Nat
    /\ Scale \in Nat \ {0} /\ MaxMultiplier \in Nat \ {0} /\ HighLoad \in Nat
    /\ BaseFee \in Nat /\ MinResourceFee \in Nat /\ FeeDivisor \in Nat \ {0}
    /\ DefaultHistory \in Nat \ {0}
<1> QED
  BY ExecutionNumbers

\* The numbers of a state.
LEMMA ExecutionFigures ==
    ASSUME ExecutionInv
    PROVE  /\ total \in 0 .. MaxU64 /\ total \in Nat /\ errors \in Nat
           /\ effects \in 0 .. MaxEffects /\ effects \in Nat
           /\ backoff.base \in Nat /\ backoff.multiplier \in Nat
           /\ history \in Histories /\ maxHistory \in Nat \ {0} /\ Len(history) <= maxHistory
<1>1. /\ total \in 0 .. MaxU64 /\ errors \in Nat /\ effects \in 0 .. MaxEffects
      /\ backoff.base \in Nat /\ backoff.multiplier \in Scale .. MaxMultiplier
      /\ history \in Histories /\ maxHistory \in Nat \ {0} /\ Len(history) <= maxHistory
  BY DEF ExecutionInv, ExecutionTypeOK, ValidMultiplier
<1> QED
  BY <1>1, Caps

LEMMA ExecutionStarts == ExecutionInit => ExecutionInv
<1> SUFFICES ASSUME ExecutionInit PROVE ExecutionInv
  OBVIOUS
<1>1. << >> \in Histories /\ Len(<< >>) = 0
  BY DEF Histories
<1>2. backoff.base = 0 /\ backoff.multiplier = Scale
  BY DEF ExecutionInit
<1>3. Scale \in Scale .. MaxMultiplier
  BY Caps, ExecutionNumbers
<1>4. 0 \in 0 .. MaxU64 /\ 0 \in 0 .. MaxEffects
  BY Caps
<1>5. ExecutionTypeOK
  BY <1>1, <1>2, <1>3, <1>4, Caps DEF ExecutionInit, ExecutionTypeOK, ValidMultiplier
<1> QED
  BY <1>5 DEF ExecutionInv, ExecutionInit

\* What the configuration and the queries leave of the invariant to be shown.
LEMMA BetweenExecutions ==
    ASSUME ExecutionInv, frame = None, UNCHANGED <<frame, receipt, effects>>,
           executionAdmin' \in Addresses \cup {None},
           maxRetries' \in (1 .. MaxRetriesCap) \cup {None},
           executionAdmin' = None <=> maxRetries' = None,
           backoff'.base \in Nat, ValidMultiplier(backoff'.multiplier),
           total' \in 0 .. MaxU64, errors' \in Nat, executionAdmin' = None => total' = 0,
           history' \in Histories, maxHistory' \in Nat \ {0}, Len(history') <= maxHistory',
           history # << >> => history' # << >> /\ history'[Len(history')] = history[Len(history)]
    PROVE  ExecutionInv'
<1>1. ExecutionTypeOK'
  BY DEF ExecutionTypeOK, ExecutionInv, ValidMultiplier
<1>2. receipt # None => ReceiptOK'
  BY DEF ExecutionInv, ReceiptOK
<1> QED
  BY <1>1, <1>2 DEF ExecutionInv

LEMMA Evicted ==
    ASSUME NEW T, NEW s \in Seq(T), NEW n \in Nat \ {0}
    PROVE  /\ EvictOldest(s, n) \in Seq(T)
           /\ Len(EvictOldest(s, n)) = Min(n, Len(s))
           /\ \A i \in 1 .. Min(n, Len(s)) :
                 EvictOldest(s, n)[i] = s[Len(s) - Min(n, Len(s)) + i]
<1>1. PICK l \in Nat : l = Len(s)
  OBVIOUS
<1>2. CASE l > n
  <2>1. PICK t : t = SubSeq(s, l - n + 1, l)
    OBVIOUS
  <2>2. t \in Seq(T) /\ Len(t) = n /\ \A i \in 1 .. n : t[i] = s[l - n + i]
    <3>1. l - n + 1 \in 1 .. l + 1 /\ l - (l - n + 1) + 1 = n /\ l - n + 1 \in Nat
      BY <1>2
    <3>2. PICK first \in Nat : first = l - n + 1
      BY <3>1
    <3>3. first \in 1 .. Len(s) + 1 /\ l = Len(s) /\ t = SubSeq(s, first, l) /\ l - first + 1 = n
      BY <1>1, <2>1, <3>1, <3>2
    <3>4. t \in Seq(T) /\ Len(t) = n
      BY <1>1, <3>3
    <3>5. \A i \in 1 .. n : t[i] = s[first + i - 1]
      BY <1>1, <3>3
    <3>6. \A i \in 1 .. n : first + i - 1 = l - n + i
      BY <3>2
    <3> QED
      BY <3>4, <3>5, <3>6
  <2>3. EvictOldest(s, n) = t /\ Min(n, Len(s)) = n
    BY <1>1, <1>2, <2>1 DEF EvictOldest, Min
  <2> QED
    BY <1>1, <2>2, <2>3
<1>3. CASE ~(l > n)
  <2>1. EvictOldest(s, n) = s /\ Min(n, Len(s)) = l
    BY <1>1, <1>3 DEF EvictOldest, Min
  <2> QED
    BY <1>1, <2>1
<1> QED
  BY <1>2, <1>3

LEMMA ConfigureKeeps ==
    ASSUME ExecutionInv, NEW a \in Addresses, ConfigureExecution(a)
    PROVE  ExecutionInv'
<1> USE DEF ExecutionInv, ExecutionTypeOK
<1>1. ASSUME NEW n \in Sizes, NEW b \in Backoffs, InitializeExecution(a, n, b)
      PROVE  ExecutionInv'
  <2>1. b \in [base : Nat, multiplier : Nat]
    BY ExecutionInputs
  <2>2. a # None /\ n # None /\ n \in 1 .. MaxRetriesCap /\ 0 \in 0 .. MaxU64
    BY <1>1, NoneIsNoAddress, ExecutionNumbers, ExecutionInputs DEF InitializeExecution, ValidRetries
  <2> QED
    BY <1>1, <2>1, <2>2, BetweenExecutions DEF InitializeExecution
<1>2. ASSUME NEW b \in Backoffs, SetBackoffConfig(a, b)
      PROVE  ExecutionInv'
  <2>1. b \in [base : Nat, multiplier : Nat]
    BY ExecutionInputs
  <2> QED
    BY <1>2, <2>1, BetweenExecutions DEF SetBackoffConfig, account
<1>3. ASSUME NEW n \in Sizes, SetMaxRetries(a, n)
      PROVE  ExecutionInv'
  <2>1. n # None /\ n \in 1 .. MaxRetriesCap /\ a # None
    <3>1. n \in Nat /\ n # None /\ a # None
      BY NoneIsNoAddress, ExecutionInputs
    <3> QED
      BY <1>3, <3>1 DEF SetMaxRetries, ValidRetries
  <2> QED
    BY <1>3, <2>1, BetweenExecutions DEF SetMaxRetries, account
<1>4. ASSUME NEW n \in Sizes, SetMaxHistorySize(a, n)
      PROVE  ExecutionInv'
  <2>0. n \in Nat
    BY ExecutionInputs
  <2>1. n \in Nat \ {0}
    BY <1>4, <2>0 DEF SetMaxHistorySize
  <2>2. /\ EvictOldest(history, n) \in Histories
        /\ Len(EvictOldest(history, n)) = Min(n, Len(history))
        /\ \A i \in 1 .. Min(n, Len(history)) :
              EvictOldest(history, n)[i] = history[Len(history) - Min(n, Len(history)) + i]
    BY <2>1, Evicted DEF Histories
  <2>3. PICK l \in Nat : l = Len(history) /\ (history # << >> => l > 0)
    BY DEF Histories
  <2>4. PICK m \in Nat : m = Min(n, l) /\ m <= n /\ m <= l /\ (l > 0 => m > 0)
    BY <2>1 DEF Min
  <2>5. history # << >> => /\ history' # << >>
                           /\ history'[Len(history')] = history[Len(history)]
    <3> SUFFICES ASSUME history # << >>
                 PROVE  history' # << >> /\ history'[Len(history')] = history[Len(history)]
      OBVIOUS
    <3>1. history' = EvictOldest(history, n) /\ Len(history') = m
      BY <1>4, <2>2, <2>3, <2>4 DEF SetMaxHistorySize
    <3>2. history'[m] = history[l]
      <4>1. m \in 1 .. m /\ l - m + m = l
        BY <2>3, <2>4
      <4> QED
        BY <2>2, <2>3, <2>4, <3>1, <4>1
    <3> QED
      BY <2>3, <2>4, <3>1, <3>2
  <2>6. history' \in Histories /\ Len(history') <= maxHistory' /\ maxHistory' = n
    BY <1>4, <2>1, <2>2, <2>3, <2>4 DEF SetMaxHistorySize
  <2>7. UNCHANGED <<executionAdmin, maxRetries, backoff, total, errors, effects, frame, receipt>>
        /\ frame = None
    BY <1>4 DEF SetMaxHistorySize, config
  <2> QED
    BY <2>1, <2>5, <2>6, <2>7, BetweenExecutions
<1>5. ASSUME NEW b \in Addresses, TransferExecutionAdmin(a, b)
      PROVE  ExecutionInv'
  <2>1. a # None /\ b # None
    BY NoneIsNoAddress
  <2> QED
    BY <1>5, <2>1, BetweenExecutions DEF TransferExecutionAdmin, account
<1> QED
  BY <1>1, <1>2, <1>3, <1>4, <1>5 DEF ConfigureExecution

\* What is in a frame.
LEMMA Framed ==
    ASSUME ExecutionInv, frame # None
    PROVE  /\ frame \in Frames /\ frame.request \in RequestTypes
           /\ frame.attempts \in Nat /\ frame.retries \in Nat /\ frame.carried \in BOOLEAN
           /\ frame.delays \in Seq(Nat) /\ Len(frame.delays) = frame.attempts
           /\ frame.before \in [total : Nat, errors : Nat, history : Histories, effects : Nat]
           /\ FrameOK
<1>1. frame \in Frames /\ Len(frame.delays) = frame.attempts /\ FrameOK
  BY DEF ExecutionInv, ExecutionTypeOK
<1> QED
  BY <1>1, ExecutionInputs DEF Frames

LEMMA RollBackKeeps ==
    ASSUME ExecutionInv, frame # None, RollBack
    PROVE  ExecutionInv'
<1>1. /\ FrameOK /\ frame.before.effects \in Nat /\ frame.carried \in BOOLEAN
      /\ frame.before.effects <= effects /\ effects \in 0 .. MaxEffects
  <2>1. FrameOK /\ frame.before.effects \in Nat /\ frame.carried \in BOOLEAN
    BY Framed
  <2>2. effects \in 0 .. MaxEffects
    BY DEF ExecutionInv, ExecutionTypeOK
  <2> QED
    BY <2>1, <2>2 DEF FrameOK
<1>2. /\ UNCHANGED <<executionAdmin, maxRetries, backoff, total, errors, history, maxHistory, receipt>>
      /\ frame' = None /\ effects' = frame.before.effects
  BY <1>1 DEF RollBack, FrameOK, config
<1>3. effects' \in 0 .. MaxEffects
  BY <1>1, <1>2, ExecutionNumbers
<1>4. ExecutionTypeOK'
  BY <1>2, <1>3 DEF ExecutionInv, ExecutionTypeOK, ValidMultiplier
<1>5. receipt # None => ReceiptOK'
  BY <1>2 DEF ExecutionInv, ReceiptOK
<1> QED
  BY <1>2, <1>4, <1>5 DEF ExecutionInv

LEMMA ExecuteKeeps ==
    ASSUME ExecutionInv, NEW r \in Requests, Execute(r)
    PROVE  ExecutionInv'
<1> USE DEF ExecutionInv, ExecutionTypeOK
<1>1. /\ r \in RequestTypes /\ r.retries \in Nat /\ maxRetries \in 1 .. MaxRetriesCap
      /\ r.amount > 0
  BY ExecutionInputs DEF Execute, RequestTypes
<1>2. PICK m \in Nat : m = Min(r.retries, maxRetries) /\ m <= r.retries /\ m <= maxRetries
  <2>1. PICK x \in Nat, y \in Nat : x = r.retries /\ y = maxRetries
    BY <1>1, Caps
  <2>2. PICK m \in Nat : m = Min(x, y) /\ m <= x /\ m <= y
    BY DEF Min
  <2> QED
    BY <2>1, <2>2, Caps
<1>3. PICK b : b = Snapshot
  OBVIOUS
<1>4. /\ b \in [total : Nat, errors : Nat, history : Histories, effects : Nat]
      /\ b.total = total /\ b.errors = errors /\ b.history = history /\ b.effects = effects
  BY <1>3, ExecutionNumbers DEF Snapshot
<1>5. PICK f : f = [request |-> r, attempts |-> 0, delays |-> << >>, carried |-> FALSE,
                    retries |-> m, before |-> b]
  OBVIOUS
<1>6. f \in Frames /\ f # None
  <2>1. << >> \in Seq(Nat)
    OBVIOUS
  <2>2. f \in Frames
    BY <1>2, <1>4, <1>5, <2>1 DEF Frames
  <2> QED
    BY <2>2, ExecutionNone
<1>7. /\ f.request = r /\ f.attempts = 0 /\ f.delays = << >> /\ f.carried = FALSE
      /\ f.retries = m /\ f.before = b
  BY <1>5
<1>8. /\ frame' = f
      /\ UNCHANGED <<executionAdmin, maxRetries, backoff, total, errors, history, maxHistory,
                     effects, receipt>>
      /\ executionAdmin # None
  BY <1>2, <1>3, <1>5 DEF Execute, config, account
<1>9. ExecutionTypeOK'
  BY <1>2, <1>6, <1>7, <1>8 DEF ValidMultiplier
<1>10. FrameOK'
  <2>1. effects = f.before.effects + (IF f.carried THEN 1 ELSE 0)
    BY <1>4, <1>7, ExecutionFigures
  <2>2. DOMAIN f.delays = {}
    BY <1>7
  <2> QED
    BY <1>1, <1>2, <1>4, <1>7, <1>8, <2>1, <2>2 DEF FrameOK
<1>11. receipt # None => ReceiptOK'
  BY <1>8 DEF ReceiptOK
<1> QED
  BY <1>8, <1>9, <1>10, <1>11

LEMMA SimulatesFirstKeeps ==
    ASSUME ExecutionInv, SimulatesFirst
    PROVE  ExecutionInv'
<1>1. /\ frame \in Frames /\ FrameOK /\ frame.request.simulate /\ frame.attempts = 0
      /\ ~frame.carried /\ Len(frame.delays) = 0 /\ frame.attempts <= frame.retries
      /\ frame.before.effects \in Nat
  BY Framed DEF SimulatesFirst, Simulating, ExecutionInv, ExecutionTypeOK
<1>2. PICK f : f = [frame EXCEPT !.carried = TRUE]
  OBVIOUS
<1>3. /\ f \in Frames /\ f # None /\ f.carried = TRUE /\ f.request = frame.request
      /\ f.attempts = frame.attempts /\ f.delays = frame.delays /\ f.retries = frame.retries
      /\ f.before = frame.before
  <2>1. f \in Frames
    BY <1>1, <1>2 DEF Frames
  <2> QED
    BY <1>1, <1>2, <2>1, ExecutionNone DEF Frames
<1>4. /\ frame' = f /\ effects' = effects + 1 /\ effects < MaxEffects
      /\ UNCHANGED <<executionAdmin, maxRetries, backoff, total, errors, history, maxHistory, receipt>>
  BY <1>2 DEF SimulatesFirst, Invoke, config, account
<1>5. ExecutionTypeOK'
  <2>1. effects + 1 \in 0 .. MaxEffects
    BY <1>4, ExecutionFigures, Caps
  <2>2. f.attempts \in 0 .. f.retries /\ Len(f.delays) = f.attempts
    BY <1>3 DEF SimulatesFirst, ExecutionInv, ExecutionTypeOK
  <2> QED
    BY <1>3, <1>4, <2>1, <2>2 DEF ExecutionInv, ExecutionTypeOK, ValidMultiplier
<1>6. FrameOK'
  BY <1>1, <1>3, <1>4 DEF FrameOK
<1>7. receipt # None => ReceiptOK'
  BY <1>4 DEF ExecutionInv, ReceiptOK
<1> QED
  BY <1>4, <1>5, <1>6, <1>7 DEF ExecutionInv

LEMMA BackoffType ==
    ASSUME NEW base \in Nat, NEW multiplier \in Nat, NEW i \in Nat
    PROVE  ComputeBackoff(base, multiplier, i) \in Nat
<1>1. PICK f : /\ IsBackoff(f, base, multiplier)
               /\ \A retry \in Nat :
                     ComputeBackoff(base, multiplier, retry) =
                       IF base = 0 \/ multiplier <= Scale THEN Min(base, MaxBackoff) ELSE f[retry]
  BY BackoffRun
<1>2. Min(base, MaxBackoff) \in Nat /\ f[i] \in Nat
  BY <1>1, ExecutionNumbers DEF Min, IsBackoff
<1> QED
  BY <1>1, <1>2

LEMMA AttemptFailsKeeps ==
    ASSUME ExecutionInv, AttemptFails
    PROVE  ExecutionInv'
<1>1. /\ frame # None /\ frame \in Frames /\ FrameOK /\ frame.attempts \in Nat /\ frame.retries \in Nat
      /\ frame.delays \in Seq(Nat) /\ Len(frame.delays) = frame.attempts
      /\ ~frame.carried /\ ~Simulating /\ frame.attempts < frame.retries
  BY Framed DEF AttemptFails
<1>2. ~frame.request.simulate
  BY <1>1 DEF FrameOK, Simulating
<1>3. PICK n \in Nat : n = frame.attempts
  BY <1>1
<1>4. backoff.base \in Nat /\ backoff.multiplier \in Nat
  BY ExecutionFigures
<1>5. PICK d \in Nat : d = ComputeBackoff(backoff.base, backoff.multiplier, n)
  BY <1>4, BackoffType
<1>6. PICK old \in Seq(Nat) : old = frame.delays /\ Len(old) = n
  BY <1>1, <1>3
<1>7. PICK ds : ds = Append(old, d)
  OBVIOUS
<1>8. ds \in Seq(Nat) /\ Len(ds) = n + 1 /\ ds[n + 1] = d /\ \A k \in 1 .. n : ds[k] = old[k]
  BY <1>6, <1>7
<1>9. PICK f : f = [frame EXCEPT !.attempts = n + 1, !.delays = ds]
  OBVIOUS
<1>10. /\ f \in Frames /\ f # None /\ f.carried = frame.carried /\ f.request = frame.request
       /\ f.attempts = n + 1 /\ f.delays = ds /\ f.retries = frame.retries
       /\ f.before = frame.before
  <2>1. f \in Frames
    <3>1. n + 1 \in Nat /\ ds \in Seq(Nat)
      BY <1>8
    <3> QED
      BY <1>1, <1>9, <3>1 DEF Frames
  <2>2. f # None
    BY <2>1, ExecutionNone
  <2> QED
    BY <1>1, <1>9, <2>1, <2>2 DEF Frames
<1>11. /\ frame' = f
       /\ UNCHANGED <<executionAdmin, maxRetries, backoff, total, errors, history, maxHistory,
                      effects, receipt>>
  BY <1>3, <1>5, <1>6, <1>7, <1>9 DEF AttemptFails, config, account
<1>12. ExecutionTypeOK'
  <2>1. n + 1 \in 0 .. f.retries /\ Len(f.delays) = f.attempts
    BY <1>1, <1>3, <1>8, <1>10
  <2> QED
    BY <1>10, <1>11, <2>1 DEF ExecutionInv, ExecutionTypeOK, ValidMultiplier
<1>13. FrameOK'
  <2>1. \A k \in DOMAIN ds : ds[k] = ComputeBackoff(backoff.base, backoff.multiplier, k - 1)
    <3> SUFFICES ASSUME NEW k \in 1 .. n + 1
                 PROVE  ds[k] = ComputeBackoff(backoff.base, backoff.multiplier, k - 1)
      BY <1>8
    <3>1. CASE k = n + 1
      <4>1. k - 1 = n
        BY <3>1
      <4> QED
        BY <1>5, <1>8, <3>1, <4>1
    <3>2. CASE k # n + 1
      <4>1. k \in 1 .. n /\ k \in DOMAIN frame.delays
        BY <1>6, <3>2
      <4> QED
        BY <1>1, <1>6, <1>8, <4>1 DEF FrameOK
    <3> QED
      BY <3>1, <3>2
  <2>2. \A k \in DOMAIN f.delays :
           f.delays[k] = ComputeBackoff(backoff.base, backoff.multiplier, k - 1)
    BY <1>10, <2>1
  <2>3. (\A k \in DOMAIN frame.delays :
           frame.delays[k] = ComputeBackoff(backoff.base, backoff.multiplier, k - 1))'
    BY <1>11, <2>2 DEF ComputeBackoff
  <2> QED
    BY <1>1, <1>2, <1>10, <1>11, <2>3 DEF FrameOK
<1>14. receipt # None => ReceiptOK'
  BY <1>11 DEF ExecutionInv, ReceiptOK
<1> QED
  BY <1>10, <1>11, <1>12, <1>13, <1>14 DEF ExecutionInv

LEMMA SimulateKeeps ==
    ASSUME ExecutionInv, NEW args \in Nat, Simulate(args)
    PROVE  ExecutionInv'
<1>1. /\ effects' = effects + 1 /\ effects < MaxEffects /\ frame = None
      /\ UNCHANGED <<executionAdmin, maxRetries, backoff, total, errors, history, maxHistory,
                     frame, receipt>>
  BY DEF Simulate, Invoke, config, account
<1>2. ExecutionTypeOK'
  <2>1. effects \in Nat /\ MaxEffects \in Nat
    BY ExecutionNumbers DEF ExecutionInv, ExecutionTypeOK
  <2>2. effects' \in 0 .. MaxEffects
    BY <1>1, <2>1
  <2> QED
    BY <1>1, <2>2 DEF ExecutionInv, ExecutionTypeOK
<1>3. receipt # None => ReceiptOK'
  BY <1>1 DEF ExecutionInv, ReceiptOK
<1> QED
  BY <1>1, <1>2, <1>3 DEF ExecutionInv

\* The record a success leaves.
RecordOf(request) ==
    [target |-> request.target, success |-> TRUE, fee |-> ComputeActualFee(request.amount)]

LEMMA ActualFee ==
    ASSUME NEW amount \in Int, amount > 0
    PROVE  ComputeActualFee(amount) \in Nat
<1>1. PICK s : s = amount \div FeeDivisor
  OBVIOUS
<1>2. s \in Nat
  BY <1>1, ExecutionNumbers
<1> QED
  BY <1>1, <1>2, ExecutionNumbers DEF ComputeActualFee, ComputeBaseAndResourceFee

LEMMA Remembered ==
    ASSUME ExecutionInv, NEW r \in RequestTypes, r.amount > 0
    PROVE  /\ AppendHistory(r) \in Histories /\ AppendHistory(r) # << >>
           /\ Len(AppendHistory(r)) = Min(maxHistory, Len(history) + 1)
           /\ AppendHistory(r)[Len(AppendHistory(r))] = RecordOf(r)
           /\ \A i \in 1 .. Len(AppendHistory(r)) :
                 AppendHistory(r)[i] = Append(history, RecordOf(r))[Len(history) + 1 - Len(AppendHistory(r)) + i]
<1>1. history \in Histories /\ maxHistory \in Nat \ {0}
  BY DEF ExecutionInv, ExecutionTypeOK
<1>2. PICK T : T = [target : Targets, success : BOOLEAN, fee : Nat]
  OBVIOUS
<1>3. PICK e \in T : e = RecordOf(r)
  BY <1>2, ActualFee DEF RecordOf, RequestTypes
<1>4. PICK l \in Nat : l = Len(history)
  BY <1>1 DEF Histories
<1>5. PICK s \in Seq(T) : s = Append(history, e) /\ Len(s) = l + 1 /\ s[l + 1] = e
  <2>1. PICK s : s = Append(history, e)
    OBVIOUS
  <2>2. history \in Seq(T)
    BY <1>1, <1>2 DEF Histories
  <2> QED
    BY <1>4, <2>1, <2>2
<1>6. PICK n \in Nat \ {0} : n = maxHistory
  BY <1>1
<1>7. PICK h : h = AppendHistory(r)
  OBVIOUS
<1>8. h = EvictOldest(s, n)
  BY <1>3, <1>5, <1>6, <1>7 DEF AppendHistory, RecordOf
<1>9. PICK m \in Nat \ {0} : m = Min(n, l + 1) /\ m <= l + 1
  BY DEF Min
<1>10. h \in Seq(T) /\ Len(h) = m /\ \A i \in 1 .. m : h[i] = s[l + 1 - m + i]
  <2>1. /\ EvictOldest(s, n) \in Seq(T)
        /\ Len(EvictOldest(s, n)) = Min(n, Len(s))
        /\ \A i \in 1 .. Min(n, Len(s)) :
              EvictOldest(s, n)[i] = s[Len(s) - Min(n, Len(s)) + i]
    BY Evicted
  <2>2. Min(n, Len(s)) = m /\ Len(s) = l + 1
    BY <1>5, <1>9
  <2> QED
    BY <1>8, <2>1, <2>2
<1>11. h[m] = e
  <2>1. m \in 1 .. m /\ l + 1 - m + m = l + 1
    OBVIOUS
  <2> QED
    BY <1>5, <1>10, <2>1
<1>12. h # << >>
  BY <1>10
<1>13. h \in Histories
  BY <1>2, <1>10 DEF Histories
<1> QED
  BY <1>3, <1>4, <1>5, <1>6, <1>7, <1>9, <1>10, <1>11, <1>12, <1>13

LEMMA AttemptSucceedsKeeps ==
    ASSUME ExecutionInv, AttemptSucceeds
    PROVE  ExecutionInv'
<1>1. /\ frame # None /\ frame \in Frames /\ FrameOK /\ frame.attempts \in Nat /\ frame.retries \in Nat
      /\ frame.delays \in Seq(Nat) /\ Len(frame.delays) = frame.attempts
      /\ frame.request \in RequestTypes /\ frame.attempts <= frame.retries /\ frame.request \in Requests
  BY Framed DEF AttemptSucceeds, ExecutionInv, ExecutionTypeOK, Frames
<1>2. PICK n \in Nat : n = frame.attempts
  BY <1>1
<1>3. PICK q \in RequestTypes : q = frame.request /\ q.amount > 0 /\ q \in Requests
  BY <1>1 DEF FrameOK
<1>4. PICK h : h = AppendHistory(q)
  OBVIOUS
<1>5. /\ h \in Histories /\ h # << >> /\ Len(h) <= maxHistory
      /\ h[Len(h)] = RecordOf(q)
  <2>1. /\ AppendHistory(q) \in Histories /\ AppendHistory(q) # << >>
        /\ Len(AppendHistory(q)) = Min(maxHistory, Len(history) + 1)
        /\ AppendHistory(q)[Len(AppendHistory(q))] = RecordOf(q)
    BY <1>3, Remembered
  <2>2. PICK x \in Nat, y \in Nat : x = maxHistory /\ y = Len(history)
    BY ExecutionFigures DEF Histories
  <2>3. Min(x, y + 1) <= x
    BY DEF Min
  <2> QED
    BY <1>4, <2>1, <2>2, <2>3
<1>6. PICK r : r = [request |-> q, attempts |-> n + 1, delays |-> frame.delays,
                    allowed |-> maxRetries]
  OBVIOUS
<1>7. /\ r \in Receipts /\ r # None /\ r.request = q /\ r.attempts = n + 1
      /\ r.delays = frame.delays /\ r.allowed = maxRetries
      /\ maxRetries \in Nat
  <2>0. maxRetries \in 1 .. MaxRetriesCap
    BY <1>1 DEF FrameOK, ExecutionInv, ExecutionTypeOK
  <2>1. r \in Receipts
    BY <1>1, <1>3, <1>6, <2>0, Caps DEF Receipts
  <2>2. maxRetries \in Nat
    BY <2>0, Caps
  <2> QED
    BY <1>6, <2>1, <2>2, ExecutionNone
<1>8. /\ total' = Min(total + 1, MaxU64) /\ history' = h /\ frame' = None /\ receipt' = r
      /\ UNCHANGED <<executionAdmin, maxRetries, backoff, errors, maxHistory>>
  BY <1>2, <1>3, <1>4, <1>6 DEF AttemptSucceeds, Succeed, config
<1>9. effects' \in 0 .. MaxEffects
  <2>1. effects' = effects \/ (effects < MaxEffects /\ effects' = effects + 1)
    BY DEF AttemptSucceeds, Invoke
  <2> QED
    BY <2>1, Caps, ExecutionFigures
<1>10. Min(total + 1, MaxU64) \in 0 .. MaxU64
  BY Caps, ExecutionFigures DEF Min
<1>11. ExecutionTypeOK'
  BY <1>5, <1>7, <1>8, <1>9, <1>10 DEF ExecutionInv, ExecutionTypeOK, ValidMultiplier
<1>12. Rising(frame.delays)
  <2> SUFFICES ASSUME NEW i \in DOMAIN frame.delays, NEW j \in DOMAIN frame.delays, i < j
               PROVE  /\ Min(frame.delays[i], MaxBackoff) <= frame.delays[j]
                      /\ frame.delays[j] <= MaxBackoff
    BY DEF Rising
  <2>1. backoff.base \in Nat /\ backoff.multiplier \in Nat
    BY ExecutionFigures
  <2>2. i \in Nat \ {0} /\ j \in Nat \ {0}
    BY <1>1
  <2>3. i - 1 \in Nat /\ j - 1 \in Nat /\ i - 1 < j - 1
    BY <2>2
  <2>4. /\ frame.delays[i] = ComputeBackoff(backoff.base, backoff.multiplier, i - 1)
        /\ frame.delays[j] = ComputeBackoff(backoff.base, backoff.multiplier, j - 1)
    BY <1>1 DEF FrameOK
  <2> QED
    BY <2>1, <2>3, <2>4, BackoffRises
<1>13. RecordOf(q).fee = ComputeActualFee(q.amount)
  BY DEF RecordOf
<1>14. ReceiptOK'
  <2>1. /\ r.attempts = Len(r.delays) + 1
        /\ r.attempts <= r.request.retries + 1 /\ r.attempts <= r.allowed + 1
        /\ r.request.simulate => r.attempts = 1
        /\ r.request.amount > 0
    <3>1. q.retries \in Nat /\ frame.retries <= q.retries /\ frame.retries <= maxRetries
          /\ (q.simulate => n = 0)
      BY <1>1, <1>2, <1>3 DEF FrameOK, RequestTypes
    <3>2. frame.retries <= q.retries /\ n <= frame.retries /\ frame.retries \in Nat /\ q.retries \in Nat
      BY <1>1, <1>2, <3>1
    <3>3. n + 1 <= q.retries + 1 /\ n + 1 <= maxRetries + 1
      BY <1>2, <1>7, <3>1, <3>2
    <3>4. q.simulate => n + 1 = 1
      BY <3>1
    <3>5. n + 1 = Len(r.delays) + 1
      BY <1>1, <1>2, <1>7
    <3> QED
      BY <1>3, <1>7, <3>3, <3>4, <3>5
  <2>2. Rising(r.delays)
    BY <1>7, <1>12
  <2>3. h[Len(h)].fee = ComputeActualFee(r.request.amount)
    BY <1>5, <1>7, <1>13
  <2>4. Rising(receipt.delays)'
    BY <1>8, <2>2 DEF Rising, Min
  <2>5. (history[Len(history)].fee = ComputeActualFee(receipt.request.amount))'
    BY <1>8, <2>3 DEF ComputeActualFee, ComputeBaseAndResourceFee
  <2> QED
    BY <1>5, <1>8, <2>1, <2>4, <2>5 DEF ReceiptOK
<1>15. executionAdmin' # None
  BY <1>1, <1>8 DEF FrameOK
<1> QED
  BY <1>8, <1>11, <1>14, <1>15 DEF ExecutionInv

LEMMA ExecutionKeeps == ExecutionInv /\ [ExecutionNext]_executionVars => ExecutionInv'
<1> SUFFICES ASSUME ExecutionInv, [ExecutionNext]_executionVars
             PROVE  ExecutionInv'
  OBVIOUS
<1>1. CASE \E a \in Addresses : ConfigureExecution(a)
  BY <1>1, ConfigureKeeps
<1>2. ASSUME NEW r \in Requests, Execute(r) \/ Simulate(r.args)
      PROVE  ExecutionInv'
  <2>1. r.args \in Nat
    BY ExecutionInputs DEF RequestTypes
  <2> QED
    BY <1>2, <2>1, ExecuteKeeps, SimulateKeeps
<1>3. CASE ExecutionStep
  <2>1. CASE RollBack /\ frame # None
    BY <2>1, RollBackKeeps
  <2> QED
    BY <1>3, <2>1, SimulatesFirstKeeps, AttemptSucceedsKeeps, AttemptFailsKeeps
       DEF ExecutionStep, SimulationFails, LastAttemptFails, Trap
<1>4. CASE UNCHANGED executionVars
  <2>1. UNCHANGED <<executionAdmin, maxRetries, backoff, total, errors, history, maxHistory,
                    effects, frame, receipt>>
    BY <1>4 DEF executionVars, config, account
  <2>2. ExecutionTypeOK'
    BY <2>1 DEF ExecutionInv, ExecutionTypeOK, ValidMultiplier
  <2>3. frame # None => FrameOK'
    <3> SUFFICES ASSUME frame # None PROVE FrameOK'
      OBVIOUS
    <3>1. FrameOK
      BY DEF ExecutionInv
    <3> QED
      BY <2>1, <3>1 DEF FrameOK, ComputeBackoff
  <2>4. receipt # None => ReceiptOK'
    BY <2>1 DEF ExecutionInv, ReceiptOK
  <2> QED
    BY <2>1, <2>2, <2>3, <2>4 DEF ExecutionInv
<1> QED
  BY <1>1, <1>2, <1>3, <1>4 DEF ExecutionNext

LEMMA ExecutionHolds == ExecutionSpec => []ExecutionInv
<1> QED
  BY ExecutionStarts, ExecutionKeeps, PTL DEF ExecutionSpec

LEMMA QuietFee ==
    ASSUME NEW amount \in Int, amount > 0, NEW load \in Nat, load < HighLoad
    PROVE  EstimateFee(amount, load).total = ComputeActualFee(amount)
<1>1. PICK x \in Nat : x = ComputeActualFee(amount)
  BY ActualFee
<1>2. PICK s \in Nat \ {0} : s = Scale
  BY ExecutionNumbers
<1>3. (x * s) \div s = x
  <2>1. PICK y \in Nat : y = x * s
    OBVIOUS
  <2>2. PICK q \in Nat : q = y \div s /\ q * s <= y /\ y < (q + 1) * s
    OBVIOUS
  <2>3. q <= x
    <3> SUFFICES ASSUME x + 1 <= q PROVE FALSE
      OBVIOUS
    <3>1. (x + 1) * s <= q * s /\ (x + 1) * s = x * s + s
      OBVIOUS
    <3> QED
      BY <2>1, <2>2, <3>1
  <2>4. x <= q
    <3> SUFFICES ASSUME q + 1 <= x PROVE FALSE
      OBVIOUS
    <3>1. (q + 1) * s <= x * s
      OBVIOUS
    <3> QED
      BY <2>1, <2>2, <3>1
  <2> QED
    BY <2>1, <2>2, <2>3, <2>4
<1>4. ~(load >= HighLoad)
  BY ExecutionNumbers
<1>5. EstimateFee(amount, load).total
        = ((ComputeBaseAndResourceFee(amount).base + ComputeBaseAndResourceFee(amount).resource) * Scale)
            \div Scale
  BY <1>4 DEF EstimateFee
<1>6. ComputeBaseAndResourceFee(amount).base + ComputeBaseAndResourceFee(amount).resource = x
  BY <1>1 DEF ComputeActualFee
<1> QED
  BY <1>1, <1>2, <1>3, <1>5, <1>6

LEMMA HonestReceipt == ExecutionInv => ReceiptHonest
<1> SUFFICES ASSUME ExecutionInv, receipt # None
             PROVE  /\ receipt.attempts = Len(receipt.delays) + 1
                    /\ receipt.attempts <= Min(receipt.request.retries, receipt.allowed) + 1
                    /\ receipt.request.simulate => receipt.attempts = 1
                    /\ Rising(receipt.delays)
                    /\ \A load \in Loads : load < HighLoad =>
                          GetExecutionHistory(1)[1].fee = EstimateFee(receipt.request.amount, load).total
  BY DEF ReceiptHonest, ExecutionInv
<1>1. receipt \in Receipts /\ ReceiptOK /\ history \in Histories
  BY DEF ExecutionInv, ExecutionTypeOK
<1>2. /\ receipt.request \in RequestTypes /\ receipt.delays \in Seq(Nat) /\ receipt.attempts \in Nat
      /\ receipt.allowed \in Nat
  BY <1>1, ExecutionInputs DEF Receipts
<1>3. receipt.attempts <= Min(receipt.request.retries, receipt.allowed) + 1
  BY <1>1, <1>2 DEF ReceiptOK, Min, RequestTypes
<1>4. Rising(receipt.delays)
  BY <1>1 DEF ReceiptOK
<1>5. GetExecutionHistory(1)[1] = history[Len(history)]
  <2>1. PICK l \in Nat \ {0} : l = Len(history)
    BY <1>1 DEF ReceiptOK, Histories
  <2>2. Min(1, l) = 1 /\ l - 1 + 1 = l
    BY DEF Min
  <2>3. GetExecutionHistory(1) = [i \in 1 .. 1 |-> history[l - i + 1]]
    BY <2>1, <2>2 DEF GetExecutionHistory
  <2> QED
    BY <2>1, <2>2, <2>3
<1>6. ASSUME NEW load \in Loads, load < HighLoad
      PROVE  GetExecutionHistory(1)[1].fee = EstimateFee(receipt.request.amount, load).total
  <2>1. load \in Nat /\ receipt.request.amount \in Int /\ receipt.request.amount > 0
    BY <1>1, <1>2, ExecutionInputs DEF ReceiptOK, RequestTypes
  <2>2. EstimateFee(receipt.request.amount, load).total = ComputeActualFee(receipt.request.amount)
    BY <1>6, <2>1, QuietFee
  <2> QED
    BY <1>1, <1>5, <2>2 DEF ReceiptOK
<1> QED
  BY <1>1, <1>3, <1>4, <1>6 DEF ReceiptOK

\* What execute answers is what it did: for any caps, settings and outcomes of
\* the calls, the attempts are within what the caller asks for and the admin
\* allows at the time, the announced delays never fall but from a first one above
\* the cap and stay within the cap after it, and the record carries the fee
\* estimate_fee promised.
THEOREM ReceiptsStayHonest == ExecutionSpec => []ReceiptHonest
<1> QED
  BY ExecutionHolds, HonestReceipt, PTL

-----------------------------------------------------------------------------
(* The execution contract implements ExecutionAccount.                     *)

\* The records as the queries give them, newest first.
Reversed(s) == [i \in 1 .. Len(s) |-> s[Len(s) - i + 1]]

\* What the account is taken to be in a state of the contract.
AccountTotal == Seen.total
AccountEffects == Seen.effects
AccountRecords == IF frame = None THEN GetExecutionHistory(Len(history)) ELSE NewestFirst

LEMMA AccountSeen ==
    ExecutionInv => /\ AccountTotal = total
                    /\ AccountEffects = effects - (IF frame # None /\ frame.carried THEN 1 ELSE 0)
                    /\ AccountRecords = Reversed(history)
<1> SUFFICES ASSUME ExecutionInv
             PROVE  /\ AccountTotal = total
                    /\ AccountEffects = effects - (IF frame # None /\ frame.carried THEN 1 ELSE 0)
                    /\ AccountRecords = Reversed(history)
  OBVIOUS
<1>1. history \in Histories /\ effects \in Nat
  BY ExecutionNumbers DEF ExecutionInv, ExecutionTypeOK
<1>2. PICK l \in Nat : l = Len(history) /\ DOMAIN history = 1 .. l
  BY <1>1 DEF Histories
<1>3. CASE frame = None
  <2>1. Min(l, l) = l
    BY DEF Min
  <2>2. GetExecutionHistory(Len(history)) = Reversed(history)
    BY <1>2, <2>1 DEF GetExecutionHistory, Reversed
  <2> QED
    BY <1>1, <1>3, <2>2 DEF AccountTotal, AccountEffects, AccountRecords, Seen, Snapshot
<1>4. CASE frame # None
  <2>1. FrameOK /\ frame.carried \in BOOLEAN /\ frame.before.effects \in Nat
    BY <1>4, Framed
  <2>2. Seen = frame.before
    BY <1>4 DEF Seen
  <2>3. NewestFirst = Reversed(history)
    BY <1>2, <2>1, <2>2 DEF NewestFirst, Reversed, FrameOK
  <2> QED
    BY <1>1, <1>4, <2>1, <2>2, <2>3 DEF AccountTotal, AccountEffects, AccountRecords, FrameOK
<1> QED
  BY <1>3, <1>4

\* Dropping the oldest records is keeping the newest ones.
LEMMA NewestKept ==
    ASSUME NEW T, NEW s \in Seq(T), NEW n \in Nat \ {0}
    PROVE  Reversed(EvictOldest(s, n)) = Account!First(n, Reversed(s))
<1>1. PICK l \in Nat : l = Len(s)
  OBVIOUS
<1>2. PICK m \in Nat : m = Min(n, l) /\ m <= l /\ m <= n /\ (n < l => m = n) /\ (~(n < l) => m = l)
  BY DEF Min
<1>3. PICK t : t = EvictOldest(s, n)
  OBVIOUS
<1>4. t \in Seq(T) /\ Len(t) = m /\ \A i \in 1 .. m : t[i] = s[l - m + i]
  BY <1>1, <1>2, <1>3, Evicted
<1>5. PICK r : r = [i \in 1 .. l |-> s[l - i + 1]]
  OBVIOUS
<1>6. r \in Seq(T) /\ Len(r) = l
  <2>1. \A i \in 1 .. l : s[l - i + 1] \in T
    BY <1>1
  <2> QED
    BY <1>5, <2>1
<1>7. PICK a : a = SubSeq(r, 1, m)
  OBVIOUS
<1>8. a = [i \in 1 .. m |-> r[i]]
  BY <1>2, <1>6, <1>7
<1>9. PICK b : b = [i \in 1 .. m |-> t[m - i + 1]]
  OBVIOUS
<1>10. ASSUME NEW i \in 1 .. m PROVE t[m - i + 1] = r[i]
  <2>1. m - i + 1 \in 1 .. m /\ i \in 1 .. l /\ l - m + (m - i + 1) = l - i + 1
    BY <1>2
  <2>2. t[m - i + 1] = s[l - m + (m - i + 1)]
    BY <1>4, <2>1
  <2> QED
    BY <1>5, <2>1, <2>2
<1>11. a = b
  BY <1>8, <1>9, <1>10
<1>12. Reversed(t) = b
  BY <1>4, <1>9 DEF Reversed
<1>13. Reversed(s) = r
  BY <1>1, <1>5 DEF Reversed
<1>14. Account!First(n, r) = a
  BY <1>2, <1>6, <1>7 DEF Account!First
<1> QED
  BY <1>3, <1>11, <1>12, <1>13, <1>14

LEMMA NewestAdded ==
    ASSUME NEW T, NEW s \in Seq(T), NEW e \in T
    PROVE  Reversed(Append(s, e)) = <<e>> \o Reversed(s)
<1>1. PICK l \in Nat : l = Len(s)
  OBVIOUS
<1>2. PICK t : t = Append(s, e)
  OBVIOUS
<1>3. t \in Seq(T) /\ Len(t) = l + 1 /\ t[l + 1] = e /\ \A i \in 1 .. l : t[i] = s[i]
  BY <1>1, <1>2
<1>4. PICK r : r = [i \in 1 .. l |-> s[l - i + 1]]
  OBVIOUS
<1>5. r \in Seq(T) /\ Len(r) = l
  <2>1. \A i \in 1 .. l : s[l - i + 1] \in T
    BY <1>1
  <2> QED
    BY <1>4, <2>1
<1>6. PICK a : a = <<e>> \o r
  OBVIOUS
<1>7. a = [i \in 1 .. l + 1 |-> IF i = 1 THEN e ELSE r[i - 1]]
  BY <1>5, <1>6
<1>8. PICK b : b = [i \in 1 .. l + 1 |-> t[l + 1 - i + 1]]
  OBVIOUS
<1>9. ASSUME NEW i \in 1 .. l + 1
      PROVE  t[l + 1 - i + 1] = IF i = 1 THEN e ELSE r[i - 1]
  <2>1. CASE i = 1
    <3>1. l + 1 - i + 1 = l + 1
      BY <2>1
    <3> QED
      BY <1>3, <2>1, <3>1
  <2>2. CASE i # 1
    <3>1. i - 1 \in 1 .. l /\ l + 1 - i + 1 = l - (i - 1) + 1 /\ l - (i - 1) + 1 \in 1 .. l
      BY <2>2
    <3>2. r[i - 1] = s[l - (i - 1) + 1]
      BY <1>4, <3>1
    <3> QED
      BY <1>3, <2>2, <3>1, <3>2
  <2> QED
    BY <2>1, <2>2
<1>10. a = b
  BY <1>7, <1>8, <1>9
<1>11. Reversed(t) = b
  BY <1>3, <1>8 DEF Reversed
<1>12. Reversed(s) = r
  BY <1>1, <1>4 DEF Reversed
<1> QED
  BY <1>2, <1>3, <1>6, <1>10, <1>11, <1>12

\* A step of the account, told in those terms.
AccountMoves ==
    \/ /\ AccountEffects' = AccountEffects + 1
       /\ AccountTotal' = IF AccountTotal = MaxU64 THEN AccountTotal ELSE AccountTotal + 1
       /\ AccountRecords' # << >>
       /\ AccountRecords' = Account!First(maxHistory, <<Head(AccountRecords')>> \o AccountRecords)
       /\ maxHistory' = maxHistory
    \/ AccountEffects' = AccountEffects + 1 /\ UNCHANGED <<AccountTotal, AccountRecords, maxHistory>>
    \/ /\ AccountRecords' = Account!First(maxHistory', AccountRecords)
       /\ UNCHANGED <<AccountTotal, AccountEffects>>
    \/ UNCHANGED <<AccountTotal, AccountEffects, AccountRecords, maxHistory>>

LEMMA AccountMovesTo == AccountMoves => [Account!Next]_(Account!vars)
<1> QED
  BY DEF AccountMoves, AccountTotal, AccountEffects, AccountRecords, Account!Next, Account!vars,
         Account!Execution, Account!Preview, Account!Shorten

LEMMA AccountSteps ==
    ExecutionInv /\ ExecutionInv' /\ [ExecutionNext]_executionVars => AccountMoves
<1> SUFFICES ASSUME ExecutionInv, ExecutionInv', [ExecutionNext]_executionVars
             PROVE  AccountMoves
  OBVIOUS
<1> DEFINE under == IF frame # None /\ frame.carried THEN 1 ELSE 0
<1>1. /\ AccountTotal = total /\ AccountEffects = effects - under
      /\ AccountRecords = Reversed(history)
  BY AccountSeen
<1>2. /\ AccountTotal' = total' /\ AccountEffects' = effects' - under'
      /\ AccountRecords' = Reversed(history')
  <2>1. (ExecutionInv => /\ AccountTotal = total
                         /\ AccountEffects = effects - (IF frame # None /\ frame.carried THEN 1 ELSE 0)
                         /\ AccountRecords = Reversed(history))'
    BY AccountSeen, PTL
  <2>2. (Reversed(history))' = Reversed(history')
    BY DEF Reversed
  <2> QED
    BY <2>1, <2>2
<1>3. effects \in Nat /\ effects' \in Nat /\ history \in Histories
  BY ExecutionNumbers DEF ExecutionInv, ExecutionTypeOK
<1> HIDE DEF under
<1>4. ASSUME UNCHANGED <<total, history, maxHistory>>, effects' - under' = effects - under
      PROVE  AccountMoves
  <2>1. Reversed(history') = Reversed(history)
    BY <1>4
  <2> QED
    BY <1>1, <1>2, <1>4, <2>1 DEF AccountMoves
<1>5. ASSUME UNCHANGED <<total, history, maxHistory, effects>>, under = 0, under' = 0
      PROVE  AccountMoves
  BY <1>4, <1>5
<1>6. ASSUME frame # None, RollBack
      PROVE  AccountMoves
  <2>1. FrameOK /\ frame.before.effects \in Nat /\ frame.carried \in BOOLEAN
    BY <1>6, Framed
  <2>2. UNCHANGED <<total, history, maxHistory>> /\ effects' = frame.before.effects /\ frame' = None
    BY <1>6, <2>1 DEF RollBack, FrameOK
  <2>3. effects' - under' = effects - under
    BY <1>3, <1>6, <2>1, <2>2 DEF FrameOK, under
  <2> QED
    BY <1>4, <2>2, <2>3
<1>7. ASSUME NEW a \in Addresses, ConfigureExecution(a)
      PROVE  AccountMoves
  <2>1. frame = None /\ frame' = None /\ effects' = effects
    BY <1>7 DEF ConfigureExecution, InitializeExecution, SetBackoffConfig, SetMaxRetries,
                SetMaxHistorySize, TransferExecutionAdmin
  <2>2. under = 0 /\ under' = 0
    BY <2>1 DEF under
  <2>3. ASSUME NEW n \in Sizes, NEW b \in Backoffs, InitializeExecution(a, n, b)
        PROVE  UNCHANGED <<total, history, maxHistory>>
    BY <2>3 DEF InitializeExecution, ExecutionInv
  <2>4. ASSUME NEW n \in Sizes, SetMaxHistorySize(a, n)
        PROVE  AccountMoves
    <3>1. n \in Nat \ {0} /\ maxHistory' = n /\ history' = EvictOldest(history, n) /\ total' = total
      BY <2>4, ExecutionInputs, ExecutionNumbers DEF SetMaxHistorySize
    <3>2. Reversed(history') = Account!First(n, Reversed(history))
      BY <1>3, <3>1, NewestKept DEF Histories
    <3> QED
      BY <1>1, <1>2, <2>1, <2>2, <3>1, <3>2 DEF AccountMoves
  <2>5. ASSUME UNCHANGED <<total, history, maxHistory>>
        PROVE  AccountMoves
    BY <1>5, <2>1, <2>2, <2>5
  <2> QED
    BY <1>7, <2>3, <2>4, <2>5 DEF ConfigureExecution, SetBackoffConfig, SetMaxRetries,
                                   TransferExecutionAdmin, account
<1>8. ASSUME NEW r \in Requests, Execute(r)
      PROVE  AccountMoves
  <2>1. under = 0 /\ UNCHANGED <<total, history, maxHistory, effects>>
    BY <1>8 DEF Execute, under, account
  <2>2. frame'.carried = FALSE
    BY <1>8 DEF Execute
  <2>3. under' = 0
    BY <2>2 DEF under
  <2> QED
    BY <1>5, <2>1, <2>3
<1>9. ASSUME NEW r \in Requests, Simulate(r.args)
      PROVE  AccountMoves
  <2>1. /\ under = 0 /\ under' = 0 /\ UNCHANGED <<total, history, maxHistory>>
        /\ effects' = effects + 1
    BY <1>9 DEF Simulate, Invoke, under, account
  <2>2. Reversed(history') = Reversed(history)
    BY <2>1
  <2> QED
    BY <1>1, <1>2, <1>3, <2>1, <2>2 DEF AccountMoves
<1>10. ASSUME SimulatesFirst
       PROVE  AccountMoves
  <2>1. frame # None /\ frame \in Frames /\ ~frame.carried /\ frame.request.simulate
    BY <1>10, Framed DEF SimulatesFirst, Simulating
  <2>2. frame' = [frame EXCEPT !.carried = TRUE] /\ effects' = effects + 1
        /\ UNCHANGED <<total, history, maxHistory>>
    BY <1>10 DEF SimulatesFirst, Invoke, account
  <2>3. frame'.carried = TRUE /\ frame' \in Frames
    BY <2>1, <2>2 DEF Frames
  <2>4. under = 0 /\ under' = 1
    BY <2>1, <2>3, ExecutionNone DEF under
  <2> QED
    BY <1>3, <1>4, <2>2, <2>4
<1>11. ASSUME AttemptFails
       PROVE  AccountMoves
  <2>1. frame # None /\ frame \in Frames /\ ~frame.carried
    BY <1>11, Framed DEF AttemptFails
  <2>2. /\ frame' = [frame EXCEPT
              !.attempts = @ + 1,
              !.delays = Append(@, ComputeBackoff(backoff.base, backoff.multiplier, frame.attempts))]
        /\ UNCHANGED <<total, history, maxHistory, effects>>
    BY <1>11 DEF AttemptFails, account
  <2>3. frame'.carried = frame.carried
    BY <2>1, <2>2 DEF Frames
  <2>4. under = 0 /\ under' = 0
    BY <2>1, <2>3 DEF under
  <2> QED
    BY <1>5, <2>2, <2>4
<1>12. ASSUME AttemptSucceeds
       PROVE  AccountMoves
  <2>1. /\ frame # None /\ FrameOK /\ frame.carried \in BOOLEAN /\ frame.request \in RequestTypes
        /\ frame.request.amount > 0
    BY <1>12, Framed DEF AttemptSucceeds, FrameOK
  <2>2. /\ frame' = None /\ total' = Min(total + 1, MaxU64) /\ history' = AppendHistory(frame.request)
        /\ maxHistory' = maxHistory
        /\ effects' = IF frame.carried THEN effects ELSE effects + 1
    BY <1>12 DEF AttemptSucceeds, Succeed, Invoke
  <2>3. effects' - under' = (effects - under) + 1
    BY <1>3, <2>1, <2>2 DEF under
  <2>4. total' = IF total = MaxU64 THEN total ELSE total + 1
    BY <2>2, Caps, ExecutionFigures DEF Min
  <2>5. PICK T : T = [target : Targets, success : BOOLEAN, fee : Nat]
    OBVIOUS
  <2>6. PICK e \in T : e = RecordOf(frame.request)
    BY <2>1, <2>5, ActualFee DEF RecordOf, RequestTypes
  <2>7. PICK n \in Nat \ {0} : n = maxHistory
    BY DEF ExecutionInv, ExecutionTypeOK
  <2>8. PICK s : s = Append(history, e) /\ s \in Seq(T)
    <3>1. PICK s : s = Append(history, e)
      OBVIOUS
    <3>2. history \in Seq(T)
      BY <1>3, <2>5 DEF Histories
    <3> QED
      BY <3>1, <3>2
  <2>9. history' = EvictOldest(s, n)
    BY <2>2, <2>6, <2>7, <2>8 DEF AppendHistory, RecordOf
  <2>10. PICK r : r = Reversed(history)
    OBVIOUS
  <2>11. Reversed(s) = <<e>> \o r
    BY <1>3, <2>5, <2>8, <2>10, NewestAdded DEF Histories
  <2>12. Reversed(history') = Account!First(n, <<e>> \o r)
    BY <2>8, <2>9, <2>11, NewestKept
  <2>13. Reversed(history') # << >> /\ Head(Reversed(history')) = e
    <3>1. PICK h : h = history' /\ h # << >> /\ h \in Seq(T) /\ h[Len(h)] = e
      BY <2>1, <2>2, <2>5, <2>6, Remembered DEF Histories
    <3>2. PICK l \in Nat \ {0} : l = Len(h)
      BY <3>1
    <3>3. PICK v : v = [i \in 1 .. l |-> h[l - i + 1]]
      OBVIOUS
    <3>4. v = Reversed(h) /\ v[1] = e /\ Len(v) = l
      <4>1. l - 1 + 1 = l
        OBVIOUS
      <4> QED
        BY <3>1, <3>2, <3>3, <4>1 DEF Reversed
    <3>5. v \in Seq(T)
      <4>1. \A i \in 1 .. l : h[l - i + 1] \in T
        BY <3>1, <3>2
      <4> QED
        BY <3>3, <4>1
    <3>6. v # << >> /\ Head(v) = v[1]
      BY <3>2, <3>4, <3>5
    <3> QED
      BY <3>1, <3>4, <3>6
  <2>14. AccountRecords' # << >> /\ AccountTotal' = (IF AccountTotal = MaxU64 THEN AccountTotal ELSE AccountTotal + 1)
         /\ AccountEffects' = AccountEffects + 1 /\ maxHistory' = maxHistory
    BY <1>1, <1>2, <2>2, <2>3, <2>4, <2>13
  <2>15. AccountRecords' = Account!First(maxHistory, <<Head(AccountRecords')>> \o AccountRecords)
    BY <1>1, <1>2, <2>7, <2>10, <2>12, <2>13
  <2> QED
    BY <2>14, <2>15 DEF AccountMoves
<1>13. CASE UNCHANGED executionVars
  <2>1. UNCHANGED <<total, history, maxHistory, effects, frame>>
    BY <1>13 DEF executionVars, account
  <2>2. under' = under
    BY <2>1 DEF under
  <2> QED
    BY <1>4, <2>1, <2>2
<1> QED
  BY <1>6, <1>7, <1>8, <1>9, <1>10, <1>11, <1>12, <1>13
     DEF ExecutionNext, ExecutionStep, SimulationFails, LastAttemptFails, Trap

LEMMA AccountStarts == ExecutionInit => Account!Init
<1> SUFFICES ASSUME ExecutionInit PROVE Account!Init
  OBVIOUS
<1>1. Seen.total = 0 /\ Seen.effects = 0
  BY DEF ExecutionInit, Seen, Snapshot
<1>2. GetExecutionHistory(Len(history)) = << >> /\ frame = None
  BY DEF ExecutionInit, GetExecutionHistory, Min
<1> QED
  BY <1>1, <1>2 DEF Account!Init

\* Whether or not it simulates first, however often it retries and wherever the
\* host cuts it off, an execution takes effect once, is counted once and leaves
\* one record, or does none of this (execute and its rollback).
THEOREM AccountIsKept == ExecutionSpec => KeepsAccount
<1>1. ExecutionInv /\ ExecutionInv' /\ [ExecutionNext]_executionVars
        => [Account!Next]_(Account!vars)
  BY AccountSteps, AccountMovesTo
<1> QED
  BY <1>1, AccountStarts, ExecutionHolds, PTL DEF ExecutionSpec, KeepsAccount, Account!Spec

-----------------------------------------------------------------------------
(* The collector: its invariant.                                           *)

Place(c) == CHOOSE i \in DOMAIN ContractOrder : ContractOrder[i] = c

\* The contracts this cycle, or the last one, is done with.
Passed ==
    {c \in Configured : IF scrape.contract = "none" THEN cycle.number > 0
                        ELSE Place(c) < Place(scrape.contract)}

\* A label whose gauge was set in this cycle, or whose call failed without failing
\* its contract.
Fresh(label) ==
    \/ label \in cycle.missed
    \/ label \in DOMAIN gauges /\ gauges[label] >= cycle.since
    \/ label \in DOMAIN gauges /\ gauges[label] = 0 /\ label \in cycle.blank

Paused == <<"core", "is_paused">>
Quoted == <<"quote", "quote_calculated">>
Estimated == <<"quote", "fee_estimated">>

\* The labels of gauges.
TotalCalls ==
    {"total_routed", "is_paused", "total_calls", "get_all_names", "quote_calculated",
     "fee_estimated", "entries"}
Labels == RouteLabels \cup (Configured \X TotalCalls)

CycleTypes ==
    [number : Nat, since : Nat, failed : SUBSET Configured,
     listed : SUBSET RouteLabels, missed : SUBSET RouteLabels, blank : SUBSET Labels]

ScrapeTypes ==
    /\ ledgers \in Seq(SUBSET RouteLabels) /\ Len(ledgers) > 0
    /\ scrape \in [contract : Configured \cup {"none"}, call : Nat, todo : SUBSET RouteLabels,
                   held : Seq(Nat)]
    /\ \A label \in DOMAIN gauges : gauges[label] \in 0 .. Ledger
    /\ scrapeErrors \in [Configured -> Nat]
    /\ up \in BOOLEAN
    /\ cycle \in CycleTypes
    /\ cycle.since <= Ledger

\* Where the loop is.  The first count of the quote contract waits for the second.
PlaceOK ==
    /\ scrape.contract = "none" => scrape = Asleep
    /\ scrape.contract # "none" => scrape.call \in 1 .. Len(CallsTo[scrape.contract]) + 1
    /\ ~AskingRoutes => scrape.todo = {}
    /\ AskingRoutes => scrape.contract \in {"core", "middleware"}
    /\ scrape.contract = "quote" /\ scrape.call > 1 =>
          Len(scrape.held) = 1 /\ scrape.held[1] \in {0} \cup (cycle.since .. Ledger)

\* What is done with has been read: the totals of the contracts before this one
\* and of this one, and the routes listed that are not to be asked for any more.
ReadSoFar ==
    /\ \A c \in Passed \ cycle.failed : \A label \in Totals(c) : Fresh(label)
    /\ scrape.contract \notin {"none", "quote"} =>
          \A i \in 1 .. scrape.call - 1 :
              CallsTo[scrape.contract][i] # "list" =>
                  Fresh(<<scrape.contract, CallsTo[scrape.contract][i]>>)
    /\ \A label \in cycle.listed \ scrape.todo : Fresh(label)

\* A contract fails once in a cycle.
ErrorsOK ==
    \A c \in Configured :
        /\ scrapeErrors[c] <= cycle.number
        /\ scrape.contract # "none" /\ c \notin Passed => scrapeErrors[c] < cycle.number
        /\ c \in cycle.failed => scrapeErrors[c] > 0

QuotesOrdered == Estimated \in DOMAIN gauges =>
    /\ Quoted \in DOMAIN gauges
    /\ gauges[Estimated] = 0 \/ gauges[Quoted] <= gauges[Estimated]

UpWhenClean == scrape = Asleep /\ cycle.number > 0 => (up <=> cycle.failed = {})

ScrapeInv ==
    ScrapeTypes /\ PlaceOK /\ ReadSoFar /\ ErrorsOK /\ QuotesOrdered /\ UpWhenClean

LEMMA CallLists ==
    /\ CallsTo["core"] = <<"total_routed", "is_paused", "list">>
    /\ CallsTo["middleware"] = <<"total_calls", "list">>
    /\ CallsTo["registry"] = <<"get_all_names">>
    /\ CallsTo["quote"] = <<"quote_calculated", "fee_estimated">>
    /\ CallsTo["execution"] = <<"entries">>
<1> QED
  BY DEF CallsTo

LEMMA ContractsPlaced ==
    /\ DOMAIN ContractOrder = 1 .. 5
    /\ \A i, j \in 1 .. 5 : ContractOrder[i] = ContractOrder[j] => i = j
    /\ \A c \in Configured : Place(c) \in 1 .. 5 /\ ContractOrder[Place(c)] = c /\ c # "none"
    /\ \A c \in Configured : c \in {"core", "middleware", "registry", "quote", "execution"}
<1>1. /\ DOMAIN ContractOrder = 1 .. 5 /\ ContractOrder[1] = "core" /\ ContractOrder[2] = "middleware"
      /\ ContractOrder[3] = "registry" /\ ContractOrder[4] = "quote" /\ ContractOrder[5] = "execution"
  BY DEF ContractOrder
<1>2. \A i, j \in 1 .. 5 : ContractOrder[i] = ContractOrder[j] => i = j
  <2>1. \A i \in 1 .. 5 : i = 1 \/ i = 2 \/ i = 3 \/ i = 4 \/ i = 5
    OBVIOUS
  <2> QED
    BY <1>1, <2>1
<1>3. ASSUME NEW c \in Configured
      PROVE  /\ Place(c) \in 1 .. 5 /\ ContractOrder[Place(c)] = c /\ c # "none"
             /\ c \in {"core", "middleware", "registry", "quote", "execution"}
  <2>1. \E i \in 1 .. 5 : ContractOrder[i] = c
    BY <1>1, ScrapeConfigured DEF Range
  <2>2. Place(c) \in 1 .. 5 /\ ContractOrder[Place(c)] = c
    BY <1>1, <2>1 DEF Place
  <2>3. c = "core" \/ c = "middleware" \/ c = "registry" \/ c = "quote" \/ c = "execution"
    <3>1. \A i \in 1 .. 5 : i = 1 \/ i = 2 \/ i = 3 \/ i = 4 \/ i = 5
      OBVIOUS
    <3> QED
      BY <1>1, <2>1, <3>1
  <2> QED
    BY <2>2, <2>3
<1> QED
  BY <1>1, <1>2, <1>3

\* The next contract is the first of those still to come.
LEMMA NextContract ==
    ASSUME NEW S \in SUBSET Configured, S # {}
    PROVE  FirstOfThem(S) \in S /\ \A e \in S : Place(FirstOfThem(S)) <= Place(e)
<1> DEFINE I == {i \in Nat : i \in 1 .. 5 /\ ContractOrder[i] \in S}
           first(i) == ContractOrder[i] \in S /\ \A j \in 1 .. i - 1 : ContractOrder[j] \notin S
<1>1. I \in SUBSET Nat /\ I # {}
  <2>1. PICK c \in S : c \in Configured
    OBVIOUS
  <2> QED
    BY <2>1, ContractsPlaced
<1>2. PICK m \in I : \A i \in I : m <= i
  <2> HIDE DEF I
  <2> QED
    BY <1>1, Least
<1>3. m \in 1 .. 5 /\ first(m)
  <2>1. \A j \in 1 .. m - 1 : j \in 1 .. 5 /\ j \in Nat /\ ~(m <= j)
    BY <1>2
  <2> QED
    BY <1>2, <2>1
<1>4. PICK d : d = CHOOSE i \in 1 .. 5 : first(i)
  OBVIOUS
<1>5. d \in 1 .. 5 /\ first(d)
  <2> HIDE DEF first
  <2> QED
    BY <1>3, <1>4
<1>6. FirstOfThem(S) = ContractOrder[d]
  BY <1>4, ContractsPlaced DEF FirstOfThem
<1>7. ContractOrder[d] \in S
  BY <1>5
<1>8. Place(ContractOrder[d]) = d
  BY <1>5, <1>7, ContractsPlaced
<1>9. ASSUME NEW e \in S PROVE d <= Place(e)
  <2>1. Place(e) \in 1 .. 5 /\ ContractOrder[Place(e)] \in S
    BY ContractsPlaced
  <2> QED
    BY <1>5, <2>1
<1> QED
  BY <1>6, <1>7, <1>8, <1>9

\* Going on passes the contract scraped, and no other.
LEMMA GoesOn ==
    ASSUME ScrapeTypes, NEW F, GoOn(F)
    PROVE  /\ scrape' \in [contract : Configured \cup {"none"}, call : Nat, todo : SUBSET RouteLabels,
                           held : Seq(Nat)]
           /\ scrape'.todo = {}
           /\ \/ scrape' = Asleep /\ up' = (F = {})
              \/ scrape'.contract # "none" /\ scrape'.call = 1 /\ up' = up
           /\ \A e \in Configured :
                 (scrape'.contract = "none" \/ Place(e) < Place(scrape'.contract))
                   <=> (scrape.contract # "none" /\ Place(e) <= Place(scrape.contract))
<1>1. PICK c \in Configured \cup {"none"} : c = scrape.contract
  BY DEF ScrapeTypes
<1>2. StillToCome(c) = {d \in Configured : c = "none" \/ Place(d) > Place(c)}
  BY DEF StillToCome, Place
<1>3. PICK S \in SUBSET Configured : S = StillToCome(c)
  BY <1>2
<1>4. << >> \in Seq(Nat) /\ {} \in SUBSET RouteLabels
  OBVIOUS
<1>5. CASE S = {}
  <2>1. scrape' = Asleep /\ up' = (F = {})
    BY <1>1, <1>3, <1>5 DEF GoOn
  <2>2. scrape'.contract = "none" /\ scrape'.todo = {}
    BY <2>1 DEF Asleep
  <2>3. ASSUME NEW e \in Configured PROVE c # "none" /\ Place(e) <= Place(c)
    BY <1>2, <1>3, <1>5, ContractsPlaced
  <2>4. Asleep \in [contract : Configured \cup {"none"}, call : Nat, todo : SUBSET RouteLabels,
                    held : Seq(Nat)]
    BY <1>4 DEF Asleep
  <2> QED
    BY <1>1, <2>1, <2>2, <2>3, <2>4
<1>6. CASE S # {}
  <2>1. PICK d : d = FirstOfThem(S)
    OBVIOUS
  <2>2. d \in S /\ \A e \in S : Place(d) <= Place(e)
    BY <1>6, <2>1, NextContract
  <2>3. scrape' = AtStart(d) /\ up' = up
    BY <1>1, <1>3, <1>6, <2>1 DEF GoOn
  <2>4. scrape'.contract = d /\ scrape'.call = 1 /\ scrape'.todo = {}
    BY <2>3 DEF AtStart
  <2>5. d \in Configured /\ d # "none" /\ Place(d) \in 1 .. 5 /\ (c = "none" \/ Place(d) > Place(c))
    BY <1>2, <1>3, <2>2, ContractsPlaced
  <2>6. ASSUME NEW e \in Configured
        PROVE  Place(e) < Place(d) <=> (c # "none" /\ Place(e) <= Place(c))
    <3>1. Place(e) \in 1 .. 5 /\ (c # "none" => Place(c) \in 1 .. 5)
      BY ContractsPlaced
    <3>2. e \in S <=> (c = "none" \/ Place(e) > Place(c))
      BY <1>2, <1>3
    <3>3. e \in S => Place(d) <= Place(e)
      BY <2>2
    <3> QED
      BY <2>5, <3>1, <3>2, <3>3
  <2>7. AtStart(d) \in [contract : Configured \cup {"none"}, call : Nat, todo : SUBSET RouteLabels,
                        held : Seq(Nat)]
    BY <1>4, <2>5 DEF AtStart
  <2> QED
    BY <1>1, <2>3, <2>4, <2>5, <2>6, <2>7
<1> QED
  BY <1>5, <1>6

\* No gauge goes stale: what every step but the start of a cycle keeps.
GaugesGrow ==
    /\ ledgers' = ledgers
    /\ cycle' \in CycleTypes /\ cycle'.number = cycle.number /\ cycle'.since = cycle.since
    /\ \A label \in DOMAIN gauges' : gauges'[label] \in 0 .. Ledger
    /\ QuotesOrdered'
    /\ cycle.missed \subseteq cycle'.missed /\ cycle.blank \subseteq cycle'.blank
    /\ \A label \in DOMAIN gauges :
          /\ label \in DOMAIN gauges'
          /\ gauges'[label] # gauges[label] => Fresh(label)'

LEMMA FreshStays ==
    ASSUME ScrapeInv, GaugesGrow, NEW label, Fresh(label)
    PROVE  Fresh(label)'
<1>1. cycle'.since = cycle.since
  BY DEF GaugesGrow
<1>2. CASE label \in cycle.missed
  BY <1>2 DEF GaugesGrow, Fresh
<1>3. CASE label \in DOMAIN gauges /\ (gauges[label] >= cycle.since \/ label \in cycle.blank)
  BY <1>1, <1>3 DEF GaugesGrow, Fresh
<1> QED
  BY <1>2, <1>3 DEF Fresh

\* A step within the scrape of a contract.
LEMMA StaysOn ==
    ASSUME ScrapeInv, GaugesGrow, scrape.contract # "none",
           scrape' \in [contract : Configured \cup {"none"}, call : Nat, todo : SUBSET RouteLabels,
                        held : Seq(Nat)],
           scrape'.contract = scrape.contract, up' = up, scrapeErrors' = scrapeErrors,
           cycle'.failed = cycle.failed, PlaceOK',
           scrape.contract # "quote" =>
              \A i \in 1 .. scrape'.call - 1 :
                  CallsTo[scrape.contract][i] # "list" =>
                      (Fresh(<<scrape.contract, CallsTo[scrape.contract][i]>>))',
           \A label \in cycle'.listed \ scrape'.todo : Fresh(label)'
    PROVE  ScrapeInv'
<1>1. ScrapeTypes'
  BY DEF ScrapeInv, ScrapeTypes, GaugesGrow, CycleTypes, Ledger
<1>2. Passed' = Passed
  BY DEF Passed, Place
<1>3. ReadSoFar'
  <2>1. \A c \in Passed \ cycle.failed : \A label \in Totals(c) : Fresh(label)'
    BY FreshStays DEF ScrapeInv, ReadSoFar
  <2> QED
    BY <1>2, <2>1 DEF ReadSoFar
<1>4. ErrorsOK'
  BY <1>2 DEF ScrapeInv, ErrorsOK, GaugesGrow
<1>5. QuotesOrdered'
  BY DEF GaugesGrow
<1>6. UpWhenClean'
  BY DEF UpWhenClean, Asleep
<1> QED
  BY <1>1, <1>3, <1>4, <1>5, <1>6 DEF ScrapeInv

\* The step that ends the scrape of a contract.
LEMMA MovesOn ==
    ASSUME ScrapeInv, GaugesGrow, scrape.contract # "none", GoOn(cycle'.failed),
           cycle'.failed \subseteq cycle.failed \cup {scrape.contract},
           cycle.failed \subseteq cycle'.failed,
           scrapeErrors' \in [Configured -> Nat],
           \A c \in Configured : \/ scrapeErrors'[c] = scrapeErrors[c]
                                 \/ c = scrape.contract /\ scrapeErrors'[c] = scrapeErrors[c] + 1,
           scrapeErrors' = scrapeErrors => cycle'.failed = cycle.failed,
           scrapeErrors' # scrapeErrors => scrapeErrors'[scrape.contract] = scrapeErrors[scrape.contract] + 1,
           scrape.contract \in cycle'.failed \/ \A label \in Totals(scrape.contract) : Fresh(label)',
           \A label \in cycle'.listed : Fresh(label)'
    PROVE  ScrapeInv'
<1>1. PICK at \in Configured : at = scrape.contract
  BY DEF ScrapeInv, ScrapeTypes
<1>2. ScrapeTypes
  BY DEF ScrapeInv
<1>3. /\ scrape' \in [contract : Configured \cup {"none"}, call : Nat, todo : SUBSET RouteLabels,
                      held : Seq(Nat)]
      /\ scrape'.todo = {}
      /\ \/ scrape' = Asleep /\ up' = (cycle'.failed = {})
         \/ scrape'.contract # "none" /\ scrape'.call = 1 /\ up' = up
      /\ \A e \in Configured :
            (scrape'.contract = "none" \/ Place(e) < Place(scrape'.contract))
              <=> (scrape.contract # "none" /\ Place(e) <= Place(scrape.contract))
  BY <1>2, GoesOn
<1>4. scrape' = Asleep => scrape'.contract = "none"
  BY DEF Asleep
<1>5. cycle.number \in Nat /\ cycle.number > 0 /\ cycle'.number = cycle.number
  <2>1. at \notin Passed
    BY <1>1, ContractsPlaced DEF Passed
  <2>2. scrapeErrors[at] < cycle.number /\ scrapeErrors[at] \in Nat /\ cycle.number \in Nat
    BY <1>1, <2>1 DEF ScrapeInv, ScrapeTypes, CycleTypes, ErrorsOK
  <2> QED
    BY <2>2 DEF GaugesGrow
<1>6. Passed' = Passed \cup {at}
  <2>1. \A e \in Configured : Place(e) <= Place(at) <=> Place(e) < Place(at) \/ e = at
    <3> SUFFICES ASSUME NEW e \in Configured
                 PROVE  Place(e) <= Place(at) <=> Place(e) < Place(at) \/ e = at
      OBVIOUS
    <3>1. Place(e) \in 1 .. 5 /\ Place(at) \in 1 .. 5 /\ (Place(e) = Place(at) => e = at)
      BY ContractsPlaced
    <3> QED
      BY <3>1
  <2>2. \A e \in Configured : e \in Passed <=> Place(e) < Place(at)
    BY <1>1 DEF Passed
  <2>3. \A e \in Configured :
           e \in Passed' <=> (scrape'.contract = "none" \/ Place(e) < Place(scrape'.contract))
    BY <1>5 DEF Passed, Place
  <2>4. Passed' \subseteq Configured /\ Passed \subseteq Configured
    BY DEF Passed
  <2> QED
    BY <1>1, <1>3, <2>1, <2>2, <2>3, <2>4
<1>7. ScrapeTypes'
  <2>1. up' \in BOOLEAN
    BY <1>3 DEF ScrapeInv, ScrapeTypes
  <2> QED
    BY <1>3, <2>1 DEF ScrapeInv, ScrapeTypes, GaugesGrow, CycleTypes, Ledger
<1>8. PlaceOK'
  <2>1. scrape'.contract # "none" =>
           /\ scrape'.call = 1 /\ 1 \in 1 .. Len(CallsTo[scrape'.contract]) + 1
           /\ ~(1 > Len(CallsTo[scrape'.contract]))
    <3> SUFFICES ASSUME scrape'.contract # "none"
                 PROVE  /\ 1 \in 1 .. Len(CallsTo[scrape'.contract]) + 1
                        /\ ~(1 > Len(CallsTo[scrape'.contract]))
      BY <1>3, <1>4
    <3>1. scrape'.contract \in {"core", "middleware", "registry", "quote", "execution"}
      BY <1>3, ContractsPlaced
    <3> QED
      BY <3>1, CallLists
  <2>2. scrape'.contract = "none" => scrape' = Asleep
    BY <1>3
  <2>3. ~AskingRoutes'
    BY <2>1 DEF AskingRoutes, CallsTo
  <2>4. scrape'.contract # "none" => ~(scrape'.call > 1)
    BY <2>1
  <2>5. ~(scrape'.contract = "quote" /\ scrape'.call > 1)
    BY <2>4
  <2> QED
    BY <1>3, <2>1, <2>2, <2>3, <2>5 DEF PlaceOK, CallsTo
<1>9. ReadSoFar'
  <2>1. \A c \in Passed \ cycle.failed : \A label \in Totals(c) : Fresh(label)'
    BY FreshStays DEF ScrapeInv, ReadSoFar
  <2>2. \A c \in (Passed \cup {at}) \ cycle'.failed : \A label \in Totals(c) : Fresh(label)'
    BY <1>1, <2>1
  <2>3. scrape'.contract # "none" => scrape'.call - 1 = 0
    BY <1>3, <1>4
  <2> QED
    BY <1>6, <2>2, <2>3 DEF ReadSoFar
<1>10. ErrorsOK'
  <2> SUFFICES ASSUME NEW c \in Configured
               PROVE  /\ scrapeErrors'[c] <= cycle.number
                      /\ c \notin Passed \cup {at} => scrapeErrors'[c] < cycle.number
                      /\ c \in cycle'.failed => scrapeErrors'[c] > 0
    BY <1>5, <1>6 DEF ErrorsOK
  <2>1. /\ scrapeErrors[c] \in Nat /\ scrapeErrors'[c] \in Nat /\ scrapeErrors[c] <= cycle.number
        /\ c \notin Passed => scrapeErrors[c] < cycle.number
        /\ c \in cycle.failed => scrapeErrors[c] > 0
    BY DEF ScrapeInv, ScrapeTypes, ErrorsOK
  <2>2. at \notin Passed
    BY <1>1, ContractsPlaced DEF Passed
  <2>3. c \in cycle'.failed => scrapeErrors'[c] > 0
    BY <1>1, <2>1
  <2> QED
    BY <1>1, <1>5, <2>1, <2>2, <2>3
<1>11. QuotesOrdered'
  BY DEF GaugesGrow
<1>12. UpWhenClean'
  BY <1>3, <1>4 DEF UpWhenClean
<1> QED
  BY <1>7, <1>8, <1>9, <1>10, <1>11, <1>12 DEF ScrapeInv

\* The label of a total is no route's.
LEMMA LabelsApart ==
    ASSUME NEW c, NEW q
    PROVE  <<c, q>> \notin RouteLabels
<1>1. ASSUME NEW a, NEW b, NEW r
      PROVE  <<c, q>> # <<a, b, r>>
  <2>1. Len(<<c, q>>) = 2 /\ Len(<<a, b, r>>) = 3
    OBVIOUS
  <2> QED
    BY <2>1
<1>2. \A label \in RouteLabels : \E a, b, r : label = <<a, b, r>>
  BY DEF RouteLabels
<1> QED
  BY <1>1, <1>2

LEMMA LabelOf ==
    ASSUME NEW c \in Configured, NEW q \in TotalCalls
    PROVE  <<c, q>> \in Labels
<1>1. <<c, q>> \in Configured \X TotalCalls
  OBVIOUS
<1> QED
  BY <1>1 DEF Labels

\* A gauge set from this ledger, or to the default.
LEMMA GaugeSet ==
    ASSUME ScrapeInv, NEW label \in Labels, NEW value \in Readings, Show(label, value),
           ledgers' = ledgers, label # Quoted, label # Estimated
    PROVE  /\ GaugesGrow /\ Fresh(label)'
           /\ cycle'.failed = cycle.failed /\ cycle'.listed = cycle.listed
<1>1. /\ DOMAIN gauges' = DOMAIN gauges \cup {label} /\ gauges'[label] = value
      /\ \A x \in DOMAIN gauges : x # label => gauges'[x] = gauges[x]
  BY DEF Put, Show
<1>2. /\ cycle \in CycleTypes /\ cycle.since \in 0 .. Ledger /\ Ledger \in Nat
      /\ \A x \in DOMAIN gauges : gauges[x] \in 0 .. Ledger
  <2>1. cycle.since \in Nat /\ Ledger \in Nat
    BY DEF ScrapeInv, ScrapeTypes, CycleTypes, Ledger
  <2> QED
    BY <2>1 DEF ScrapeInv, ScrapeTypes
<1>3. PICK B \in SUBSET Labels :
         B = IF value = 0 THEN cycle.blank \cup {label} ELSE cycle.blank
  BY <1>2 DEF CycleTypes
<1>4. cycle' = [cycle EXCEPT !.blank = B]
  BY <1>3 DEF Show
<1>5. /\ cycle' \in CycleTypes /\ cycle'.number = cycle.number /\ cycle'.since = cycle.since
      /\ cycle'.failed = cycle.failed /\ cycle'.listed = cycle.listed
      /\ cycle'.missed = cycle.missed /\ cycle'.blank = B
  BY <1>2, <1>4 DEF CycleTypes
<1>6. value \in 0 .. Ledger /\ (value = 0 \/ value >= cycle.since)
  BY <1>2 DEF Readings
<1>7. \A x \in DOMAIN gauges' : gauges'[x] \in 0 .. Ledger
  BY <1>1, <1>2, <1>6
<1>8. QuotesOrdered'
  BY <1>1 DEF ScrapeInv, QuotesOrdered
<1>9. Fresh(label)'
  BY <1>1, <1>3, <1>5, <1>6 DEF Fresh
<1>10. \A x \in DOMAIN gauges : x \in DOMAIN gauges' /\ (gauges'[x] # gauges[x] => Fresh(x)')
  BY <1>1, <1>9
<1>11. cycle.blank \subseteq B
  BY <1>3
<1> QED
  BY <1>5, <1>7, <1>8, <1>9, <1>10, <1>11 DEF GaugesGrow

LEMMA GaugesStay ==
    ASSUME ScrapeInv, gauges' = gauges, ledgers' = ledgers, cycle' \in CycleTypes,
           cycle'.number = cycle.number, cycle'.since = cycle.since,
           cycle.missed \subseteq cycle'.missed, cycle.blank \subseteq cycle'.blank
    PROVE  GaugesGrow
<1> QED
  BY DEF GaugesGrow, ScrapeInv, ScrapeTypes, QuotesOrdered

\* The contracts and their calls.
LEMMA WhatIsAsked ==
    ASSUME ScrapeInv, NEW c, NEW q, c # "none", Asking(c, q)
    PROVE  /\ c \in Configured /\ scrape.contract = c /\ scrape.call \in 1 .. Len(CallsTo[c])
           /\ CallsTo[c][scrape.call] = q /\ scrape.todo = {} /\ ~AskingRoutes
           /\ cycle \in CycleTypes /\ cycle.since \in 0 .. Ledger /\ Ledger \in Nat \ {0}
           /\ \A label \in cycle.listed : Fresh(label)
<1>1. /\ scrape.contract = c /\ ~AskingRoutes /\ CallsTo[c][scrape.call] = q
      /\ scrape.todo = {} /\ c \in Configured /\ scrape.call \in Nat
      /\ scrape.call \in 1 .. Len(CallsTo[c]) + 1 /\ ~(scrape.call > Len(CallsTo[c]))
  BY DEF Asking, ScrapeInv, PlaceOK, ScrapeTypes, AskingRoutes
<1>2. Len(CallsTo[c]) \in Nat
  BY <1>1, ContractsPlaced, CallLists
<1>3. /\ cycle \in CycleTypes /\ cycle.since \in 0 .. Ledger /\ Ledger \in Nat \ {0}
  <2>1. cycle \in CycleTypes /\ cycle.since <= Ledger /\ Len(ledgers) > 0 /\ ledgers \in Seq(SUBSET RouteLabels)
    BY DEF ScrapeInv, ScrapeTypes, CycleTypes
  <2>2. Ledger \in Nat
    BY <2>1 DEF Ledger
  <2>3. cycle.since \in Nat
    BY <2>1 DEF CycleTypes
  <2> QED
    BY <2>1, <2>2, <2>3 DEF Ledger
<1>4. \A label \in cycle.listed : Fresh(label)
  BY <1>1 DEF ScrapeInv, ReadSoFar
<1> QED
  BY <1>1, <1>2, <1>3, <1>4

\* Which calls are which.
LEMMA CallNames ==
    ASSUME ScrapeInv, NEW c, NEW q, c # "none", Asking(c, q)
    PROVE  /\ q = "list" => /\ \/ c = "core" /\ scrape.call = 3
                               \/ c = "middleware" /\ scrape.call = 2
                            /\ scrape.call = Len(CallsTo[c])
           /\ c = "core" /\ q = "total_routed" => scrape.call = 1
           /\ c = "core" /\ q = "is_paused" => scrape.call = 2
           /\ c = "middleware" /\ q = "total_calls" => scrape.call = 1
           /\ c = "quote" /\ q = "quote_calculated" => scrape.call = 1
           /\ c = "quote" /\ q = "fee_estimated" => scrape.call = 2
<1>1. /\ c \in Configured /\ scrape.call \in 1 .. Len(CallsTo[c]) /\ CallsTo[c][scrape.call] = q
  BY WhatIsAsked
<1>2. PICK i \in Nat : i = scrape.call
  BY <1>1
<1>3. CASE c = "core"
  <2>1. i = 1 \/ i = 2 \/ i = 3
    BY <1>1, <1>2, <1>3, CallLists
  <2> QED
    BY <1>1, <1>2, <1>3, <2>1, CallLists
<1>4. CASE c = "middleware"
  <2>1. i = 1 \/ i = 2
    BY <1>1, <1>2, <1>4, CallLists
  <2> QED
    BY <1>1, <1>2, <1>4, <2>1, CallLists
<1>5. CASE c = "quote"
  <2>1. i = 1 \/ i = 2
    BY <1>1, <1>2, <1>5, CallLists
  <2> QED
    BY <1>1, <1>2, <1>5, <2>1, CallLists
<1>6. CASE c = "registry" \/ c = "execution"
  <2>1. i = 1
    BY <1>1, <1>2, <1>6, CallLists
  <2> QED
    BY <1>1, <1>2, <1>6, <2>1, CallLists
<1> QED
  BY <1>1, <1>3, <1>4, <1>5, <1>6, ContractsPlaced

\* An answer after which the same contract is asked on.
LEMMA AsksOn ==
    ASSUME ScrapeInv, GaugesGrow, NEW c \in {"core", "middleware"}, NEW q, Asking(c, q),
           NEW T \in SUBSET RouteLabels, T = {} \/ q = "list",
           scrape' = [scrape EXCEPT !.call = @ + 1, !.todo = T],
           up' = up, scrapeErrors' = scrapeErrors, cycle'.failed = cycle.failed,
           cycle'.listed \subseteq cycle.listed \cup T,
           q # "list" => (Fresh(<<c, q>>))'
    PROVE  ScrapeInv'
<1>1. /\ c \in Configured /\ scrape.contract = c /\ scrape.call \in 1 .. Len(CallsTo[c])
      /\ CallsTo[c][scrape.call] = q /\ scrape.todo = {} /\ c # "none" /\ c # "quote"
      /\ \A label \in cycle.listed : Fresh(label)
  BY WhatIsAsked
<1>2. /\ q = "list" => scrape.call = Len(CallsTo[c])
  BY <1>1, CallNames
<1>3. PICK n \in Nat : n = scrape.call
  BY <1>1
<1>4. PICK l \in Nat : l = Len(CallsTo[c])
  <2>1. Len(CallsTo["core"]) = 3 /\ Len(CallsTo["middleware"]) = 2
    BY CallLists
  <2> QED
    BY <2>1
<1>5. /\ scrape \in [contract : Configured \cup {"none"}, call : Nat, todo : SUBSET RouteLabels,
                     held : Seq(Nat)]
  BY DEF ScrapeInv, ScrapeTypes
<1>6. /\ scrape' \in [contract : Configured \cup {"none"}, call : Nat, todo : SUBSET RouteLabels,
                      held : Seq(Nat)]
      /\ scrape'.contract = c /\ scrape'.call = n + 1 /\ scrape'.todo = T
  <2>1. PICK m \in Nat : m = n + 1
    OBVIOUS
  <2>2. scrape' = [scrape EXCEPT !.call = m, !.todo = T]
    BY <1>3, <2>1
  <2> QED
    BY <1>1, <1>5, <2>1, <2>2
<1>7. n \in 1 .. l
  BY <1>1, <1>3, <1>4
<1>8. AskingRoutes' <=> n + 1 > l
  BY <1>1, <1>4, <1>6 DEF AskingRoutes, CallsTo
<1>9. PlaceOK'
  <2>1. n + 1 \in 1 .. l + 1
    BY <1>7
  <2>2. ~AskingRoutes' => T = {}
    BY <1>2, <1>3, <1>4, <1>8
  <2> QED
    BY <1>1, <1>4, <1>6, <2>1, <2>2 DEF PlaceOK, CallsTo
<1>10. ASSUME NEW i \in 1 .. scrape'.call - 1, CallsTo[c][i] # "list"
       PROVE  (Fresh(<<c, CallsTo[c][i]>>))'
  <2>1. i \in 1 .. n
    BY <1>6, <1>10
  <2>2. CASE i = n
    <3>1. CallsTo[c][i] = q /\ q # "list"
      BY <1>1, <1>3, <1>10, <2>2
    <3> QED
      BY <3>1 DEF Fresh
  <2>3. CASE i # n
    <3>1. i \in 1 .. scrape.call - 1
      BY <1>3, <2>1, <2>3
    <3>2. Fresh(<<c, CallsTo[c][i]>>)
      BY <1>1, <1>10, <3>1 DEF ScrapeInv, ReadSoFar
    <3>3. PICK label : label = <<c, CallsTo[c][i]>>
      OBVIOUS
    <3>4. Fresh(label)'
      BY <3>2, <3>3, FreshStays
    <3> QED
      BY <3>3, <3>4 DEF Fresh, CallsTo
  <2> QED
    BY <2>2, <2>3
<1>11. \A label \in cycle'.listed \ scrape'.todo : Fresh(label)'
  BY <1>1, <1>6, FreshStays
<1> QED
  BY <1>1, <1>6, <1>9, <1>10, <1>11, StaysOn

\* With the last total of a contract that was not quote, all of them are read.
LEMMA TotalsRead ==
    ASSUME ScrapeInv, GaugesGrow, NEW c \in {"core", "middleware"}, scrape.contract = c,
           AskingRoutes \/ Asking(c, "list")
    PROVE  \A label \in Totals(c) : Fresh(label)'
<1> SUFFICES ASSUME NEW label \in Totals(c) PROVE Fresh(label)'
  OBVIOUS
<1>1. PICK i \in DOMAIN CallsTo[c] : CallsTo[c][i] # "list" /\ label = <<c, CallsTo[c][i]>>
  BY DEF Totals
<1>2. i \in 1 .. scrape.call - 1
  <2>1. PICK l \in Nat : l = Len(CallsTo[c]) /\ DOMAIN CallsTo[c] = 1 .. l /\ CallsTo[c][l] = "list"
    <3>1. CASE c = "core"
      <4>1. Len(CallsTo[c]) = 3 /\ DOMAIN CallsTo[c] = 1 .. 3 /\ CallsTo[c][3] = "list"
        BY <3>1, CallLists
      <4> QED
        BY <4>1
    <3>2. CASE c = "middleware"
      <4>1. Len(CallsTo[c]) = 2 /\ DOMAIN CallsTo[c] = 1 .. 2 /\ CallsTo[c][2] = "list"
        BY <3>2, CallLists
      <4> QED
        BY <4>1
    <3> QED
      BY <3>1, <3>2
  <2>2. i \in 1 .. l - 1
    BY <1>1, <2>1
  <2>3. scrape.call \in Nat /\ scrape.call >= l
    <3>1. CASE AskingRoutes
      BY <2>1, <3>1 DEF AskingRoutes, ScrapeInv, ScrapeTypes
    <3>2. CASE Asking(c, "list")
      BY <2>1, <3>2, CallNames
    <3> QED
      BY <3>1, <3>2
  <2> QED
    BY <2>2, <2>3
<1>3. Fresh(label)
  BY <1>1, <1>2 DEF ScrapeInv, ReadSoFar
<1> QED
  BY <1>3, FreshStays

LEMMA NextRouteKeeps ==
    ASSUME ScrapeInv, GaugesGrow, AskingRoutes, NEW label \in scrape.todo, NextRoute(label),
           scrapeErrors' = scrapeErrors, cycle'.failed = cycle.failed,
           cycle'.listed = cycle.listed, Fresh(label)'
    PROVE  ScrapeInv'
<1>1. PICK c \in {"core", "middleware"} : c = scrape.contract
  BY DEF ScrapeInv, PlaceOK
<1>2. /\ scrape \in [contract : Configured \cup {"none"}, call : Nat, todo : SUBSET RouteLabels,
                     held : Seq(Nat)]
      /\ scrapeErrors \in [Configured -> Nat]
  BY DEF ScrapeInv, ScrapeTypes
<1>3. \A x \in cycle.listed \ (scrape.todo \ {label}) : Fresh(x)'
  BY FreshStays DEF ScrapeInv, ReadSoFar
<1>4. CASE scrape.todo = {label}
  <2>1. GoOn(cycle'.failed)
    BY <1>4 DEF NextRoute
  <2>2. \A x \in Totals(c) : Fresh(x)'
    BY <1>1, TotalsRead
  <2> QED
    BY <1>1, <1>2, <1>3, <1>4, <2>1, <2>2, MovesOn
<1>5. CASE scrape.todo # {label}
  <2>1. scrape' = [scrape EXCEPT !.todo = @ \ {label}] /\ up' = up
    BY <1>5 DEF NextRoute
  <2>2. /\ scrape' \in [contract : Configured \cup {"none"}, call : Nat, todo : SUBSET RouteLabels,
                        held : Seq(Nat)]
        /\ scrape'.contract = c /\ scrape'.call = scrape.call /\ scrape'.todo = scrape.todo \ {label}
    BY <1>1, <1>2, <2>1
  <2>3. AskingRoutes'
    BY <1>1, <2>2 DEF AskingRoutes, CallsTo
  <2>4. PlaceOK'
    BY <1>1, <2>2, <2>3 DEF ScrapeInv, PlaceOK, CallsTo
  <2>5. ASSUME NEW i \in 1 .. scrape'.call - 1, CallsTo[c][i] # "list"
        PROVE  (Fresh(<<c, CallsTo[c][i]>>))'
    <3>1. PICK x : x = <<c, CallsTo[c][i]>>
      OBVIOUS
    <3>2. Fresh(x)
      BY <1>1, <2>2, <2>5, <3>1 DEF ScrapeInv, ReadSoFar
    <3>3. Fresh(x)'
      BY <3>2, FreshStays
    <3> QED
      BY <3>1, <3>3 DEF Fresh, CallsTo
  <2> QED
    BY <1>1, <1>3, <2>1, <2>2, <2>4, <2>5, StaysOn
<1> QED
  BY <1>4, <1>5

\* What a step leaves as it is.
LEMMA ScrapeState ==
    ASSUME ScrapeInv
    PROVE  /\ scrape \in [contract : Configured \cup {"none"}, call : Nat, todo : SUBSET RouteLabels,
                          held : Seq(Nat)]
           /\ cycle \in CycleTypes /\ scrapeErrors \in [Configured -> Nat]
           /\ ledgers \in Seq(SUBSET RouteLabels) /\ Ledger \in Nat \ {0}
           /\ cycle.since \in 0 .. Ledger
<1>1. /\ cycle \in CycleTypes /\ cycle.since <= Ledger /\ Len(ledgers) > 0
      /\ ledgers \in Seq(SUBSET RouteLabels) /\ scrapeErrors \in [Configured -> Nat]
      /\ scrape \in [contract : Configured \cup {"none"}, call : Nat, todo : SUBSET RouteLabels,
                     held : Seq(Nat)]
  BY DEF ScrapeInv, ScrapeTypes, CycleTypes
<1>2. Ledger \in Nat \ {0}
  BY <1>1 DEF Ledger
<1>3. cycle.since \in Nat
  BY <1>1 DEF CycleTypes
<1> QED
  BY <1>1, <1>2, <1>3

LEMMA TotalReadKeeps ==
    ASSUME ScrapeInv, TotalRead
    PROVE  ScrapeInv'
<1>1. PICK c \in {"core", "middleware"}, q \in {"total_routed", "is_paused", "total_calls"} : Asking(c, q)
  BY DEF TotalRead
<1>2. /\ scrape.contract = c /\ CallsTo[c][scrape.call] = q /\ scrape.todo = {}
      /\ c # "none" /\ c \in Configured
  BY <1>1, WhatIsAsked
<1>3. PICK label : label = <<c, q>>
  OBVIOUS
<1>4. Show(label, Ledger)
  BY <1>2, <1>3 DEF TotalRead
<1>5. label \in Labels
  BY <1>2, <1>3, LabelOf DEF TotalCalls
<1>6. label # Quoted /\ label # Estimated
  <2>1. label[1] = c /\ Quoted[1] = "quote" /\ Estimated[1] = "quote"
    BY <1>3 DEF Quoted, Estimated
  <2> QED
    BY <2>1
<1>7. UNCHANGED <<ledgers, scrapeErrors, up>> /\ Ledger \in Readings
  BY DEF TotalRead, Readings
<1>8. /\ GaugesGrow /\ Fresh(label)'
      /\ cycle'.failed = cycle.failed /\ cycle'.listed = cycle.listed
  BY <1>4, <1>5, <1>6, <1>7, GaugeSet
<1>9. scrape' = [scrape EXCEPT !.call = @ + 1, !.todo = {}]
  BY <1>2, ScrapeState DEF TotalRead
<1>10. (Fresh(<<c, q>>))'
  BY <1>3, <1>8 DEF Fresh
<1>11. {} \in SUBSET RouteLabels
  OBVIOUS
<1> QED
  BY <1>1, <1>7, <1>8, <1>9, <1>10, <1>11, AsksOn

LEMMA PausedUnknownKeeps ==
    ASSUME ScrapeInv, PausedUnknown
    PROVE  ScrapeInv'
<1>1. Asking("core", "is_paused") /\ scrape.todo = {} /\ "core" \in Configured
  BY WhatIsAsked DEF PausedUnknown
<1>2. Show(Paused, 0) /\ UNCHANGED <<ledgers, scrapeErrors, up>> /\ 0 \in Readings
  BY DEF PausedUnknown, Paused, Readings
<1>3. Paused \in Labels
  BY <1>1, LabelOf DEF Paused, TotalCalls
<1>4. Paused # Quoted /\ Paused # Estimated
  <2>1. Paused[1] = "core" /\ Quoted[1] = "quote" /\ Estimated[1] = "quote"
    BY DEF Paused, Quoted, Estimated
  <2> QED
    BY <2>1
<1>5. /\ GaugesGrow /\ Fresh(Paused)'
      /\ cycle'.failed = cycle.failed /\ cycle'.listed = cycle.listed
  BY <1>2, <1>3, <1>4, GaugeSet
<1>6. scrape' = [scrape EXCEPT !.call = @ + 1, !.todo = {}]
  BY <1>1, ScrapeState DEF PausedUnknown
<1>7. (Fresh(<<"core", "is_paused">>))'
  BY <1>5 DEF Fresh, Paused
<1>8. {} \in SUBSET RouteLabels /\ cycle'.listed \subseteq cycle.listed \cup {}
  BY <1>5
<1> QED
  BY <1>1, <1>2, <1>5, <1>6, <1>7, <1>8, AsksOn

LEMMA RoutesListedKeeps ==
    ASSUME ScrapeInv, RoutesListed
    PROVE  ScrapeInv'
<1>1. PICK c : c = scrape.contract /\ c # "none" /\ Asking(c, "list")
  BY DEF RoutesListed
<1>2. c \in {"core", "middleware"} /\ scrape.todo = {} /\ \A label \in cycle.listed : Fresh(label)
  BY <1>1, WhatIsAsked, CallNames
<1>3. PICK labels \in {{label \in RoutesNow : label[1] = scrape.contract}, {}} :
         /\ cycle' = [cycle EXCEPT !.listed = @ \cup labels]
         /\ IF labels = {} THEN GoOn(cycle.failed)
            ELSE scrape' = [scrape EXCEPT !.call = @ + 1, !.todo = labels] /\ up' = up
  BY DEF RoutesListed
<1>4. labels \in SUBSET RouteLabels
  BY <1>3, ScrapeState DEF RoutesNow, Ledger
<1>5. /\ cycle' = [cycle EXCEPT !.listed = @ \cup labels] /\ UNCHANGED <<ledgers, gauges, scrapeErrors>>
      /\ IF labels = {} THEN GoOn(cycle.failed)
         ELSE scrape' = [scrape EXCEPT !.call = @ + 1, !.todo = labels] /\ up' = up
  BY <1>3 DEF RoutesListed
<1>6. /\ cycle' \in CycleTypes /\ cycle'.number = cycle.number /\ cycle'.since = cycle.since
      /\ cycle'.failed = cycle.failed /\ cycle'.listed = cycle.listed \cup labels
      /\ cycle'.missed = cycle.missed /\ cycle'.blank = cycle.blank
  BY <1>4, <1>5, ScrapeState DEF CycleTypes
<1>7. GaugesGrow
  BY <1>5, <1>6, GaugesStay
<1>8. CASE labels = {}
  <2>1. GoOn(cycle'.failed) /\ cycle'.listed = cycle.listed
    BY <1>5, <1>6, <1>8
  <2>2. \A label \in Totals(c) : Fresh(label)'
    BY <1>1, <1>2, <1>7, TotalsRead
  <2>3. \A label \in cycle'.listed : Fresh(label)'
    BY <1>2, <1>7, <2>1, FreshStays
  <2> QED
    BY <1>1, <1>5, <1>6, <1>7, <2>1, <2>2, <2>3, ScrapeState, MovesOn
<1>9. CASE labels # {}
  BY <1>1, <1>2, <1>4, <1>5, <1>6, <1>7, <1>9, AsksOn
<1> QED
  BY <1>8, <1>9

LEMMA RouteReadKeeps ==
    ASSUME ScrapeInv, NEW label \in scrape.todo, RouteRead(label)
    PROVE  ScrapeInv'
<1>1. PICK value \in Readings : Show(label, value)
  BY DEF RouteRead
<1>2. UNCHANGED <<ledgers, scrapeErrors>> /\ AskingRoutes /\ NextRoute(label)
  BY DEF RouteRead
<1>3. label \in RouteLabels /\ label \in Labels
  BY ScrapeState DEF Labels
<1>4. label # Quoted /\ label # Estimated
  BY <1>3, LabelsApart DEF Quoted, Estimated
<1>5. /\ GaugesGrow /\ Fresh(label)'
      /\ cycle'.failed = cycle.failed /\ cycle'.listed = cycle.listed
  BY <1>1, <1>2, <1>3, <1>4, GaugeSet
<1> QED
  BY <1>2, <1>5, NextRouteKeeps

LEMMA RouteMissedKeeps ==
    ASSUME ScrapeInv, NEW label \in scrape.todo, RouteMissed(label)
    PROVE  ScrapeInv'
<1>1. /\ cycle' = [cycle EXCEPT !.missed = @ \cup {label}]
      /\ UNCHANGED <<ledgers, gauges, scrapeErrors>> /\ AskingRoutes /\ NextRoute(label)
  BY DEF RouteMissed
<1>2. label \in RouteLabels
  BY ScrapeState
<1>3. /\ cycle' \in CycleTypes /\ cycle'.number = cycle.number /\ cycle'.since = cycle.since
      /\ cycle'.failed = cycle.failed /\ cycle'.listed = cycle.listed
      /\ cycle'.missed = cycle.missed \cup {label} /\ cycle'.blank = cycle.blank
  BY <1>1, <1>2, ScrapeState DEF CycleTypes
<1>4. GaugesGrow
  BY <1>1, <1>3, GaugesStay
<1>5. Fresh(label)'
  BY <1>3 DEF Fresh
<1> QED
  BY <1>1, <1>3, <1>4, <1>5, NextRouteKeeps

LEMMA OnlyCallReadKeeps ==
    ASSUME ScrapeInv, OnlyCallRead
    PROVE  ScrapeInv'
<1>0. PICK c \in {"registry", "execution"} : Asking(c, CallsTo[c][1])
  <2>1. CallsTo["registry"][1] = "get_all_names" /\ CallsTo["execution"][1] = "entries"
    BY CallLists
  <2> QED
    BY <2>1 DEF OnlyCallRead
<1>1. PICK q : Asking(c, q) /\ q = CallsTo[c][1]
  BY <1>0
<1>2. scrape.contract = c /\ c # "none" /\ \A label \in cycle.listed : Fresh(label)
  BY <1>1, WhatIsAsked
<1>3. PICK label : label = <<c, q>>
  OBVIOUS
<1>4. PICK value \in Readings : Show(label, value)
  BY <1>1, <1>2, <1>3 DEF OnlyCallRead
<1>5. label \in Labels
  <2>1. c \in Configured
    BY <1>1, <1>2, WhatIsAsked
  <2>2. q = "get_all_names" \/ q = "entries"
    BY <1>1, CallLists
  <2>3. q \in TotalCalls
    BY <2>2 DEF TotalCalls
  <2> QED
    BY <1>3, <2>1, <2>3, LabelOf
<1>6. label # Quoted /\ label # Estimated
  <2>1. label[1] = c /\ Quoted[1] = "quote" /\ Estimated[1] = "quote"
    BY <1>3 DEF Quoted, Estimated
  <2> QED
    BY <2>1
<1>7. UNCHANGED <<ledgers, scrapeErrors>> /\ GoOn(cycle.failed)
  BY DEF OnlyCallRead
<1>8. /\ GaugesGrow /\ Fresh(label)'
      /\ cycle'.failed = cycle.failed /\ cycle'.listed = cycle.listed
  BY <1>4, <1>5, <1>6, <1>7, GaugeSet
<1>9. \A x \in Totals(c) : x = label
  <2>1. \A i \in DOMAIN CallsTo[c] : i = 1
    <3>1. DOMAIN CallsTo["registry"] = {1} /\ DOMAIN CallsTo["execution"] = {1}
      BY CallLists
    <3> QED
      BY <3>1
  <2> QED
    BY <1>1, <1>3, <2>1 DEF Totals
<1>10. \A x \in cycle'.listed : Fresh(x)'
  BY <1>2, <1>8, FreshStays
<1> QED
  BY <1>2, <1>7, <1>8, <1>9, <1>10, ScrapeState, MovesOn

LEMMA QuotesCountedKeeps ==
    ASSUME ScrapeInv, QuotesCounted
    PROVE  ScrapeInv'
<1>1. /\ scrape.contract = "quote" /\ scrape.todo = {} /\ scrape.call = 1
      /\ \A label \in cycle.listed : Fresh(label)
  BY WhatIsAsked, CallNames DEF QuotesCounted
<1>0. PICK value \in Readings : scrape' = [scrape EXCEPT !.call = @ + 1, !.held = <<value>>]
  BY DEF QuotesCounted
<1>2. /\ scrape' = [scrape EXCEPT !.call = @ + 1, !.held = <<value>>]
      /\ UNCHANGED <<ledgers, gauges, scrapeErrors, up, cycle>>
  BY <1>0 DEF QuotesCounted
<1>3. PICK h \in Seq(Nat) : h = <<value>> /\ Len(h) = 1 /\ h[1] = value
  <2>1. PICK l \in Nat : l = value
    BY ScrapeState DEF Readings
  <2>2. PICK h : h = <<l>>
    OBVIOUS
  <2>3. h \in Seq(Nat) /\ Len(h) = 1 /\ h[1] = l
    BY <2>2
  <2> QED
    BY <2>1, <2>2, <2>3
<1>4. scrape' = [scrape EXCEPT !.call = 2, !.held = h]
  BY <1>1, <1>2, <1>3
<1>5. /\ scrape' \in [contract : Configured \cup {"none"}, call : Nat, todo : SUBSET RouteLabels,
                      held : Seq(Nat)]
      /\ scrape'.contract = "quote" /\ scrape'.call = 2 /\ scrape'.todo = {} /\ scrape'.held = h
  BY <1>1, <1>4, ScrapeState
<1>6. Len(CallsTo["quote"]) = 2
  BY CallLists
<1>7. PlaceOK'
  <2>1. ~AskingRoutes'
    BY <1>5, <1>6 DEF AskingRoutes, CallsTo
  <2>2. Ledger' = Ledger /\ cycle' = cycle
    BY <1>2 DEF Ledger
  <2>3. h[1] \in {0} \cup (cycle.since .. Ledger)
    BY <1>3, ScrapeState DEF Readings
  <2> QED
    BY <1>3, <1>5, <1>6, <2>1, <2>2, <2>3 DEF PlaceOK, CallsTo
<1>8. GaugesGrow
  BY <1>2, ScrapeState, GaugesStay
<1>9. \A x \in cycle'.listed \ scrape'.todo : Fresh(x)'
  BY <1>1, <1>2, <1>8, FreshStays
<1> QED
  BY <1>1, <1>2, <1>5, <1>7, <1>8, <1>9, StaysOn

LEMMA FeesCountedKeeps ==
    ASSUME ScrapeInv, FeesCounted
    PROVE  ScrapeInv'
<1>1. /\ scrape.contract = "quote" /\ scrape.todo = {} /\ scrape.call = 2
      /\ \A label \in cycle.listed : Fresh(label)
  BY WhatIsAsked, CallNames DEF FeesCounted
<1>2. Quoted \in Totals("quote") /\ Estimated \in Totals("quote")
  <2>1. 1 \in DOMAIN CallsTo["quote"] /\ 2 \in DOMAIN CallsTo["quote"]
    BY CallLists
  <2> QED
    BY <2>1, CallLists DEF Totals, Quoted, Estimated
<1>3. \A x \in Totals("quote") : x = Quoted \/ x = Estimated
  <2>1. \A i \in DOMAIN CallsTo["quote"] : i = 1 \/ i = 2
    BY CallLists
  <2>2. CallsTo["quote"][1] = "quote_calculated" /\ CallsTo["quote"][2] = "fee_estimated"
    BY CallLists
  <2> QED
    BY <2>1, <2>2 DEF Totals, Quoted, Estimated
<1>4. PICK h : h = scrape.held[1] /\ h \in {0} \cup (cycle.since .. Ledger)
  BY <1>1 DEF ScrapeInv, PlaceOK
<1>5. PICK value \in Readings :
         /\ gauges' = Put(Put(gauges, Quoted, h), Estimated, value)
         /\ cycle' = [cycle EXCEPT !.blank = @ \cup {x \in Totals("quote") : gauges'[x] = 0}]
  BY <1>4 DEF FeesCounted, Quoted, Estimated
<1>6. UNCHANGED <<ledgers, scrapeErrors>> /\ GoOn(cycle.failed)
  BY DEF FeesCounted
<1>7. PICK B \in SUBSET Labels : B = cycle.blank \cup {x \in Totals("quote") : gauges'[x] = 0}
  <2>1. Quoted \in Labels /\ Estimated \in Labels
    <3>1. "quote" \in Configured
      BY WhatIsAsked DEF FeesCounted
    <3> QED
      BY <3>1, LabelOf DEF Quoted, Estimated, TotalCalls
  <2>2. cycle.blank \subseteq Labels
    BY ScrapeState DEF CycleTypes
  <2> QED
    BY <1>3, <2>1, <2>2
<1>8. /\ cycle' \in CycleTypes /\ cycle'.number = cycle.number /\ cycle'.since = cycle.since
      /\ cycle'.failed = cycle.failed /\ cycle'.listed = cycle.listed
      /\ cycle'.missed = cycle.missed /\ cycle'.blank = B
  <2>1. cycle' = [cycle EXCEPT !.blank = B]
    BY <1>5, <1>7
  <2> QED
    BY <2>1, ScrapeState DEF CycleTypes
<1>9. Quoted # Estimated
  <2>1. Quoted[2] # Estimated[2]
    BY DEF Quoted, Estimated
  <2> QED
    BY <2>1
<1>10. /\ DOMAIN gauges' = DOMAIN gauges \cup {Quoted, Estimated}
       /\ gauges'[Quoted] = h /\ gauges'[Estimated] = value
       /\ \A x \in DOMAIN gauges : x # Quoted /\ x # Estimated => gauges'[x] = gauges[x]
  BY <1>5, <1>9 DEF Put
<1>11. /\ cycle.since \in Nat /\ Ledger \in Nat
       /\ h \in 0 .. Ledger /\ (h = 0 \/ h >= cycle.since)
       /\ value \in 0 .. Ledger /\ (value = 0 \/ value >= cycle.since)
       /\ value = 0 \/ h <= value
  BY <1>4, ScrapeState DEF Readings
<1>12. Fresh(Quoted)' /\ Fresh(Estimated)'
  BY <1>2, <1>7, <1>8, <1>10, <1>11 DEF Fresh, Quoted, Estimated
<1>13. GaugesGrow
  <2>1. \A x \in DOMAIN gauges' : gauges'[x] \in 0 .. Ledger
    <3>1. \A x \in DOMAIN gauges : gauges[x] \in 0 .. Ledger
      BY DEF ScrapeInv, ScrapeTypes
    <3> QED
      BY <1>10, <1>11, <3>1
  <2>2. QuotesOrdered'
    BY <1>10, <1>11 DEF QuotesOrdered, Quoted, Estimated
  <2>3. \A x \in DOMAIN gauges : x \in DOMAIN gauges' /\ (gauges'[x] # gauges[x] => Fresh(x)')
    BY <1>10, <1>12 DEF Fresh, Quoted, Estimated
  <2>4. cycle.blank \subseteq B
    BY <1>7
  <2> QED
    BY <1>6, <1>8, <2>1, <2>2, <2>3, <2>4 DEF GaugesGrow
<1>14. \A x \in Totals("quote") : Fresh(x)'
  BY <1>3, <1>12 DEF Fresh, Quoted, Estimated
<1>15. \A x \in cycle'.listed : Fresh(x)'
  BY <1>1, <1>8, <1>13, FreshStays
<1> QED
  BY <1>1, <1>6, <1>8, <1>13, <1>14, <1>15, ScrapeState, MovesOn

LEMMA ScrapeFailsKeeps ==
    ASSUME ScrapeInv, ScrapeFails
    PROVE  ScrapeInv'
<1>1. PICK c \in Configured : c = scrape.contract /\ c # "none"
  BY ScrapeState DEF ScrapeFails
<1>2. \A label \in cycle.listed : Fresh(label)
  BY DEF ScrapeFails, ScrapeInv, PlaceOK, ReadSoFar
<1>3. /\ scrapeErrors' = [scrapeErrors EXCEPT ![c] = @ + 1]
      /\ cycle' = [cycle EXCEPT !.failed = @ \cup {c}]
      /\ GoOn(cycle'.failed) /\ UNCHANGED <<ledgers, gauges>>
  BY <1>1 DEF ScrapeFails
<1>4. /\ cycle' \in CycleTypes /\ cycle'.number = cycle.number /\ cycle'.since = cycle.since
      /\ cycle'.failed = cycle.failed \cup {c} /\ cycle'.listed = cycle.listed
      /\ cycle'.missed = cycle.missed /\ cycle'.blank = cycle.blank
  BY <1>1, <1>3, ScrapeState DEF CycleTypes
<1>5. /\ scrapeErrors' \in [Configured -> Nat] /\ scrapeErrors'[c] = scrapeErrors[c] + 1
      /\ \A e \in Configured : e # c => scrapeErrors'[e] = scrapeErrors[e]
  BY <1>3, ScrapeState
<1>6. scrapeErrors' # scrapeErrors
  <2>1. scrapeErrors[c] \in Nat
    BY ScrapeState
  <2> QED
    BY <1>5, <2>1
<1>7. GaugesGrow
  BY <1>3, <1>4, GaugesStay
<1>8. \A x \in cycle'.listed : Fresh(x)'
  BY <1>2, <1>4, <1>7, FreshStays
<1> QED
  BY <1>1, <1>3, <1>4, <1>5, <1>6, <1>7, <1>8, MovesOn

LEMMA BeginKeeps ==
    ASSUME ScrapeInv, Begin
    PROVE  ScrapeInv'
<1>1. /\ scrape = Asleep /\ scrape.contract = "none" /\ GoOn({}) /\ UNCHANGED <<ledgers, gauges, scrapeErrors>>
  BY DEF Begin, Asleep
<1>2. PICK n \in Nat : n = cycle.number
  BY ScrapeState DEF CycleTypes
<1>3. PICK l \in Nat \ {0} : l = Ledger
  BY ScrapeState
<1>4. cycle' = [number |-> n + 1, since |-> l,
                failed |-> {}, listed |-> {}, missed |-> {}, blank |-> {}]
  BY <1>2, <1>3 DEF Begin
<1>5. /\ cycle'.number = n + 1 /\ cycle'.since = l /\ cycle'.failed = {} /\ cycle'.listed = {}
      /\ cycle' \in CycleTypes
  BY <1>4 DEF CycleTypes
<1>6. /\ scrape' \in [contract : Configured \cup {"none"}, call : Nat, todo : SUBSET RouteLabels,
                      held : Seq(Nat)]
      /\ scrape'.todo = {}
      /\ \/ scrape' = Asleep /\ up' = ({} = {})
         \/ scrape'.contract # "none" /\ scrape'.call = 1 /\ up' = up
      /\ \A e \in Configured :
            ~(scrape'.contract = "none" \/ Place(e) < Place(scrape'.contract))
  <2>1. ScrapeTypes
    BY DEF ScrapeInv
  <2> QED
    BY <1>1, <2>1, GoesOn
<1>7. scrape' = Asleep => scrape'.contract = "none"
  BY DEF Asleep
<1>8. Passed' = {}
  BY <1>5, <1>6 DEF Passed, Place
<1>9. ScrapeTypes'
  <2>1. up' \in BOOLEAN
    BY <1>6 DEF ScrapeInv, ScrapeTypes
  <2> QED
    BY <1>1, <1>3, <1>5, <1>6, <2>1 DEF ScrapeInv, ScrapeTypes, CycleTypes, Ledger
<1>10. PlaceOK'
  <2>1. scrape'.contract # "none" =>
           /\ scrape'.call = 1 /\ 1 \in 1 .. Len(CallsTo[scrape'.contract]) + 1
           /\ ~(1 > Len(CallsTo[scrape'.contract]))
    <3> SUFFICES ASSUME scrape'.contract # "none"
                 PROVE  /\ 1 \in 1 .. Len(CallsTo[scrape'.contract]) + 1
                        /\ ~(1 > Len(CallsTo[scrape'.contract]))
      BY <1>6, <1>7
    <3>1. scrape'.contract \in {"core", "middleware", "registry", "quote", "execution"}
      BY <1>6, ContractsPlaced
    <3> QED
      BY <3>1, CallLists
  <2>2. scrape'.contract = "none" => scrape' = Asleep
    BY <1>6
  <2>3. ~AskingRoutes'
    BY <2>1 DEF AskingRoutes, CallsTo
  <2>4. scrape'.contract # "none" => ~(scrape'.call > 1)
    BY <2>1
  <2>5. ~(scrape'.contract = "quote" /\ scrape'.call > 1)
    BY <2>4
  <2> QED
    BY <1>6, <2>1, <2>2, <2>3, <2>5 DEF PlaceOK, CallsTo
<1>11. ReadSoFar'
  <2>1. scrape'.contract # "none" => scrape'.call - 1 = 0
    BY <1>6, <1>7
  <2> QED
    BY <1>5, <1>8, <2>1 DEF ReadSoFar
<1>12. ErrorsOK'
  <2> SUFFICES ASSUME NEW c \in Configured
               PROVE  scrapeErrors[c] < n + 1
    BY <1>1, <1>2, <1>5, ScrapeState DEF ErrorsOK
  <2>1. scrapeErrors[c] \in Nat /\ scrapeErrors[c] <= n
    BY <1>2, ScrapeState DEF ScrapeInv, ErrorsOK
  <2> QED
    BY <2>1
<1>13. QuotesOrdered'
  BY <1>1 DEF ScrapeInv, QuotesOrdered
<1>14. UpWhenClean'
  BY <1>5, <1>6, <1>7 DEF UpWhenClean
<1> QED
  BY <1>9, <1>10, <1>11, <1>12, <1>13, <1>14 DEF ScrapeInv

LEMMA LedgerClosesKeeps ==
    ASSUME ScrapeInv, LedgerCloses
    PROVE  ScrapeInv'
<1>1. PICK R \in SUBSET RouteLabels : ledgers' = Append(ledgers, R)
  BY DEF LedgerCloses
<1>2. UNCHANGED <<scrape, gauges, scrapeErrors, up, cycle>>
  BY DEF LedgerCloses
<1>3. PICK l \in Nat \ {0} : l = Ledger
  BY ScrapeState
<1>4. PICK old \in Seq(SUBSET RouteLabels) : old = ledgers /\ Len(old) = l
  BY <1>3, ScrapeState DEF Ledger
<1>5. PICK new : new = Append(old, R)
  OBVIOUS
<1>6. new \in Seq(SUBSET RouteLabels) /\ Len(new) = l + 1 /\ \A i \in 1 .. l : new[i] = old[i]
  BY <1>4, <1>5
<1>7. ledgers' = new /\ Ledger' = l + 1
  BY <1>1, <1>4, <1>5, <1>6 DEF Ledger
<1>8. /\ scrape \in [contract : Configured \cup {"none"}, call : Nat, todo : SUBSET RouteLabels,
                     held : Seq(Nat)]
      /\ cycle \in CycleTypes /\ scrapeErrors \in [Configured -> Nat]
      /\ cycle.since \in 0 .. l
      /\ \A label \in DOMAIN gauges : gauges[label] \in 0 .. l
  BY <1>3, ScrapeState DEF ScrapeInv, ScrapeTypes
<1>9. ScrapeTypes'
  <2>1. cycle.since <= l + 1 /\ \A label \in DOMAIN gauges : gauges[label] \in 0 .. l + 1
    BY <1>8
  <2> QED
    BY <1>2, <1>6, <1>7, <1>8, <2>1 DEF ScrapeInv, ScrapeTypes, CycleTypes
<1>10. PlaceOK'
  <2>1. scrape.contract = "quote" /\ scrape.call > 1 =>
           Len(scrape.held) = 1 /\ scrape.held[1] \in {0} \cup (cycle.since .. l + 1)
    <3> SUFFICES ASSUME scrape.contract = "quote", scrape.call > 1
                 PROVE  Len(scrape.held) = 1 /\ scrape.held[1] \in {0} \cup (cycle.since .. l + 1)
      OBVIOUS
    <3>1. Len(scrape.held) = 1 /\ scrape.held[1] \in {0} \cup (cycle.since .. l)
      BY <1>3 DEF ScrapeInv, PlaceOK
    <3> QED
      BY <1>8, <3>1
  <2>2. AskingRoutes' = AskingRoutes
    BY <1>2 DEF AskingRoutes, CallsTo
  <2> QED
    BY <1>2, <1>7, <2>1, <2>2 DEF ScrapeInv, PlaceOK, CallsTo
<1>11. ReadSoFar'
  <2>1. Passed' = Passed
    BY <1>2 DEF Passed, Place
  <2>2. \A x : Fresh(x)' <=> Fresh(x)
    BY <1>2 DEF Fresh
  <2>3. \A c : Totals(c)' = Totals(c)
    BY DEF Totals, CallsTo
  <2> QED
    BY <1>2, <2>1, <2>2, <2>3 DEF ScrapeInv, ReadSoFar, CallsTo
<1>12. ErrorsOK' /\ QuotesOrdered' /\ UpWhenClean'
  BY <1>2 DEF ScrapeInv, ErrorsOK, Passed, Place, QuotesOrdered, UpWhenClean, Asleep
<1> QED
  BY <1>9, <1>10, <1>11, <1>12 DEF ScrapeInv

LEMMA ScrapeStarts == ScrapeInit => ScrapeInv
<1> SUFFICES ASSUME ScrapeInit PROVE ScrapeInv
  OBVIOUS
<1>1. PICK R \in SUBSET RouteLabels : ledgers = <<R>>
  BY DEF ScrapeInit
<1>2. PICK s : s = <<R>>
  OBVIOUS
<1>3. s \in Seq(SUBSET RouteLabels) /\ Len(s) = 1
  BY <1>2
<1>4. ledgers \in Seq(SUBSET RouteLabels) /\ Len(ledgers) = 1 /\ Ledger = 1
  BY <1>1, <1>2, <1>3 DEF Ledger
<1>5. << >> \in Seq(Nat)
  OBVIOUS
<1>6. /\ scrape.contract = "none" /\ scrape.todo = {} /\ scrape = Asleep
      /\ scrape \in [contract : Configured \cup {"none"}, call : Nat, todo : SUBSET RouteLabels,
                     held : Seq(Nat)]
  BY <1>5 DEF ScrapeInit, Asleep
<1>7. /\ cycle.number = 0 /\ cycle.since = 0 /\ cycle.failed = {} /\ cycle.listed = {}
      /\ cycle \in CycleTypes
  BY DEF ScrapeInit, CycleTypes
<1>8. DOMAIN gauges = {}
  BY DEF ScrapeInit
<1>9. ScrapeTypes
  <2>1. scrapeErrors \in [Configured -> Nat] /\ up \in BOOLEAN
    BY DEF ScrapeInit
  <2>2. cycle.since <= Ledger /\ Len(ledgers) > 0
    BY <1>4, <1>7
  <2> QED
    BY <1>4, <1>6, <1>7, <1>8, <2>1, <2>2 DEF ScrapeTypes, CycleTypes
<1>10. PlaceOK
  BY <1>6 DEF PlaceOK, AskingRoutes
<1>11. Passed = {}
  BY <1>6, <1>7 DEF Passed
<1>12. ReadSoFar
  BY <1>6, <1>7, <1>11 DEF ReadSoFar
<1>13. ErrorsOK
  BY <1>6, <1>7 DEF ErrorsOK, ScrapeInit
<1>14. QuotesOrdered /\ UpWhenClean
  BY <1>7, <1>8 DEF QuotesOrdered, UpWhenClean
<1> QED
  BY <1>9, <1>10, <1>12, <1>13, <1>14 DEF ScrapeInv

LEMMA ScrapeKeeps == ScrapeInv /\ [ScrapeNext]_scrapeVars => ScrapeInv'
<1> SUFFICES ASSUME ScrapeInv, [ScrapeNext]_scrapeVars
             PROVE  ScrapeInv'
  OBVIOUS
<1>1. CASE Begin \/ LedgerCloses \/ ScrapeFails
  BY <1>1, BeginKeeps, LedgerClosesKeeps, ScrapeFailsKeeps
<1>2. CASE TotalRead \/ PausedUnknown \/ RoutesListed
  BY <1>2, TotalReadKeeps, PausedUnknownKeeps, RoutesListedKeeps
<1>3. CASE \E label \in scrape.todo : RouteRead(label) \/ RouteMissed(label)
  BY <1>3, RouteReadKeeps, RouteMissedKeeps
<1>4. CASE OnlyCallRead \/ QuotesCounted \/ FeesCounted
  BY <1>4, OnlyCallReadKeeps, QuotesCountedKeeps, FeesCountedKeeps
<1>5. CASE UNCHANGED scrapeVars
  <2>1. /\ ledgers' = ledgers /\ scrape' = scrape /\ gauges' = gauges
        /\ scrapeErrors' = scrapeErrors /\ up' = up /\ cycle' = cycle
    BY <1>5 DEF scrapeVars
  <2>2. Passed' = Passed /\ AskingRoutes' = AskingRoutes /\ Ledger' = Ledger
    BY <2>1 DEF Passed, AskingRoutes, Ledger, CallsTo
  <2>3. \A label : Fresh(label)' <=> Fresh(label)
    BY <2>1 DEF Fresh
  <2>4. ScrapeTypes' /\ PlaceOK'
    BY <2>1, <2>2 DEF ScrapeInv, ScrapeTypes, PlaceOK, Asleep
  <2>5. ReadSoFar'
    BY <2>1, <2>2, <2>3 DEF ScrapeInv, ReadSoFar
  <2>6. ErrorsOK' /\ QuotesOrdered' /\ UpWhenClean'
    BY <2>1, <2>2 DEF ScrapeInv, ErrorsOK, QuotesOrdered, UpWhenClean, Asleep
  <2> QED
    BY <2>4, <2>5, <2>6 DEF ScrapeInv
<1> QED
  BY <1>1, <1>2, <1>3, <1>4, <1>5 DEF ScrapeNext

LEMMA HonestGauges == ScrapeInv => GaugesHonest
<1> SUFFICES ASSUME ScrapeInv PROVE GaugesHonest
  OBVIOUS
<1>1. ASSUME scrape = Asleep, cycle.number > 0
      PROVE  /\ Ready <=> cycle.failed = {}
             /\ Ready => \A label \in (cycle.listed \cup UNION {Totals(c) : c \in Configured}) \ cycle.missed :
                   /\ label \in DOMAIN gauges
                   /\ gauges[label] >= cycle.since \/ (gauges[label] = 0 /\ label \in cycle.blank)
  <2>1. Ready <=> cycle.failed = {}
    BY <1>1 DEF ScrapeInv, UpWhenClean, Ready
  <2>2. scrape.contract = "none" /\ scrape.todo = {}
    BY <1>1 DEF Asleep
  <2>3. Passed = Configured
    BY <1>1, <2>2 DEF Passed
  <2>4. \A label \in cycle.listed : Fresh(label)
    BY <2>2 DEF ScrapeInv, ReadSoFar
  <2>5. cycle.failed = {} => \A c \in Configured : \A label \in Totals(c) : Fresh(label)
    BY <2>3 DEF ScrapeInv, ReadSoFar
  <2> QED
    BY <2>1, <2>4, <2>5 DEF Fresh
<1>2. \A c \in Configured : /\ scrapeErrors[c] <= cycle.number
                            /\ c \in cycle.failed => scrapeErrors[c] > 0
  BY DEF ScrapeInv, ErrorsOK
<1>3. Estimated \in DOMAIN gauges =>
         gauges[Estimated] = 0 \/ gauges[Quoted] <= gauges[Estimated]
  BY DEF ScrapeInv, QuotesOrdered
<1> QED
  BY <1>1, <1>2, <1>3 DEF GaugesHonest, Estimated, Quoted

\* The metrics can be relied on: for any contracts, routes and number of ledgers
\* and cycles, whatever fails and whatever closes between two calls, the
\* exporter is up exactly after a cycle without failure, and every gauge of what
\* that cycle asked for, but of a route whose call failed, is then a reading of
\* that cycle or the default it put in.
THEOREM GaugesStayHonest == ScrapeSpec => []GaugesHonest
<1> QED
  BY ScrapeStarts, ScrapeKeeps, HonestGauges, PTL DEF ScrapeSpec

-----------------------------------------------------------------------------
(* The quote contract: insertion sort.                                     *)

\* Position a goes before b: by its key, and as they came where keys are equal.
Before(keys, a, b) == keys[a] < keys[b] \/ (keys[a] = keys[b] /\ a < b)

\* p puts the positions 1 .. k in order.
InOrder(keys, k, p) ==
    /\ p \in [1 .. k -> 1 .. k]
    /\ \A m \in 1 .. k : \E i \in 1 .. k : p[i] = m
    /\ \A i, j \in 1 .. k : i < j => Before(keys, p[i], p[j])

\* pos is where the position after the first k goes.
Fits(keys, k, p, pos) ==
    /\ \A i \in 1 .. k : i < pos => keys[p[i]] <= keys[k + 1]
    /\ pos <= k => keys[k + 1] < keys[p[pos]]

\* q is p with n put in at pos.
Placed(q, p, n, pos) ==
    /\ q \in [1 .. n -> Int]
    /\ \A i \in 1 .. n : q[i] = IF i < pos THEN p[i] ELSE IF i = pos THEN n ELSE p[i - 1]

LEMMA OrderGrows ==
    ASSUME NEW k \in Nat, NEW keys, NEW p, NEW pos \in 1 .. k + 1, NEW q,
           \A i \in 1 .. k + 1 : keys[i] \in Int,
           InOrder(keys, k, p), Fits(keys, k, p, pos), Placed(q, p, k + 1, pos)
    PROVE  InOrder(keys, k + 1, q)
<1>1. PICK n \in Nat : n = k + 1
  OBVIOUS
<1>2. /\ \A i \in 1 .. n : keys[i] \in Int
      /\ \A i \in 1 .. k : i < pos => keys[p[i]] <= keys[n]
      /\ pos <= k => keys[n] < keys[p[pos]]
      /\ q \in [1 .. n -> Int]
      /\ \A i \in 1 .. n : q[i] = IF i < pos THEN p[i] ELSE IF i = pos THEN n ELSE p[i - 1]
  BY <1>1 DEF Fits, Placed
<1>3. pos \in 1 .. n /\ n = k + 1
  BY <1>1
<1>4. /\ \A i \in 1 .. k : p[i] \in 1 .. k
      /\ \A m \in 1 .. k : \E i \in 1 .. k : p[i] = m
      /\ \A i, j \in 1 .. k : i < j => Before(keys, p[i], p[j])
  BY DEF InOrder
<1>5. \A i \in 1 .. n : /\ i < pos => i \in 1 .. k /\ q[i] = p[i]
                        /\ i = pos => q[i] = n
                        /\ i > pos => i - 1 \in 1 .. k /\ q[i] = p[i - 1]
  <2> SUFFICES ASSUME NEW i \in 1 .. n
               PROVE  /\ i < pos => i \in 1 .. k /\ q[i] = p[i]
                      /\ i = pos => q[i] = n
                      /\ i > pos => i - 1 \in 1 .. k /\ q[i] = p[i - 1]
    OBVIOUS
  <2>1. q[i] = IF i < pos THEN p[i] ELSE IF i = pos THEN n ELSE p[i - 1]
    BY <1>2
  <2>2. i > pos => i - 1 \in 1 .. k /\ ~(i < pos) /\ i # pos
    BY <1>3
  <2>3. i < pos => i \in 1 .. k
    OBVIOUS
  <2>4. i = pos => ~(i < pos)
    OBVIOUS
  <2> QED
    BY <2>1, <2>2, <2>3, <2>4
<1>6. \A i \in 1 .. n : i < pos \/ i = pos \/ i > pos
  OBVIOUS
<1>7. \A i \in 1 .. k : p[i] \in 1 .. n /\ p[i] < n /\ p[i] \in Int /\ keys[p[i]] \in Int
  <2> SUFFICES ASSUME NEW i \in 1 .. k
               PROVE  p[i] \in 1 .. n /\ p[i] < n /\ p[i] \in Int /\ keys[p[i]] \in Int
    OBVIOUS
  <2>1. p[i] \in 1 .. k
    BY <1>4
  <2>2. p[i] \in 1 .. n
    BY <1>3, <2>1
  <2> QED
    BY <1>3, <2>1, <2>2
<1>8. n \in 1 .. n /\ keys[n] \in Int
  BY <1>3
<1>9. \A i \in 1 .. n : q[i] \in 1 .. n
  BY <1>5, <1>6, <1>7, <1>8
<1>10. q \in [1 .. n -> 1 .. n]
  BY <1>2, <1>9
<1>11. ASSUME NEW m \in 1 .. n PROVE \E i \in 1 .. n : q[i] = m
  <2>1. CASE m = n
    BY <1>3, <1>5, <2>1
  <2>2. CASE m # n
    <3>1. m \in 1 .. k
      BY <1>3, <2>2
    <3>2. PICK i \in 1 .. k : p[i] = m
      BY <1>4, <3>1
    <3>3. CASE i < pos
      <4>1. i \in 1 .. n
        BY <1>3
      <4> QED
        BY <1>5, <3>2, <3>3, <4>1
    <3>4. CASE ~(i < pos)
      <4>1. PICK j \in 1 .. n : j = i + 1 /\ j - 1 = i /\ j > pos
        BY <1>3, <3>4
      <4> QED
        BY <1>5, <3>2, <4>1
    <3> QED
      BY <3>3, <3>4
  <2> QED
    BY <2>1, <2>2
<1>12. ASSUME NEW i \in 1 .. k, ~(i < pos) PROVE keys[n] < keys[p[i]]
  <2>1. pos \in 1 .. k /\ keys[n] < keys[p[pos]]
    BY <1>2, <1>12
  <2>2. i = pos \/ pos < i
    BY <1>12
  <2>3. keys[p[pos]] \in Int /\ keys[p[i]] \in Int
    BY <1>7, <2>1
  <2>4. CASE i = pos
    BY <2>1, <2>4
  <2>5. CASE pos < i
    <3>1. Before(keys, p[pos], p[i])
      BY <1>4, <2>1, <2>5
    <3>2. keys[p[pos]] <= keys[p[i]]
      BY <2>3, <3>1 DEF Before
    <3> QED
      BY <1>8, <2>1, <2>3, <3>2
  <2> QED
    BY <2>2, <2>4, <2>5
<1>13. ASSUME NEW i \in 1 .. n, NEW j \in 1 .. n, i < j
       PROVE  Before(keys, q[i], q[j])
  <2>1. CASE j < pos
    <3>1. i < pos
      BY <1>13, <2>1
    <3> QED
      BY <1>4, <1>5, <1>13, <2>1, <3>1
  <2>2. CASE j = pos
    <3>1. i < pos /\ i \in 1 .. k /\ q[i] = p[i] /\ q[j] = n
      BY <1>5, <1>13, <2>2
    <3>2. keys[p[i]] <= keys[n]
      BY <1>2, <3>1
    <3> QED
      BY <1>7, <1>8, <3>1, <3>2 DEF Before
  <2>3. CASE j > pos
    <3>1. j - 1 \in 1 .. k /\ q[j] = p[j - 1] /\ ~(j - 1 < pos)
      BY <1>5, <2>3
    <3>2. CASE i < pos
      <4>1. i \in 1 .. k /\ q[i] = p[i] /\ i < j - 1
        BY <1>5, <2>3, <3>2
      <4> QED
        BY <1>4, <3>1, <4>1
    <3>3. CASE i = pos
      BY <1>5, <1>12, <3>1, <3>3 DEF Before
    <3>4. CASE i > pos
      <4>1. i - 1 \in 1 .. k /\ q[i] = p[i - 1] /\ i - 1 < j - 1
        BY <1>5, <1>13, <3>4
      <4> QED
        BY <1>4, <3>1, <4>1
    <3> QED
      BY <1>6, <3>2, <3>3, <3>4
  <2> QED
    BY <1>6, <2>1, <2>2, <2>3
<1> QED
  BY <1>3, <1>10, <1>11, <1>13 DEF InOrder

LEMMA ConcatAt ==
    ASSUME NEW E, NEW c \in Seq(E), NEW b \in Seq(E)
    PROVE  /\ c \o b \in Seq(E) /\ Len(c \o b) = Len(c) + Len(b)
           /\ \A i \in 1 .. Len(c) + Len(b) : (c \o b)[i] = IF i <= Len(c) THEN c[i] ELSE b[i - Len(c)]
  OBVIOUS

\* d with e put before its element number pos.
PutBefore(d, pos, e, n) == SubSeq(d, 1, pos - 1) \o <<e>> \o SubSeq(d, pos, n)

LEMMA InsertOne ==
    ASSUME NEW E, NEW d \in Seq(E), NEW e \in E, NEW pos \in 1 .. Len(d) + 1
    PROVE  /\ PutBefore(d, pos, e, Len(d)) \in Seq(E)
           /\ Len(PutBefore(d, pos, e, Len(d))) = Len(d) + 1
           /\ \A i \in 1 .. Len(d) + 1 :
                 PutBefore(d, pos, e, Len(d))[i] = IF i < pos THEN d[i] ELSE IF i = pos THEN e ELSE d[i - 1]
<1>1. PICK n \in Nat : n = Len(d) /\ pos \in 1 .. n + 1
  OBVIOUS
<1>2. PICK a : a = SubSeq(d, 1, pos - 1)
  OBVIOUS
<1>3. a \in Seq(E) /\ Len(a) = pos - 1 /\ \A i \in 1 .. pos - 1 : a[i] = d[i]
  BY <1>1, <1>2
<1>4. PICK b : b = SubSeq(d, pos, n)
  OBVIOUS
<1>5. b \in Seq(E) /\ Len(b) = n - pos + 1 /\ \A i \in 1 .. n - pos + 1 : b[i] = d[pos + i - 1]
  BY <1>1, <1>4
<1>6. PICK c : c = a \o <<e>>
  OBVIOUS
<1>7. c \in Seq(E) /\ Len(c) = pos /\ \A i \in 1 .. pos : c[i] = IF i < pos THEN a[i] ELSE e
  BY <1>1, <1>3, <1>6
<1>8. PICK t : t = c \o b
  OBVIOUS
<1>9. /\ t \in Seq(E) /\ Len(t) = Len(c) + Len(b)
      /\ \A i \in 1 .. Len(c) + Len(b) : t[i] = IF i <= Len(c) THEN c[i] ELSE b[i - Len(c)]
  BY <1>5, <1>7, <1>8, ConcatAt
<1>10. Len(t) = n + 1
  BY <1>1, <1>5, <1>7, <1>9
<1>11. ASSUME NEW i \in 1 .. n + 1
       PROVE  t[i] = IF i < pos THEN d[i] ELSE IF i = pos THEN e ELSE d[i - 1]
  <2>1. t[i] = IF i <= pos THEN c[i] ELSE b[i - pos]
    <3>1. Len(c) = pos /\ Len(b) = n - pos + 1 /\ i \in 1 .. Len(c) + Len(b)
      BY <1>1, <1>5, <1>7
    <3> QED
      BY <1>9, <3>1
  <2>2. CASE i < pos
    <3>1. i \in 1 .. pos /\ i \in 1 .. pos - 1 /\ i <= pos
      BY <1>1, <2>2
    <3> QED
      BY <1>3, <1>7, <2>1, <2>2, <3>1
  <2>3. CASE i = pos
    <3>1. i \in 1 .. pos /\ i <= pos /\ ~(i < pos)
      BY <1>1, <2>3
    <3> QED
      BY <1>7, <2>1, <2>3, <3>1
  <2>4. CASE i > pos
    <3>1. /\ i - pos \in 1 .. n - pos + 1 /\ pos + (i - pos) - 1 = i - 1
          /\ ~(i <= pos) /\ ~(i < pos) /\ i # pos
      BY <1>1, <2>4
    <3>2. b[i - pos] = d[i - 1]
      BY <1>5, <3>1
    <3> QED
      BY <2>1, <3>1, <3>2
  <2>5. i < pos \/ i = pos \/ i > pos
    BY <1>1
  <2> QED
    BY <2>2, <2>3, <2>4, <2>5
<1>12. PutBefore(d, pos, e, Len(d)) = t
  BY <1>1, <1>2, <1>4, <1>6, <1>8 DEF PutBefore
<1> QED
  BY <1>1, <1>9, <1>10, <1>11, <1>12

LEMMA InsertionPlace ==
    ASSUME NEW E, NEW d \in Seq(E), \A i \in DOMAIN d : d[i].key \in Int, NEW key \in Int,
           NEW pos, pos = FindInsertionIndex(d, key)
    PROVE  /\ pos \in 1 .. Len(d) + 1
           /\ \A i \in 1 .. pos - 1 : d[i].key <= key
           /\ pos <= Len(d) => key < d[pos].key
<1>1. PICK n \in Nat : n = Len(d) /\ DOMAIN d = 1 .. n
  OBVIOUS
<1>2. PICK H : H = {i \in 1 .. n : key < d[i].key}
  OBVIOUS
<1>3. FindInsertionIndex(d, key)
        = IF H = {} THEN n + 1 ELSE CHOOSE i \in H : \A j \in H : i <= j
  BY <1>1, <1>2 DEF FindInsertionIndex
<1>4. CASE H = {}
  <2>1. pos = n + 1
    BY <1>3, <1>4
  <2>2. \A i \in 1 .. n : d[i].key <= key
    BY <1>1, <1>2, <1>4
  <2> QED
    BY <1>1, <2>1, <2>2
<1>5. CASE H # {}
  <2>1. PICK m \in H : \A j \in H : m <= j
    <3>1. H \in SUBSET Nat
      BY <1>2
    <3> QED
      BY <1>5, <3>1, Least
  <2>2. pos \in H /\ \A j \in H : pos <= j
    BY <1>3, <1>5, <2>1
  <2>3. pos \in 1 .. n /\ key < d[pos].key
    BY <1>2, <2>2
  <2>4. ASSUME NEW i \in 1 .. pos - 1 PROVE d[i].key <= key
    <3>1. i \in 1 .. n /\ ~(pos <= i)
      BY <2>3
    <3>2. i \notin H
      BY <2>2, <3>1
    <3> QED
      BY <1>1, <1>2, <3>1, <3>2
  <2> QED
    BY <1>1, <2>3, <2>4
<1> QED
  BY <1>4, <1>5


\* d holds the first k elements of s, with their keys, in the order p.
Holds(d, s, keys, k, p) ==
    /\ Len(d) = k
    /\ \A i \in 1 .. k : d[i] = [key |-> keys[p[i]], it |-> s[p[i]]]
    /\ InOrder(keys, k, p)

\* One round of the loop.
Round(d, s, keys, n) ==
    PutBefore(d, FindInsertionIndex(d, keys[n]), [key |-> keys[n], it |-> s[n]], n - 1)

LEMMA RoundHolds ==
    ASSUME NEW T, NEW s, NEW keys, NEW n \in Nat \ {0},
           \A i \in 1 .. n : s[i] \in T /\ keys[i] \in Int,
           NEW E, \A x \in Int, y \in T : [key |-> x, it |-> y] \in E, NEW d \in Seq(E), NEW p, Holds(d, s, keys, n - 1, p)
    PROVE  Round(d, s, keys, n) \in Seq(E) /\ \E q : Holds(Round(d, s, keys, n), s, keys, n, q)
<1>1. PICK k \in Nat : n - 1 = k /\ n = k + 1
  OBVIOUS
<1>2. /\ Len(d) = k /\ DOMAIN d = 1 .. k
      /\ \A i \in 1 .. k : d[i] = [key |-> keys[p[i]], it |-> s[p[i]]]
      /\ InOrder(keys, k, p)
  <2>1. Holds(d, s, keys, k, p)
    BY <1>1
  <2> QED
    BY <2>1 DEF Holds
<1>3. n \in 1 .. n /\ keys[n] \in Int /\ s[n] \in T
  BY <1>1
<1>4. PICK e : e = [key |-> keys[n], it |-> s[n]]
  OBVIOUS
<1>5. e \in E
  BY <1>3, <1>4
<1>6. \A i \in 1 .. k : d[i].key = keys[p[i]]
  BY <1>2
<1>7. \A i \in 1 .. k : p[i] \in 1 .. k /\ p[i] \in 1 .. n /\ keys[p[i]] \in Int
  <2>1. \A i \in 1 .. k : p[i] \in 1 .. k
    BY <1>2 DEF InOrder
  <2>2. \A m \in 1 .. k : m \in 1 .. n
    BY <1>1
  <2> QED
    BY <2>1, <2>2
<1>8. PICK pos : pos = FindInsertionIndex(d, keys[n])
  OBVIOUS
<1>9. /\ pos \in 1 .. k + 1
      /\ \A i \in 1 .. pos - 1 : d[i].key <= keys[n]
      /\ pos <= k => keys[n] < d[pos].key
  <2>1. \A i \in DOMAIN d : d[i].key \in Int
    BY <1>2, <1>6, <1>7
  <2>2. /\ pos \in 1 .. Len(d) + 1
        /\ \A i \in 1 .. pos - 1 : d[i].key <= keys[n]
        /\ pos <= Len(d) => keys[n] < d[pos].key
    BY <1>3, <1>8, <2>1, InsertionPlace
  <2> QED
    BY <1>2, <2>2
<1>10. pos \in 1 .. n
  BY <1>1, <1>9
<1>11. Fits(keys, k, p, pos)
  <2>1. \A i \in 1 .. k : i < pos => i \in 1 .. pos - 1
    BY <1>10
  <2>2. pos <= k => pos \in 1 .. k
    BY <1>1, <1>10
  <2> QED
    BY <1>1, <1>6, <1>9, <2>1, <2>2 DEF Fits
<1>12. PICK t : t = PutBefore(d, pos, e, k)
  OBVIOUS
<1>13. Round(d, s, keys, n) = t
  BY <1>1, <1>4, <1>8, <1>12 DEF Round
<1>14. /\ t \in Seq(E) /\ Len(t) = n
       /\ \A i \in 1 .. n : t[i] = IF i < pos THEN d[i] ELSE IF i = pos THEN e ELSE d[i - 1]
  <2>1. pos \in 1 .. Len(d) + 1 /\ PutBefore(d, pos, e, Len(d)) = t /\ Len(d) + 1 = n
    BY <1>1, <1>2, <1>9, <1>12
  <2>2. /\ PutBefore(d, pos, e, Len(d)) \in Seq(E)
        /\ Len(PutBefore(d, pos, e, Len(d))) = Len(d) + 1
        /\ \A i \in 1 .. Len(d) + 1 :
              PutBefore(d, pos, e, Len(d))[i] = IF i < pos THEN d[i] ELSE IF i = pos THEN e ELSE d[i - 1]
    <3>1. d \in Seq(E) /\ e \in E /\ pos \in 1 .. Len(d) + 1
      BY <1>5, <2>1
    <3>2. PutBefore(d, pos, e, Len(d)) \in Seq(E)
      BY <3>1, InsertOne
    <3>3. Len(PutBefore(d, pos, e, Len(d))) = Len(d) + 1
      BY <3>1, InsertOne
    <3>4. \A i \in 1 .. Len(d) + 1 :
              PutBefore(d, pos, e, Len(d))[i] = IF i < pos THEN d[i] ELSE IF i = pos THEN e ELSE d[i - 1]
      BY <3>1, InsertOne
    <3> QED
      BY <3>2, <3>3, <3>4
  <2> QED
    BY <2>1, <2>2
<1>15. PICK q : q = [i \in 1 .. n |-> IF i < pos THEN p[i] ELSE IF i = pos THEN n ELSE p[i - 1]]
  OBVIOUS
<1>16. \A i \in 1 .. n : q[i] = IF i < pos THEN p[i] ELSE IF i = pos THEN n ELSE p[i - 1]
  BY <1>15
<1>17. \A i \in 1 .. n : (i < pos => i \in 1 .. k) /\ (~(i < pos) /\ i # pos => i - 1 \in 1 .. k)
  BY <1>1, <1>10
<1>18. q \in [1 .. n -> Int]
  <2>1. \A i \in 1 .. n : q[i] \in Int
    BY <1>7, <1>16, <1>17
  <2> QED
    BY <1>15, <2>1
<1>19. InOrder(keys, n, q)
  <2>1. Placed(q, p, k + 1, pos)
    BY <1>1, <1>16, <1>18 DEF Placed
  <2>2. /\ pos \in 1 .. k + 1 /\ \A i \in 1 .. k + 1 : keys[i] \in Int
        /\ InOrder(keys, k, p)
    BY <1>1, <1>2, <1>10
  <2> QED
    BY <1>1, <1>11, <2>1, <2>2, OrderGrows
<1>20. ASSUME NEW i \in 1 .. n PROVE t[i] = [key |-> keys[q[i]], it |-> s[q[i]]]
  <2>1. CASE i < pos
    BY <1>2, <1>14, <1>16, <1>17, <2>1
  <2>2. CASE i = pos
    BY <1>4, <1>10, <1>14, <1>16, <2>2
  <2>3. CASE ~(i < pos) /\ i # pos
    BY <1>2, <1>14, <1>16, <1>17, <2>3
  <2> QED
    BY <2>1, <2>2, <2>3
<1>21. Holds(t, s, keys, n, q)
  BY <1>14, <1>19, <1>20 DEF Holds
<1> QED
  BY <1>13, <1>14, <1>21


\* The rounds of the loop, one after the other.
IsSorting(g, s, n, keys) ==
    g = [k \in 0 .. n |-> IF k = 0 THEN << >> ELSE Round(g[k - 1], s, keys, k)]

LEMMA Insertions ==
    ASSUME NEW T, NEW s, NEW n \in Nat, NEW keys, \A i \in 1 .. n : s[i] \in T /\ keys[i] \in Int,
           NEW E, \A x \in Int, y \in T : [key |-> x, it |-> y] \in E
    PROVE  \E g : /\ IsSorting(g, s, n, keys)
                  /\ \A k \in 0 .. n : g[k] \in Seq(E) /\ \E p : Holds(g[k], s, keys, k, p)
<1> DEFINE good(k, d) == \E p : Holds(d, s, keys, k, p)
<1>1. PICK X : X = Seq(E)
  OBVIOUS
<1>2. PICK step : step = [k \in Nat |-> [d \in X |-> IF k \in 1 .. n /\ good(k - 1, d)
                                                     THEN Round(d, s, keys, k) ELSE d]]
  OBVIOUS
<1>3. \A k \in 1 .. n : \A d \in X : good(k - 1, d) =>
            Round(d, s, keys, k) \in X /\ good(k, Round(d, s, keys, k))
  <2> SUFFICES ASSUME NEW k \in 1 .. n, NEW d \in X, NEW p, Holds(d, s, keys, k - 1, p)
               PROVE  Round(d, s, keys, k) \in X /\ good(k, Round(d, s, keys, k))
    OBVIOUS
  <2>1. k \in Nat \ {0} /\ \A i \in 1 .. k : s[i] \in T /\ keys[i] \in Int
    OBVIOUS
  <2> QED
    BY <1>1, <2>1, RoundHolds
<1>4. << >> \in X /\ good(0, << >>)
  <2>1. PICK p : p = [i \in 1 .. 0 |-> i]
    OBVIOUS
  <2>2. InOrder(keys, 0, p)
    BY <2>1 DEF InOrder
  <2>3. Holds(<< >>, s, keys, 0, p)
    BY <2>2 DEF Holds
  <2> QED
    BY <1>1, <2>3
<1> HIDE DEF good
<1>5. \A k \in Nat, d \in X : step[k][d] = IF k \in 1 .. n /\ good(k - 1, d)
                                           THEN Round(d, s, keys, k) ELSE d
  BY <1>2
<1>6. step \in [Nat -> [X -> X]]
  <2>1. \A k \in Nat, d \in X :
           (IF k \in 1 .. n /\ good(k - 1, d) THEN Round(d, s, keys, k) ELSE d) \in X
    BY <1>3
  <2> QED
    BY <1>2, <2>1
<1>7. PICK f \in [Nat -> X] : IsRun(f, << >>, step)
  BY <1>4, <1>6, Steps
<1>8. ASSUME NEW k \in Nat, k + 1 \in 1 .. n, good(k, f[k])
      PROVE  f[k + 1] = Round(f[k], s, keys, k + 1) /\ good(k + 1, f[k + 1])
  <2>1. f[k + 1] = step[k + 1][f[k]] /\ f[k] \in X
    BY <1>7 DEF IsRun
  <2>2. k + 1 \in Nat /\ (k + 1) - 1 = k
    OBVIOUS
  <2>3. step[k + 1][f[k]] = Round(f[k], s, keys, k + 1)
    BY <1>5, <1>8, <2>1, <2>2
  <2> QED
    BY <1>3, <1>8, <2>1, <2>2, <2>3
<1>9. \A k \in 0 .. n : good(k, f[k])
  <2>1. PICK S \in SUBSET Nat : S = {k \in Nat : k <= n => good(k, f[k])}
    OBVIOUS
  <2>2. 0 \in S
    BY <1>4, <1>7, <2>1 DEF IsRun
  <2>3. ASSUME NEW k \in S PROVE k + 1 \in S
    <3>1. k \in Nat /\ (k + 1 <= n => k + 1 \in 1 .. n /\ k <= n)
      OBVIOUS
    <3> QED
      BY <1>8, <2>1, <3>1
  <2>4. S = Nat
    BY <2>2, <2>3, Induction
  <2> QED
    BY <2>1, <2>4
<1>10. PICK g : g = [k \in 0 .. n |-> f[k]]
  OBVIOUS
<1>11. \A k \in 0 .. n : g[k] = f[k] /\ f[k] \in X
  BY <1>10
<1>12. \A k \in 0 .. n : f[k] = IF k = 0 THEN << >> ELSE Round(g[k - 1], s, keys, k)
  <2> SUFFICES ASSUME NEW k \in 0 .. n
               PROVE  f[k] = IF k = 0 THEN << >> ELSE Round(g[k - 1], s, keys, k)
    OBVIOUS
  <2>1. CASE k = 0
    BY <1>7, <2>1 DEF IsRun
  <2>2. CASE k # 0
    <3>1. PICK j \in Nat : j = k - 1 /\ j + 1 = k /\ j \in 0 .. n /\ j + 1 \in 1 .. n
      BY <2>2
    <3>2. f[k] = Round(f[j], s, keys, k) /\ g[k - 1] = f[j]
      BY <1>8, <1>9, <1>11, <3>1
    <3> QED
      BY <2>2, <3>2
  <2> QED
    BY <2>1, <2>2
<1>13. IsSorting(g, s, n, keys)
  BY <1>10, <1>12 DEF IsSorting
<1>14. \A k \in 0 .. n : g[k] \in Seq(E) /\ \E p : Holds(g[k], s, keys, k, p)
  BY <1>1, <1>9, <1>11 DEF good
<1> QED
  BY <1>13, <1>14

\* Two recursions of the same form are the same.
LEMMA SameInsertions ==
    ASSUME NEW s, NEW n \in Nat, NEW keys,
           NEW g, IsSorting(g, s, n, keys),
           NEW h, IsSorting(h, s, n, keys)
    PROVE  g = h
<1>1. \A k \in 0 .. n : /\ g[k] = IF k = 0 THEN << >> ELSE Round(g[k - 1], s, keys, k)
                        /\ h[k] = IF k = 0 THEN << >> ELSE Round(h[k - 1], s, keys, k)
  BY DEF IsSorting
<1>2. PICK S \in SUBSET Nat : S = {k \in Nat : k <= n => g[k] = h[k]}
  OBVIOUS
<1>3. 0 \in S
  BY <1>1, <1>2
<1>4. ASSUME NEW k \in S PROVE k + 1 \in S
  <2> SUFFICES ASSUME k + 1 <= n PROVE g[k + 1] = h[k + 1]
    BY <1>2
  <2>1. k + 1 \in 0 .. n /\ k + 1 # 0 /\ (k + 1) - 1 = k /\ k <= n
    OBVIOUS
  <2>2. g[k] = h[k]
    BY <1>2, <2>1
  <2> QED
    BY <1>1, <2>1, <2>2
<1>5. S = Nat
  BY <1>3, <1>4, Induction
<1>6. \A k \in 0 .. n : g[k] = h[k]
  BY <1>2, <1>5
<1>7. DOMAIN g = 0 .. n /\ DOMAIN h = 0 .. n /\ g = [k \in DOMAIN g |-> g[k]] /\ h = [k \in DOMAIN h |-> h[k]]
  BY DEF IsSorting
<1> QED
  BY <1>6, <1>7

\* What the sort returns: the vector put in order by its keys.
LEMMA Sorting ==
    ASSUME NEW T, NEW s \in Seq(T), NEW n \in Nat, n = Len(s),
           NEW keys, \A i \in 1 .. n : keys[i] \in Int
    PROVE  /\ Inserted(s, keys) \in Seq(T) /\ Len(Inserted(s, keys)) = n
           /\ \E p : InOrder(keys, n, p) /\ \A i \in 1 .. n : Inserted(s, keys)[i] = s[p[i]]
<1> DEFINE loop(h) == [k \in 0 .. Len(s) |->
                         IF k = 0 THEN << >>
                         ELSE LET before == h[k - 1]
                                  at == FindInsertionIndex(before, keys[k])
                              IN  SubSeq(before, 1, at - 1) \o <<[key |-> keys[k], it |-> s[k]]>>
                                    \o SubSeq(before, at, k - 1)]
<1>1. PICK E : \A x \in Int, y \in T : [key |-> x, it |-> y] \in E
  <2>1. \A x \in Int, y \in T : [key |-> x, it |-> y] \in [key : Int, it : T]
    OBVIOUS
  <2> QED
    BY <2>1
<1>2. PICK g : /\ IsSorting(g, s, n, keys)
               /\ \A k \in 0 .. n : g[k] \in Seq(E) /\ \E p : Holds(g[k], s, keys, k, p)
  <2>1. \A i \in 1 .. n : s[i] \in T /\ keys[i] \in Int
    OBVIOUS
  <2> QED
    BY <1>1, <2>1, Insertions
<1>3. \A h : loop(h) = [k \in 0 .. n |-> IF k = 0 THEN << >> ELSE Round(h[k - 1], s, keys, k)]
  BY DEF Round, PutBefore
<1>4. Inserted(s, keys) = LET all == (CHOOSE h : h = loop(h))[Len(s)] IN [i \in DOMAIN s |-> all[i].it]
  BY DEF Inserted
<1> HIDE DEF loop
<1>5. PICK h : h = (CHOOSE x : x = loop(x))
  OBVIOUS
<1>6. h = loop(h)
  <2>1. g = loop(g)
    BY <1>2, <1>3 DEF IsSorting
  <2> QED
    BY <1>5, <2>1
<1>7. h = g
  <2>1. IsSorting(h, s, n, keys)
    BY <1>3, <1>6 DEF IsSorting
  <2> QED
    BY <1>2, <2>1, SameInsertions
<1>8. PICK all : all = g[n]
  OBVIOUS
<1>9. PICK t : t = [i \in 1 .. n |-> all[i].it]
  OBVIOUS
<1>10. Inserted(s, keys) = t
  BY <1>4, <1>5, <1>7, <1>8, <1>9
<1>11. PICK p : Holds(all, s, keys, n, p)
  BY <1>2, <1>8
<1>12. \A i \in 1 .. n : all[i].it = s[p[i]] /\ p[i] \in 1 .. n
  <2>1. /\ \A i \in 1 .. n : all[i] = [key |-> keys[p[i]], it |-> s[p[i]]]
        /\ p \in [1 .. n -> 1 .. n]
    BY <1>11 DEF Holds, InOrder
  <2>2. \A i \in 1 .. n : [key |-> keys[p[i]], it |-> s[p[i]]].it = s[p[i]]
    OBVIOUS
  <2> QED
    BY <2>1, <2>2
<1>13. \A i \in 1 .. n : t[i] = s[p[i]] /\ s[p[i]] \in T
  BY <1>9, <1>12
<1>14. t \in Seq(T) /\ Len(t) = n
  BY <1>9, <1>13
<1> QED
  BY <1>10, <1>11, <1>13, <1>14 DEF Holds

-----------------------------------------------------------------------------
(* The quote contract: its invariant.                                      *)

\* The tiers of a route are those asked for, put in order by their thresholds.
Mins(r) == [i \in DOMAIN asked[r] |-> asked[r][i].min]
TierOrder(r, p) ==
    /\ Len(GetRouteFeeTiers(r)) = Len(asked[r])
    /\ InOrder(Mins(r), Len(asked[r]), p)
    /\ \A i \in DOMAIN asked[r] : GetRouteFeeTiers(r)[i] = asked[r][p[i]]
TiersSorted == \A r \in Routes : \E p \in [DOMAIN asked[r] -> DOMAIN asked[r]] : TierOrder(r, p)

QuoteInv == QuoteTypeOK /\ RoutesTracked /\ TiersSorted

LEMMA QuoteFigures ==
    /\ BpsDenominator \in Nat \ {0} /\ MaxTrackedRoutes \in Nat /\ MaxTiers \in Nat
    /\ Thresholds \subseteq Int /\ Amounts \subseteq Int /\ Fees \subseteq Nat
    /\ None \notin Addresses /\ None \notin Nat
<1>1. BpsDenominator \in Nat \ {0} /\ MaxTrackedRoutes \in Nat /\ MaxTiers \in Nat
  BY QuoteNumbers
<1>2. Thresholds \subseteq Int /\ Amounts \subseteq Int /\ Fees \subseteq Nat
  BY QuoteInputs
<1> QED
  BY <1>1, <1>2, NoneIsNoAddress

\* Tiers of a route that are as they were set are in order.
NoneSet(r) == asked[r] = << >> /\ GetRouteFeeTiers(r) = << >>
JustSet(r) == asked[r] \in Seq(Tiers) /\ GetRouteFeeTiers(r) = SortTiers(asked[r])
NoneOrdered ==
    \A r \in Routes : NoneSet(r) =>
        \E p \in [DOMAIN asked[r] -> DOMAIN asked[r]] : TierOrder(r, p)
JustSetOrdered ==
    \A r \in Routes : JustSet(r) =>
        \E p \in [DOMAIN asked[r] -> DOMAIN asked[r]] : TierOrder(r, p)

LEMMA NoTiersOrdered == NoneOrdered
<1> SUFFICES ASSUME NEW r \in Routes, asked[r] = << >>, GetRouteFeeTiers(r) = << >>
             PROVE  \E p \in [DOMAIN asked[r] -> DOMAIN asked[r]] : TierOrder(r, p)
  BY DEF NoneOrdered, NoneSet, JustSetOrdered, JustSet
<1>1. PICK p : p = [i \in 1 .. 0 |-> i]
  OBVIOUS
<1>2. InOrder(Mins(r), 0, p)
  BY <1>1 DEF InOrder
<1>3. DOMAIN asked[r] = 1 .. 0 /\ Len(asked[r]) = 0
  OBVIOUS
<1>4. p \in [1 .. 0 -> 1 .. 0]
  BY <1>1
<1>5. TierOrder(r, p)
  BY <1>2, <1>3 DEF TierOrder
<1> QED
  BY <1>3, <1>4, <1>5

LEMMA QuoteStarts == QuoteInit => QuoteInv
<1> SUFFICES ASSUME QuoteInit PROVE QuoteInv
  OBVIOUS
<1>1. /\ quoteAdmin = None /\ defaultFee = None /\ routeFee = << >> /\ routeTiers = << >>
      /\ configured = << >> /\ asked = [r \in Routes |-> << >>]
  BY DEF QuoteInit
<1>2. DOMAIN routeFee = {} /\ DOMAIN routeTiers = {} /\ DOMAIN configured = {}
  BY <1>1
<1>3. QuoteTypeOK
  <2>1. routeFee \in [DOMAIN routeFee -> 0 .. BpsDenominator]
    BY <1>1, <1>2
  <2>2. configured \in Seq(Routes) /\ asked \in [Routes -> Seq(Tiers)]
    BY <1>1
  <2> QED
    BY <1>1, <1>2, <2>1, <2>2 DEF QuoteTypeOK
<1>4. RoutesTracked
  BY <1>1, <1>2, QuoteFigures DEF RoutesTracked, IsInjective
<1>5. ASSUME NEW r \in Routes
      PROVE  \E p \in [DOMAIN asked[r] -> DOMAIN asked[r]] : TierOrder(r, p)
  <2>1. asked[r] = << >> /\ GetRouteFeeTiers(r) = << >>
    BY <1>1, <1>2 DEF GetRouteFeeTiers
  <2> QED
    BY <2>1, NoTiersOrdered DEF NoneOrdered, NoneSet
<1> QED
  BY <1>3, <1>4, <1>5 DEF QuoteInv, TiersSorted

LEMMA TiersKept ==
    ASSUME TiersSorted, NEW r \in Routes, GetRouteFeeTiers(r)' = GetRouteFeeTiers(r), asked'[r] = asked[r]
    PROVE  (\E p \in [DOMAIN asked[r] -> DOMAIN asked[r]] : TierOrder(r, p))'
<1>1. PICK p \in [DOMAIN asked[r] -> DOMAIN asked[r]] : TierOrder(r, p)
  BY DEF TiersSorted
<1>2. Mins(r)' = Mins(r)
  BY DEF Mins
<1>3. TierOrder(r, p)'
  BY <1>1, <1>2 DEF TierOrder, InOrder, Before
<1>4. p \in [DOMAIN asked'[r] -> DOMAIN asked'[r]]
  BY <1>1
<1> QED
  BY <1>3, <1>4

LEMMA SortedTiers == JustSetOrdered
<1> SUFFICES ASSUME NEW r \in Routes, asked[r] \in Seq(Tiers), GetRouteFeeTiers(r) = SortTiers(asked[r])
             PROVE  \E p \in [DOMAIN asked[r] -> DOMAIN asked[r]] : TierOrder(r, p)
  BY DEF NoneOrdered, NoneSet, JustSetOrdered, JustSet
<1>1. PICK a \in Seq(Tiers) : a = asked[r]
  OBVIOUS
<1>2. PICK n \in Nat : n = Len(a) /\ DOMAIN a = 1 .. n
  OBVIOUS
<1>3. PICK keys : keys = [i \in DOMAIN a |-> a[i].min]
  OBVIOUS
<1>4. \A i \in 1 .. n : keys[i] \in Int
  <2>1. \A i \in 1 .. n : a[i] \in Tiers /\ keys[i] = a[i].min
    BY <1>2, <1>3
  <2>2. \A t \in Tiers : t.min \in Thresholds
    BY DEF Tiers
  <2> QED
    BY <2>1, <2>2, QuoteFigures
<1>5. PICK t : t = Inserted(a, keys)
  OBVIOUS
<1>6. t \in Seq(Tiers) /\ Len(t) = n /\ \E p : InOrder(keys, n, p) /\ \A i \in 1 .. n : t[i] = a[p[i]]
  BY <1>2, <1>4, <1>5, Sorting
<1>7. GetRouteFeeTiers(r) = t /\ Mins(r) = keys
  BY <1>1, <1>3, <1>5 DEF SortTiers, Mins
<1>8. PICK p : InOrder(keys, n, p) /\ \A i \in 1 .. n : t[i] = a[p[i]]
  BY <1>6
<1>9. p \in [1 .. n -> 1 .. n]
  BY <1>8 DEF InOrder
<1>10. TierOrder(r, p)
  BY <1>1, <1>2, <1>6, <1>7, <1>8 DEF TierOrder
<1> QED
  BY <1>1, <1>2, <1>6, <1>7, <1>9, <1>10

LEMMA OrderedAfter == NoneOrdered' /\ JustSetOrdered'
<1> QED
  BY NoTiersOrdered, SortedTiers, PTL

\* What the invariant says, piece by piece.
LEMMA QuotePieces ==
    ASSUME QuoteInv
    PROVE  /\ quoteAdmin \in Addresses \cup {None} /\ defaultFee \in (0 .. BpsDenominator) \cup {None}
           /\ quoteAdmin = None <=> defaultFee = None
           /\ \A r \in DOMAIN routeFee : routeFee[r] \in 0 .. BpsDenominator
           /\ \A r \in DOMAIN routeTiers : routeTiers[r] \in Seq([min : Nat, fee : 0 .. BpsDenominator])
           /\ configured \in Seq(Routes) /\ asked \in [Routes -> Seq(Tiers)]
           /\ IsInjective(configured) /\ Len(configured) <= MaxTrackedRoutes
           /\ DOMAIN routeFee \subseteq Range(configured) /\ DOMAIN routeTiers \subseteq Range(configured)
<1>1. routeFee \in [DOMAIN routeFee -> 0 .. BpsDenominator]
  BY DEF QuoteInv, QuoteTypeOK
<1> QED
  BY <1>1 DEF QuoteInv, QuoteTypeOK, RoutesTracked

LEMMA TrackKeeps ==
    ASSUME QuoteInv, NEW r \in Routes, TrackConfiguredRoute(r)
    PROVE  /\ configured' \in Seq(Routes) /\ IsInjective(configured')
           /\ Len(configured') <= MaxTrackedRoutes
           /\ Range(configured') = Range(configured) \cup {r}
<1>1. configured \in Seq(Routes) /\ IsInjective(configured) /\ Len(configured) <= MaxTrackedRoutes
  BY QuotePieces
<1>2. CASE r \in Range(configured)
  BY <1>1, <1>2 DEF TrackConfiguredRoute
<1>3. CASE r \notin Range(configured)
  <2>1. Len(configured) < MaxTrackedRoutes /\ configured' = Append(configured, r)
    BY <1>3 DEF TrackConfiguredRoute
  <2>2. /\ Append(configured, r) \in Seq(Routes)
        /\ Len(Append(configured, r)) = Len(configured) + 1
        /\ Range(Append(configured, r)) = Range(configured) \cup {r}
        /\ IsInjective(Append(configured, r))
    BY <1>1, <1>3, AppendElements
  <2>3. PICK n \in Nat : n = Len(configured)
    BY <1>1
  <2>4. Len(configured') <= MaxTrackedRoutes
    BY <2>1, <2>2, <2>3, QuoteFigures
  <2> QED
    BY <2>1, <2>2, <2>4
<1> QED
  BY <1>2, <1>3

\* Steps that change no tiers and nothing asked.
LEMMA TiersStay ==
    ASSUME TiersSorted, UNCHANGED <<routeTiers, asked>>
    PROVE  TiersSorted'
<1> SUFFICES ASSUME NEW r \in Routes
             PROVE  (\E p \in [DOMAIN asked[r] -> DOMAIN asked[r]] : TierOrder(r, p))'
  BY DEF TiersSorted
<1>1. GetRouteFeeTiers(r)' = GetRouteFeeTiers(r) /\ asked'[r] = asked[r]
  BY DEF GetRouteFeeTiers
<1> QED
  BY <1>1, TiersKept

\* A step that keeps the administrator and the default, and whose fees and
\* tiers are valid and tracked.
LEMMA AdminSteps ==
    ASSUME QuoteInv, NEW a \in Addresses, NEW fee \in Fees,
           InitializeQuote(a, fee) \/ SetDefaultFee(a, fee)
    PROVE  QuoteInv'
<1>1. /\ quoteAdmin' \in Addresses /\ defaultFee' \in 0 .. BpsDenominator
      /\ routeFee' = routeFee /\ routeTiers' = routeTiers /\ configured' = configured /\ asked' = asked
  <2>1. fee \in 0 .. BpsDenominator
    BY QuoteFigures DEF InitializeQuote, SetDefaultFee, ValidFee
  <2> QED
    BY <2>1 DEF InitializeQuote, SetDefaultFee
<1>2. quoteAdmin' # None /\ defaultFee' # None
  BY <1>1, QuoteFigures
<1>3. QuoteTypeOK'
  BY <1>1, <1>2 DEF QuoteInv, QuoteTypeOK
<1>4. RoutesTracked'
  BY <1>1 DEF QuoteInv, RoutesTracked
<1>5. TiersSorted'
  BY <1>1, TiersStay DEF QuoteInv
<1> QED
  BY <1>3, <1>4, <1>5 DEF QuoteInv

LEMMA TransferKeeps ==
    ASSUME QuoteInv, NEW a \in Addresses, NEW b \in Addresses, TransferQuoteAdmin(a, b)
    PROVE  QuoteInv'
<1>1. /\ quoteAdmin' = b /\ quoteAdmin = a /\ defaultFee' = defaultFee
      /\ routeFee' = routeFee /\ routeTiers' = routeTiers /\ configured' = configured /\ asked' = asked
  BY DEF TransferQuoteAdmin
<1>2. quoteAdmin' # None /\ quoteAdmin # None
  BY <1>1, QuoteFigures
<1>3. QuoteTypeOK'
  BY <1>1, <1>2 DEF QuoteInv, QuoteTypeOK
<1>4. RoutesTracked'
  BY <1>1 DEF QuoteInv, RoutesTracked
<1>5. TiersSorted'
  BY <1>1, TiersStay DEF QuoteInv
<1> QED
  BY <1>3, <1>4, <1>5 DEF QuoteInv

LEMMA SetFeeKeeps ==
    ASSUME QuoteInv, NEW a \in Addresses, NEW r \in Routes, NEW fee \in Fees, SetRouteFee(a, r, fee)
    PROVE  QuoteInv'
<1>1. /\ quoteAdmin' = quoteAdmin /\ defaultFee' = defaultFee
      /\ routeFee' = Put(routeFee, r, fee) /\ routeTiers' = routeTiers /\ asked' = asked
      /\ TrackConfiguredRoute(r) /\ fee \in 0 .. BpsDenominator
  BY QuoteFigures DEF SetRouteFee, ValidFee
<1>2. /\ configured' \in Seq(Routes) /\ IsInjective(configured')
      /\ Len(configured') <= MaxTrackedRoutes
      /\ Range(configured') = Range(configured) \cup {r}
  BY <1>1, TrackKeeps
<1>3. DOMAIN routeFee' = DOMAIN routeFee \cup {r} /\ routeFee' \in [DOMAIN routeFee' -> 0 .. BpsDenominator]
  BY <1>1, QuotePieces DEF Put
<1>4. QuoteTypeOK'
  BY <1>1, <1>2, <1>3 DEF QuoteInv, QuoteTypeOK
<1>5. RoutesTracked'
  BY <1>1, <1>2, <1>3, QuotePieces DEF RoutesTracked
<1>6. TiersSorted'
  BY <1>1, TiersStay DEF QuoteInv
<1> QED
  BY <1>4, <1>5, <1>6 DEF QuoteInv

LEMMA UnsetFeeKeeps ==
    ASSUME QuoteInv, NEW a \in Addresses, NEW r \in Routes, UnsetRouteFee(a, r)
    PROVE  QuoteInv'
<1>1. /\ quoteAdmin' = quoteAdmin /\ defaultFee' = defaultFee /\ configured' = configured
      /\ routeFee' = Delete(routeFee, {r}) /\ routeTiers' = Delete(routeTiers, {r})
      /\ asked' = [asked EXCEPT ![r] = << >>]
  BY DEF UnsetRouteFee
<1>2. /\ DOMAIN routeFee' = DOMAIN routeFee \ {r} /\ DOMAIN routeTiers' = DOMAIN routeTiers \ {r}
      /\ routeFee' \in [DOMAIN routeFee' -> 0 .. BpsDenominator]
      /\ \A q \in DOMAIN routeTiers' : routeTiers'[q] = routeTiers[q]
  BY <1>1, QuotePieces DEF Delete
<1>3. /\ asked' \in [Routes -> Seq(Tiers)] /\ asked'[r] = << >>
      /\ \A q \in Routes : q # r => asked'[q] = asked[q]
  BY <1>1, QuotePieces
<1>4. QuoteTypeOK'
  BY <1>1, <1>2, <1>3 DEF QuoteInv, QuoteTypeOK
<1>5. RoutesTracked'
  BY <1>1, <1>2, QuotePieces DEF RoutesTracked
<1>6. ASSUME NEW q \in Routes
      PROVE  (\E p \in [DOMAIN asked[q] -> DOMAIN asked[q]] : TierOrder(q, p))'
  <2>1. CASE q = r
    <3>1. GetRouteFeeTiers(r)' = << >>
      BY <1>2 DEF GetRouteFeeTiers
    <3> QED
      BY <1>3, <2>1, <3>1, OrderedAfter DEF NoneOrdered, NoneSet
  <2>2. CASE q # r
    <3>1. GetRouteFeeTiers(q)' = GetRouteFeeTiers(q)
      BY <1>2, <2>2 DEF GetRouteFeeTiers
    <3> QED
      BY <1>3, <2>2, <3>1, TiersKept DEF QuoteInv
  <2> QED
    BY <2>1, <2>2
<1> QED
  BY <1>4, <1>5, <1>6 DEF QuoteInv, TiersSorted

LEMMA SetTiersKeeps ==
    ASSUME QuoteInv, NEW a \in Addresses, NEW r \in Routes, NEW tiers \in TierLists,
           SetRouteFeeTiers(a, r, tiers)
    PROVE  QuoteInv'
<1>1. /\ quoteAdmin' = quoteAdmin /\ defaultFee' = defaultFee /\ routeFee' = routeFee
      /\ \A i \in DOMAIN tiers : tiers[i].min >= 0 /\ ValidFee(tiers[i].fee)
      /\ TrackConfiguredRoute(r) /\ routeTiers' = Put(routeTiers, r, SortTiers(tiers))
      /\ asked' = [asked EXCEPT ![r] = tiers]
  BY DEF SetRouteFeeTiers
<1>2. /\ configured' \in Seq(Routes) /\ IsInjective(configured')
      /\ Len(configured') <= MaxTrackedRoutes
      /\ Range(configured') = Range(configured) \cup {r}
  BY <1>1, TrackKeeps
<1>3. PICK n \in Nat : tiers \in [1 .. n -> Tiers]
  BY QuoteFigures DEF TierLists
<1>4. tiers \in Seq(Tiers) /\ Len(tiers) = n /\ DOMAIN tiers = 1 .. n
  BY <1>3
<1>5. PICK V : V = [min : Nat, fee : 0 .. BpsDenominator]
  OBVIOUS
<1>6. tiers \in Seq(V)
  <2>1. ASSUME NEW i \in 1 .. n PROVE tiers[i] \in V
    <3>1. tiers[i] \in [min : Thresholds, fee : Fees]
      BY <1>3 DEF Tiers
    <3>2. /\ tiers[i] = [min |-> tiers[i].min, fee |-> tiers[i].fee]
          /\ tiers[i].min \in Thresholds /\ tiers[i].fee \in Fees
      BY <3>1
    <3>3. tiers[i].min >= 0 /\ tiers[i].fee <= BpsDenominator
      BY <1>1, <1>4 DEF ValidFee
    <3>4. tiers[i].min \in Nat /\ tiers[i].fee \in 0 .. BpsDenominator
      BY <3>2, <3>3, QuoteFigures
    <3> QED
      BY <1>5, <3>2, <3>4
  <2> QED
    BY <1>4, <2>1
<1>7. PICK t : t = SortTiers(tiers)
  OBVIOUS
<1>8. t \in Seq(V)
  <2>1. PICK keys : keys = [i \in DOMAIN tiers |-> tiers[i].min]
    OBVIOUS
  <2>2. \A i \in 1 .. n : keys[i] \in Int
    <3>1. \A i \in 1 .. n : tiers[i] \in Tiers /\ keys[i] = tiers[i].min
      BY <1>3, <1>4, <2>1
    <3>2. \A x \in Tiers : x.min \in Thresholds
      BY DEF Tiers
    <3> QED
      BY <3>1, <3>2, QuoteFigures
  <2>3. Inserted(tiers, keys) \in Seq(V)
    BY <1>4, <1>6, <2>2, Sorting
  <2> QED
    BY <1>7, <2>1, <2>3 DEF SortTiers
<1>9. /\ DOMAIN routeTiers' = DOMAIN routeTiers \cup {r} /\ routeTiers'[r] = t
      /\ \A q \in DOMAIN routeTiers : q # r => routeTiers'[q] = routeTiers[q]
  BY <1>1, <1>7 DEF Put
<1>10. /\ asked' \in [Routes -> Seq(Tiers)] /\ asked'[r] = tiers
       /\ \A q \in Routes : q # r => asked'[q] = asked[q]
  BY <1>1, <1>4, QuotePieces
<1>11. QuoteTypeOK'
  <2>1. \A q \in DOMAIN routeTiers' : routeTiers'[q] \in Seq(V)
    BY <1>5, <1>8, <1>9, QuotePieces
  <2> QED
    BY <1>1, <1>2, <1>5, <1>10, <2>1 DEF QuoteInv, QuoteTypeOK
<1>12. RoutesTracked'
  BY <1>1, <1>2, <1>9, QuotePieces DEF RoutesTracked
<1>13. ASSUME NEW q \in Routes
       PROVE  (\E p \in [DOMAIN asked[q] -> DOMAIN asked[q]] : TierOrder(q, p))'
  <2>1. CASE q = r
    <3>1. (GetRouteFeeTiers(r) = SortTiers(asked[r]))'
      BY <1>7, <1>9, <1>10 DEF GetRouteFeeTiers
    <3>2. (asked[r] \in Seq(Tiers))'
      BY <1>4, <1>10
    <3> QED
      BY <2>1, <3>1, <3>2, OrderedAfter DEF JustSetOrdered, JustSet
  <2>2. CASE q # r
    <3>1. GetRouteFeeTiers(q)' = GetRouteFeeTiers(q)
      BY <1>9, <2>2 DEF GetRouteFeeTiers
    <3> QED
      BY <1>10, <2>2, <3>1, TiersKept DEF QuoteInv
  <2> QED
    BY <2>1, <2>2
<1> QED
  BY <1>11, <1>12, <1>13 DEF QuoteInv, TiersSorted

LEMMA QuoteKeeps == QuoteInv /\ [QuoteNext]_quoteVars => QuoteInv'
<1> SUFFICES ASSUME QuoteInv, [QuoteNext]_quoteVars PROVE QuoteInv'
  OBVIOUS
<1>1. ASSUME NEW a \in Addresses, NEW fee \in Fees, InitializeQuote(a, fee) \/ SetDefaultFee(a, fee)
      PROVE  QuoteInv'
  BY <1>1, AdminSteps
<1>2. ASSUME NEW a \in Addresses, NEW r \in Routes, NEW fee \in Fees, SetRouteFee(a, r, fee)
      PROVE  QuoteInv'
  BY <1>2, SetFeeKeeps
<1>3. ASSUME NEW a \in Addresses, NEW r \in Routes, UnsetRouteFee(a, r)
      PROVE  QuoteInv'
  BY <1>3, UnsetFeeKeeps
<1>4. ASSUME NEW a \in Addresses, NEW r \in Routes, NEW tiers \in TierLists, SetRouteFeeTiers(a, r, tiers)
      PROVE  QuoteInv'
  BY <1>4, SetTiersKeeps
<1>5. ASSUME NEW a \in Addresses, NEW b \in Addresses, TransferQuoteAdmin(a, b)
      PROVE  QuoteInv'
  BY <1>5, TransferKeeps
<1>6. ASSUME UNCHANGED quoteVars
      PROVE  QuoteInv'
  <2>1. /\ quoteAdmin' = quoteAdmin /\ defaultFee' = defaultFee /\ routeFee' = routeFee
        /\ routeTiers' = routeTiers /\ configured' = configured /\ asked' = asked
    BY <1>6 DEF quoteVars
  <2>2. QuoteTypeOK' /\ RoutesTracked'
    BY <2>1 DEF QuoteInv, QuoteTypeOK, RoutesTracked
  <2>3. TiersSorted'
    BY <2>1, TiersStay DEF QuoteInv
  <2> QED
    BY <2>2, <2>3 DEF QuoteInv
<1> QED
  BY <1>1, <1>2, <1>3, <1>4, <1>5, <1>6 DEF QuoteNext

LEMMA QuoteHolds == QuoteSpec => []QuoteInv
<1> QED
  BY QuoteStarts, QuoteKeeps, PTL DEF QuoteSpec

-----------------------------------------------------------------------------
(* The quote contract: charges.                                            *)

\* The last of a set of positions.
LastOf(F) == CHOOSE i \in F : \A j \in F : j <= i

LEMMA LastOne ==
    ASSUME NEW n \in Nat, NEW F \in SUBSET (1 .. n), F # {}
    PROVE  LastOf(F) \in F /\ \A j \in F : j <= LastOf(F)
<1>1. PICK g : g = [i \in F |-> i]
  OBVIOUS
<1>2. \A i \in F : g[i] \in Int /\ g[i] = i
  BY <1>1
<1>3. PICK i \in F : \A j \in F : g[i] > g[j] \/ (g[i] = g[j] /\ i <= j)
  BY <1>2, FirstGreatest
<1>4. \A j \in F : j <= i
  BY <1>2, <1>3
<1> QED
  BY <1>4 DEF LastOf

\* Of n thresholds taken in the order p, those the scan gets past; of those an
\* amount reaches, the highest.
Scanned(mins, p, n, amount) == {i \in 1 .. n : \A j \in 1 .. i : amount >= mins[p[j]]}
Reached(mins, n, amount) == {i \in 1 .. n : mins[i] <= amount}
Highest(F, mins) == {i \in F : \A j \in F : mins[j] <= mins[i]}

\* The scan of thresholds that are in order finds the last of the highest.
LEMMA ScanFinds ==
    ASSUME NEW n \in Nat, NEW mins, \A i \in 1 .. n : mins[i] \in Int, NEW p, InOrder(mins, n, p),
           NEW amount \in Int, NEW got, got = Scanned(mins, p, n, amount),
           NEW reached, reached = Reached(mins, n, amount)
    PROVE  /\ got = {} <=> reached = {}
           /\ got # {} => LastOf(got) \in 1 .. n /\ p[LastOf(got)] = LastOf(Highest(reached, mins))
<1>1. \A i \in 1 .. n : p[i] \in 1 .. n /\ mins[p[i]] \in Int
  BY DEF InOrder
<1>2. \A m \in 1 .. n : \E i \in 1 .. n : p[i] = m
  BY DEF InOrder
<1>3. \A i, j \in 1 .. n : i < j => mins[p[i]] <= mins[p[j]]
  <2> SUFFICES ASSUME NEW i \in 1 .. n, NEW j \in 1 .. n, i < j PROVE mins[p[i]] <= mins[p[j]]
    OBVIOUS
  <2>1. Before(mins, p[i], p[j])
    BY DEF InOrder
  <2> QED
    BY <1>1, <2>1 DEF Before
<1>4. \A i \in 1 .. n : i \in got <=> p[i] \in reached
  <2> SUFFICES ASSUME NEW i \in 1 .. n PROVE i \in got <=> p[i] \in reached
    OBVIOUS
  <2>1. (i \in got <=> \A j \in 1 .. i : amount >= mins[p[j]]) /\ (p[i] \in reached <=> mins[p[i]] <= amount)
    BY <1>1 DEF Scanned, Reached
  <2>2. i \in 1 .. i /\ \A j \in 1 .. i : j \in 1 .. n /\ (j = i \/ j < i)
    OBVIOUS
  <2>3. i \in got => mins[p[i]] <= amount
    BY <1>1, <2>1, <2>2
  <2>4. ASSUME mins[p[i]] <= amount, NEW j \in 1 .. i PROVE amount >= mins[p[j]]
    <3>1. mins[p[j]] \in Int /\ mins[p[i]] \in Int
      BY <1>1, <2>2
    <3>2. j = i \/ mins[p[j]] <= mins[p[i]]
      BY <1>3, <2>2
    <3> QED
      BY <2>4, <3>1, <3>2
  <2> QED
    BY <2>1, <2>3, <2>4
<1>5. got \in SUBSET (1 .. n) /\ reached \in SUBSET (1 .. n)
  BY DEF Scanned, Reached
<1>6. got = {} <=> reached = {}
  BY <1>2, <1>4, <1>5
<1>7. ASSUME got # {}
      PROVE  LastOf(got) \in 1 .. n /\ p[LastOf(got)] = LastOf(Highest(reached, mins))
  <2>1. PICK last : last = LastOf(got)
    OBVIOUS
  <2>2. PICK highest : highest = Highest(reached, mins)
    OBVIOUS
  <2>3. last \in got /\ \A j \in got : j <= last
    BY <1>5, <1>7, <2>1, LastOne
  <2>4. last \in 1 .. n /\ p[last] \in reached
    BY <1>4, <1>5, <2>3
  <2>5. ASSUME NEW j \in reached
        PROVE  mins[j] <= mins[p[last]] /\ (mins[j] = mins[p[last]] => j <= p[last])
    <3>1. PICK x \in 1 .. n : p[x] = j
      BY <1>2, <1>5
    <3>2. x \in got /\ x <= last
      BY <1>4, <2>3, <3>1
    <3>3. CASE x = last
      BY <1>1, <1>5, <2>4, <3>1, <3>3
    <3>4. CASE x # last
      <4>1. x < last
        BY <2>4, <3>2, <3>4
      <4>2. Before(mins, p[x], p[last])
        BY <2>4, <4>1 DEF InOrder
      <4>3. mins[p[x]] \in Int /\ mins[p[last]] \in Int /\ p[x] \in Int /\ p[last] \in Int
        BY <1>1, <2>4
      <4> QED
        BY <3>1, <4>2, <4>3 DEF Before
    <3> QED
      BY <3>3, <3>4
  <2>6. p[last] \in highest
    BY <2>2, <2>4, <2>5 DEF Highest
  <2>7. highest \in SUBSET (1 .. n) /\ highest # {}
    BY <1>5, <2>2, <2>6 DEF Highest
  <2>8. PICK top : top = LastOf(highest)
    OBVIOUS
  <2>9. top \in highest /\ \A j \in highest : j <= top
    BY <2>7, <2>8, LastOne
  <2>10. top <= p[last]
    <3>1. top \in reached /\ mins[p[last]] <= mins[top]
      BY <2>2, <2>4, <2>9 DEF Highest
    <3>2. mins[top] \in Int /\ mins[p[last]] \in Int
      BY <1>1, <1>5, <2>4, <3>1
    <3> QED
      BY <2>5, <3>1, <3>2
  <2>11. p[last] <= top
    BY <2>6, <2>9
  <2>12. p[last] = top
    BY <1>1, <2>4, <2>7, <2>9, <2>10, <2>11
  <2> QED
    BY <2>1, <2>2, <2>4, <2>8, <2>12
<1> QED
  BY <1>6, <1>7

\* What the scan charges is what was promised, and a valid fee.
LEMMA ChargedAsPromised ==
    ASSUME QuoteInv, NEW r \in Routes, NEW amount \in Int
    PROVE  /\ ResolveRouteFeeBps(r, amount) = Promised(r, amount)
           /\ quoteAdmin # None => ResolveRouteFeeBps(r, amount) \in 0 .. BpsDenominator
<1>1. PICK a : a = asked[r]
  OBVIOUS
<1>2. a \in Seq(Tiers)
  BY <1>1, QuotePieces
<1>3. PICK n \in Nat : n = Len(a) /\ DOMAIN a = 1 .. n
  BY <1>2
<1>4. PICK t : t = GetRouteFeeTiers(r)
  OBVIOUS
<1>5. PICK V : V = [min : Nat, fee : 0 .. BpsDenominator]
  OBVIOUS
<1>6. t \in Seq(V)
  <2>1. << >> \in Seq(V)
    OBVIOUS
  <2>2. r \in DOMAIN routeTiers => routeTiers[r] \in Seq(V)
    BY <1>5, QuotePieces
  <2>3. t = IF r \in DOMAIN routeTiers THEN routeTiers[r] ELSE << >>
    BY <1>4 DEF GetRouteFeeTiers
  <2> QED
    BY <2>1, <2>2, <2>3
<1>7. PICK mins : mins = [i \in 1 .. n |-> a[i].min]
  OBVIOUS
<1>8. PICK p : Len(t) = n /\ InOrder(mins, n, p) /\ \A i \in 1 .. n : t[i] = a[p[i]]
  <2>1. Mins(r) = mins
    BY <1>1, <1>3, <1>7 DEF Mins
  <2>2. PICK p : TierOrder(r, p)
    BY DEF QuoteInv, TiersSorted
  <2> QED
    BY <1>1, <1>3, <1>4, <2>1, <2>2 DEF TierOrder
<1>9. DOMAIN t = 1 .. n
  BY <1>6, <1>8
<1>10. \A i \in 1 .. n : mins[i] \in Int /\ mins[i] = a[i].min
  <2>1. \A i \in 1 .. n : a[i] \in Tiers /\ mins[i] = a[i].min
    BY <1>2, <1>3, <1>7
  <2>2. \A x \in Tiers : x.min \in Thresholds
    BY DEF Tiers
  <2> QED
    BY <2>1, <2>2, QuoteFigures
<1>11. \A i \in 1 .. n : p[i] \in 1 .. n /\ t[i].min = mins[p[i]] /\ t[i].fee = a[p[i]].fee
  <2>1. \A i \in 1 .. n : p[i] \in 1 .. n
    BY <1>8 DEF InOrder
  <2> QED
    BY <1>8, <1>10, <2>1
<1>12. PICK got : got = Scanned(mins, p, n, amount)
  OBVIOUS
<1>13. PICK reached : reached = Reached(mins, n, amount)
  OBVIOUS
<1>14. got = {i \in DOMAIN t : \A j \in 1 .. i : amount >= t[j].min}
  <2>1. \A i \in 1 .. n : \A j \in 1 .. i : j \in 1 .. n
    OBVIOUS
  <2> QED
    BY <1>9, <1>11, <1>12, <2>1 DEF Scanned
<1>15. reached = {i \in DOMAIN a : a[i].min <= amount}
  BY <1>3, <1>10, <1>13 DEF Reached
<1>16. PICK highest : highest = Highest(reached, mins)
  OBVIOUS
<1>17. highest = {i \in reached : \A j \in reached : a[j].min <= a[i].min}
  BY <1>10, <1>13, <1>16 DEF Highest, Reached
<1>18. PICK last : last = LastOf(got)
  OBVIOUS
<1>19. PICK top : top = LastOf(highest)
  OBVIOUS
<1>20. /\ got = {} <=> reached = {}
       /\ got # {} => last \in 1 .. n /\ p[last] = top
  BY <1>8, <1>10, <1>12, <1>13, <1>16, <1>18, <1>19, ScanFinds
<1>21. ResolveRouteFeeBps(r, amount) = IF got # {} THEN t[last].fee ELSE GetRouteFee(r)
  BY <1>4, <1>14, <1>18 DEF LastOf, ResolveRouteFeeBps
<1>22. Promised(r, amount) = IF reached = {} THEN GetRouteFee(r) ELSE a[top].fee
  BY <1>1, <1>15, <1>17, <1>19 DEF LastOf, Promised
<1>23. \A i \in 1 .. n : t[i].fee \in 0 .. BpsDenominator
  <2>1. \A i \in 1 .. n : t[i] \in V
    BY <1>6, <1>9
  <2> QED
    BY <1>5, <2>1
<1>24. quoteAdmin # None => GetRouteFee(r) \in 0 .. BpsDenominator
  BY QuotePieces DEF GetRouteFee
<1> QED
  BY <1>11, <1>20, <1>21, <1>22, <1>23, <1>24

\* A part of an amount, rounded down.
LEMMA PartOf ==
    ASSUME NEW amount \in Nat, NEW b \in Nat \ {0}, NEW bps \in 0 .. b
    PROVE  (amount * bps) \div b \in 0 .. amount
<1>1. PICK x \in Nat : x = amount * bps
  OBVIOUS
<1>2. PICK m \in Nat : m = amount * b
  OBVIOUS
<1>3. x <= m
  BY <1>1, <1>2
<1>4. PICK q \in Nat : q = x \div b /\ q * b <= x
  OBVIOUS
<1>5. q * b <= amount * b
  BY <1>2, <1>3, <1>4
<1>6. q <= amount
  BY <1>5
<1> QED
  BY <1>1, <1>4, <1>6

LEMMA OutputWithin ==
    ASSUME QuoteInv, NEW r \in Routes, NEW amount \in Int,
           GetQuote([route |-> r, amount |-> amount]) # None
    PROVE  GetQuote([route |-> r, amount |-> amount]).out \in 0 .. amount
<1>1. PICK bps : bps = ResolveRouteFeeBps(r, amount)
  OBVIOUS
<1>2. PICK fee : fee = (amount * bps) \div BpsDenominator
  OBVIOUS
<1>3. /\ ~(amount <= 0) /\ quoteAdmin # None
      /\ GetQuote([route |-> r, amount |-> amount]).out = amount - fee
  BY <1>1, <1>2 DEF GetQuote
<1>4. bps \in 0 .. BpsDenominator
  BY <1>1, <1>3, ChargedAsPromised
<1>5. fee \in 0 .. amount
  <2>1. amount \in Nat
    BY <1>3
  <2> QED
    BY <1>2, <1>4, <2>1, PartOf, QuoteFigures
<1> QED
  BY <1>3, <1>5

LEMMA ChargedWell == QuoteInv => ChargesAsPromised
<1> SUFFICES ASSUME QuoteInv, NEW r \in Routes, NEW amount \in Amounts
             PROVE  /\ ResolveRouteFeeBps(r, amount) = Promised(r, amount)
                    /\ LET quote == GetQuote([route |-> r, amount |-> amount])
                       IN  quote # None => quote.out \in 0 .. amount
  BY DEF ChargesAsPromised, QuoteInv
<1>1. amount \in Int
  BY QuoteFigures
<1> QED
  BY <1>1, ChargedAsPromised, OutputWithin

\* Whatever was set, cleared and set again, every amount is charged what was
\* last asked for it, never more than itself: what set_route_fee_tiers sorts and
\* resolve_route_fee_bps scans is the schedule the administrator gave.
THEOREM ChargesStayAsPromised == QuoteSpec => []ChargesAsPromised
<1> QED
  BY QuoteHolds, ChargedWell, PTL

-----------------------------------------------------------------------------
(* The quote contract: the best quote and the sorted list.                 *)

\* Position i has the highest output of the first k, and is the first that has.
FirstBest(outs, k, i) ==
    i \in 1 .. k /\ \A j \in 1 .. k : outs[i] > outs[j] \/ (outs[i] = outs[j] /\ i <= j)

LEMMA FirstBestGrows ==
    ASSUME NEW k \in Nat \ {0}, NEW outs, \A j \in 1 .. k + 1 : outs[j] \in Int,
           NEW i, FirstBest(outs, k, i)
    PROVE  /\ outs[k + 1] > outs[i] => FirstBest(outs, k + 1, k + 1)
           /\ ~(outs[k + 1] > outs[i]) => FirstBest(outs, k + 1, i)
<1>1. i \in 1 .. k /\ \A j \in 1 .. k : outs[i] > outs[j] \/ (outs[i] = outs[j] /\ i <= j)
  BY DEF FirstBest
<1>2. k + 1 \in 1 .. k + 1 /\ i \in 1 .. k + 1 /\ i <= k + 1
  BY <1>1
<1>3. \A j \in 1 .. k + 1 : j = k + 1 \/ j \in 1 .. k
  OBVIOUS
<1>4. ASSUME outs[k + 1] > outs[i], NEW j \in 1 .. k + 1
      PROVE  outs[k + 1] > outs[j] \/ (outs[k + 1] = outs[j] /\ k + 1 <= j)
  <2>1. CASE j = k + 1
    BY <2>1
  <2>2. CASE j \in 1 .. k
    <3>1. outs[i] >= outs[j] /\ outs[j] \in Int /\ outs[i] \in Int /\ outs[k + 1] \in Int
      BY <1>1, <1>2, <2>2
    <3> QED
      BY <1>4, <3>1
  <2> QED
    BY <1>3, <2>1, <2>2
<1>5. ASSUME ~(outs[k + 1] > outs[i]), NEW j \in 1 .. k + 1
      PROVE  outs[i] > outs[j] \/ (outs[i] = outs[j] /\ i <= j)
  <2>1. CASE j = k + 1
    <3>1. outs[i] \in Int /\ outs[k + 1] \in Int
      BY <1>2
    <3> QED
      BY <1>2, <1>5, <2>1, <3>1
  <2>2. CASE j \in 1 .. k
    BY <1>1, <2>2
  <2> QED
    BY <1>3, <2>1, <2>2
<1> QED
  BY <1>2, <1>4, <1>5 DEF FirstBest

LEMMA OneFirstBest ==
    ASSUME NEW k \in Nat, NEW outs, \A j \in 1 .. k : outs[j] \in Int,
           NEW i, NEW j, FirstBest(outs, k, i), FirstBest(outs, k, j)
    PROVE  i = j
<1>1. i \in 1 .. k /\ j \in 1 .. k
  BY DEF FirstBest
<1>2. (outs[i] > outs[j] \/ (outs[i] = outs[j] /\ i <= j)) /\ (outs[j] > outs[i] \/ (outs[j] = outs[i] /\ j <= i))
  BY <1>1 DEF FirstBest
<1>3. outs[i] \in Int /\ outs[j] \in Int
  BY <1>1
<1> QED
  BY <1>1, <1>2, <1>3

\* The loop of get_best_quote over n quotes.
IsBest(g, quotes, n) ==
    g = [k \in 1 .. n |-> IF k = 1 THEN quotes[1]
                          ELSE IF quotes[k].out > g[k - 1].out THEN quotes[k] ELSE g[k - 1]]

\* What it keeps is the first of the highest output so far.
LEMMA BestFound ==
    ASSUME NEW n \in Nat \ {0}, NEW quotes, NEW outs,
           \A i \in 1 .. n : outs[i] \in Int /\ quotes[i].out = outs[i],
           NEW g, IsBest(g, quotes, n)
    PROVE  \A k \in 1 .. n : \E i \in 1 .. k : FirstBest(outs, k, i) /\ g[k] = quotes[i]
<1> DEFINE found(k) == \E i \in 1 .. k : FirstBest(outs, k, i) /\ g[k] = quotes[i]
<1>1. \A k \in 1 .. n : g[k] = IF k = 1 THEN quotes[1]
                               ELSE IF quotes[k].out > g[k - 1].out THEN quotes[k] ELSE g[k - 1]
  BY DEF IsBest
<1>2. found(1)
  <2>1. FirstBest(outs, 1, 1)
    BY DEF FirstBest
  <2> QED
    BY <1>1, <2>1
<1>3. ASSUME NEW k \in Nat \ {0}, k + 1 <= n, found(k) PROVE found(k + 1)
  <2>1. PICK i \in 1 .. k : FirstBest(outs, k, i) /\ g[k] = quotes[i]
    BY <1>3
  <2>2. k + 1 \in 1 .. n /\ k + 1 # 1 /\ (k + 1) - 1 = k /\ i \in 1 .. n /\ \A j \in 1 .. k + 1 : j \in 1 .. n
    BY <1>3
  <2>3. g[k + 1] = IF quotes[k + 1].out > g[k].out THEN quotes[k + 1] ELSE g[k]
    BY <1>1, <2>2
  <2>4. g[k + 1] = IF outs[k + 1] > outs[i] THEN quotes[k + 1] ELSE quotes[i]
    BY <2>1, <2>2, <2>3
  <2>5. /\ outs[k + 1] > outs[i] => FirstBest(outs, k + 1, k + 1)
        /\ ~(outs[k + 1] > outs[i]) => FirstBest(outs, k + 1, i)
    BY <2>1, <2>2, FirstBestGrows
  <2>6. k + 1 \in 1 .. k + 1 /\ i \in 1 .. k + 1
    OBVIOUS
  <2> QED
    BY <2>4, <2>5, <2>6
<1> HIDE DEF found
<1>4. PICK S \in SUBSET Nat : S = {k \in Nat : k + 1 <= n => found(k + 1)}
  OBVIOUS
<1>5. 0 \in S
  BY <1>2, <1>4
<1>6. ASSUME NEW k \in S PROVE k + 1 \in S
  <2> SUFFICES ASSUME (k + 1) + 1 <= n PROVE found((k + 1) + 1)
    BY <1>4
  <2>1. k + 1 \in Nat \ {0} /\ k + 1 <= n
    OBVIOUS
  <2>2. found(k + 1)
    BY <1>4, <2>1
  <2> QED
    BY <1>3, <2>1, <2>2
<1>7. S = Nat
  BY <1>5, <1>6, Induction
<1>8. ASSUME NEW k \in 1 .. n PROVE found(k)
  <2>1. PICK j \in Nat : j + 1 = k /\ j + 1 <= n
    <3>1. k - 1 \in Nat /\ (k - 1) + 1 = k
      OBVIOUS
    <3> QED
      BY <3>1
  <2> QED
    BY <1>4, <1>7, <2>1
<1> QED
  BY <1>8 DEF found

LEMMA BestExists ==
    ASSUME NEW n \in Nat \ {0}, NEW quotes, NEW outs,
           \A i \in 1 .. n : outs[i] \in Int /\ quotes[i].out = outs[i]
    PROVE  \E g : IsBest(g, quotes, n)
<1> DEFINE top(k) == CHOOSE i \in 1 .. k : FirstBest(outs, k, i)
<1>1. ASSUME NEW k \in 1 .. n PROVE FirstBest(outs, k, top(k)) /\ top(k) \in 1 .. k
  <2>1. 1 .. k \in SUBSET (1 .. k) /\ 1 \in 1 .. k /\ k \in Nat /\ \A i \in 1 .. k : outs[i] \in Int
    OBVIOUS
  <2>2. \E i \in 1 .. k : \A j \in 1 .. k : outs[i] > outs[j] \/ (outs[i] = outs[j] /\ i <= j)
    BY <2>1, FirstGreatest
  <2>3. \E i \in 1 .. k : FirstBest(outs, k, i)
    BY <2>2 DEF FirstBest
  <2> QED
    BY <2>3
<1> HIDE DEF top
<1>2. PICK g : g = [k \in 1 .. n |-> quotes[top(k)]]
  OBVIOUS
<1>3. \A k \in 1 .. n : g[k] = quotes[top(k)]
  BY <1>2
<1>4. ASSUME NEW k \in 1 .. n
      PROVE  g[k] = IF k = 1 THEN quotes[1]
                    ELSE IF quotes[k].out > g[k - 1].out THEN quotes[k] ELSE g[k - 1]
  <2>1. CASE k = 1
    <3>1. top(k) = 1
      BY <1>1, <2>1
    <3> QED
      BY <1>3, <2>1, <3>1
  <2>2. CASE k # 1
    <3>1. PICK j \in Nat \ {0} : j = k - 1 /\ j + 1 = k /\ j \in 1 .. n
      BY <2>2
    <3>2. FirstBest(outs, j, top(j)) /\ top(j) \in 1 .. n /\ FirstBest(outs, k, top(k))
      <4>1. FirstBest(outs, j, top(j)) /\ top(j) \in 1 .. j
        BY <1>1, <3>1
      <4>2. top(j) \in 1 .. n
        BY <3>1, <4>1
      <4> QED
        BY <1>1, <4>1, <4>2
    <3>3. /\ outs[k] > outs[top(j)] => FirstBest(outs, k, k)
          /\ ~(outs[k] > outs[top(j)]) => FirstBest(outs, k, top(j))
      <4>1. \A i \in 1 .. j + 1 : outs[i] \in Int
        BY <3>1
      <4> QED
        BY <3>1, <3>2, <4>1, FirstBestGrows
    <3>4. top(k) = IF outs[k] > outs[top(j)] THEN k ELSE top(j)
      <4>1. \A i \in 1 .. k : outs[i] \in Int
        OBVIOUS
      <4> QED
        BY <3>2, <3>3, <4>1, OneFirstBest
    <3>5. g[j].out = outs[top(j)] /\ quotes[k].out = outs[k]
      BY <1>3, <3>1, <3>2
    <3> QED
      BY <1>3, <2>2, <3>1, <3>4, <3>5
  <2> QED
    BY <2>1, <2>2
<1>5. IsBest(g, quotes, n)
  BY <1>2, <1>4 DEF IsBest
<1> QED
  BY <1>5

-----------------------------------------------------------------------------
\* The answers to n requests, None where there is none, and the requests that
\* have one.
Answers(requests) == [i \in DOMAIN requests |-> GetQuote(requests[i])]
Valid(requests) == {i \in DOMAIN requests : GetQuote(requests[i]) # None}

\* t is the m quotes of s in the order p: by falling output, and as they came
\* where outputs are equal.
Falling(t, s, m, p) ==
    /\ p \in [1 .. m -> 1 .. m]
    /\ \A i \in 1 .. m : t[i] = s[p[i]]
    /\ \A i, j \in 1 .. m : i < j => t[i].out > t[j].out \/ (t[i].out = t[j].out /\ p[i] < p[j])
    /\ \A x \in 1 .. m : \E i \in 1 .. m : p[i] = x

\* The list of quotes is the valid answers, in order of falling output.
LEMMA SortedQuotes ==
    ASSUME QuoteInv, quoteAdmin # None, NEW requests \in RequestLists,
           NEW sorted, sorted = GetQuotesSorted(requests), NEW valid, valid = Valid(requests)
    PROVE  /\ Len(sorted) = Cardinality(valid) /\ DOMAIN sorted = 1 .. Len(sorted) /\ Len(sorted) \in Nat
           /\ Range(sorted) = {GetQuote(requests[i]) : i \in valid}
           /\ \A i \in DOMAIN sorted : sorted[i].out \in Int
           /\ \E p : Falling(sorted, Kept(Answers(requests), valid), Len(sorted), p)
<1>1. PICK n \in 1 .. MaxRequests : requests \in [1 .. n -> [route : Routes, amount : Amounts]]
  BY DEF RequestLists
<1>2. n \in Nat \ {0} /\ DOMAIN requests = 1 .. n /\ Len(requests) = n /\ requests # << >>
  BY <1>1, QuoteNumbers
<1>3. PICK all : all = Answers(requests)
  OBVIOUS
<1>4. PICK Q : Q = {GetQuote(requests[i]) : i \in 1 .. n}
  OBVIOUS
<1>5. all \in Seq(Q) /\ Len(all) = n /\ \A i \in 1 .. n : all[i] = GetQuote(requests[i])
  <2>1. all = [i \in 1 .. n |-> GetQuote(requests[i])]
    BY <1>2, <1>3 DEF Answers
  <2>2. \A i \in 1 .. n : GetQuote(requests[i]) \in Q
    BY <1>4
  <2> HIDE DEF GetQuote
  <2> QED
    BY <1>2, <2>1, <2>2
<1>6. \A i \in 1 .. n : i \in valid <=> GetQuote(requests[i]) # None
  BY <1>2 DEF Valid
<1>7. valid \in SUBSET (1 .. n)
  BY <1>2 DEF Valid
<1>8. \A i \in valid : all[i].out \in Int
  <2> SUFFICES ASSUME NEW i \in valid PROVE all[i].out \in Int
    OBVIOUS
  <2>1. PICK r \in Routes, amount \in Amounts : requests[i] = [route |-> r, amount |-> amount]
    BY <1>1, <1>7
  <2>2. amount \in Int
    BY QuoteFigures
  <2>3. GetQuote([route |-> r, amount |-> amount]) # None
    BY <1>6, <1>7, <2>1
  <2>4. GetQuote([route |-> r, amount |-> amount]).out \in 0 .. amount
    BY <2>2, <2>3, OutputWithin
  <2>5. all[i] = GetQuote([route |-> r, amount |-> amount])
    BY <1>5, <1>7, <2>1
  <2> QED
    BY <2>2, <2>4, <2>5
<1>9. PICK quotes : quotes = Kept(all, valid)
  OBVIOUS
<1>10. quotes \in Seq(Q) /\ Range(quotes) = {all[i] : i \in valid}
  BY <1>5, <1>7, <1>9, KeptElements
<1>11. Len(quotes) = Cardinality(valid)
  BY <1>5, <1>7, <1>9, KeptLen
<1>12. PICK m \in Nat : m = Len(quotes) /\ DOMAIN quotes = 1 .. m
  BY <1>10
<1>13. \A i \in 1 .. m : quotes[i].out \in Int
  BY <1>8, <1>10, <1>12 DEF Range
<1>14. PICK keys : keys = [i \in DOMAIN quotes |-> -quotes[i].out]
  OBVIOUS
<1>15. \A i \in 1 .. m : keys[i] \in Int /\ keys[i] = -quotes[i].out
  BY <1>12, <1>13, <1>14
<1>16. sorted = Inserted(quotes, keys)
  <2>1. Kept([i \in DOMAIN requests |-> GetQuote(requests[i])],
             {i \in DOMAIN requests : GetQuote(requests[i]) # None}) = quotes
    BY <1>3, <1>9 DEF Answers, Valid
  <2>2. GetQuotesSorted(requests) = Inserted(quotes, [i \in DOMAIN quotes |-> -quotes[i].out])
    BY <1>2, <2>1 DEF GetQuotesSorted
  <2> QED
    BY <1>14, <2>2
<1>17. /\ sorted \in Seq(Q) /\ Len(sorted) = m
       /\ \E p : InOrder(keys, m, p) /\ \A i \in 1 .. m : sorted[i] = quotes[p[i]]
  BY <1>10, <1>12, <1>15, <1>16, Sorting
<1>18. PICK p : InOrder(keys, m, p) /\ \A i \in 1 .. m : sorted[i] = quotes[p[i]]
  BY <1>17
<1>19. DOMAIN sorted = 1 .. m
  BY <1>17
<1>20. /\ p \in [1 .. m -> 1 .. m]
       /\ \A x \in 1 .. m : \E i \in 1 .. m : p[i] = x
       /\ \A i, j \in 1 .. m : i < j => Before(keys, p[i], p[j])
  BY <1>18 DEF InOrder
<1>21. \A i \in 1 .. m : p[i] \in 1 .. m /\ keys[p[i]] = -sorted[i].out /\ sorted[i].out \in Int
  <2> SUFFICES ASSUME NEW i \in 1 .. m
               PROVE  p[i] \in 1 .. m /\ keys[p[i]] = -sorted[i].out /\ sorted[i].out \in Int
    OBVIOUS
  <2>1. PICK x \in 1 .. m : x = p[i]
    BY <1>20
  <2>2. sorted[i] = quotes[x]
    BY <1>18, <2>1
  <2>3. quotes[x].out \in Int /\ keys[x] = -quotes[x].out
    BY <1>13, <1>15
  <2> QED
    BY <2>1, <2>2, <2>3
<1>22. ASSUME NEW i \in 1 .. m, NEW j \in 1 .. m, i < j
       PROVE  sorted[i].out > sorted[j].out \/ (sorted[i].out = sorted[j].out /\ p[i] < p[j])
  <2>1. Before(keys, p[i], p[j])
    BY <1>20, <1>22
  <2>2. /\ keys[p[i]] = -sorted[i].out /\ keys[p[j]] = -sorted[j].out
        /\ sorted[i].out \in Int /\ sorted[j].out \in Int
    BY <1>21
  <2> QED
    BY <2>1, <2>2 DEF Before
<1>23. Range(sorted) = Range(quotes)
  <2>1. ASSUME NEW x PROVE x \in Range(sorted) <=> x \in Range(quotes)
    <3>1. x \in Range(sorted) <=> \E i \in 1 .. m : sorted[i] = x
      BY <1>19 DEF Range
    <3>2. x \in Range(quotes) <=> \E i \in 1 .. m : quotes[i] = x
      BY <1>12 DEF Range
    <3>3. ASSUME NEW i \in 1 .. m PROVE \E k \in 1 .. m : quotes[k] = sorted[i]
      BY <1>18, <1>21
    <3>4. ASSUME NEW k \in 1 .. m PROVE \E i \in 1 .. m : sorted[i] = quotes[k]
      <4>1. PICK i \in 1 .. m : p[i] = k
        BY <1>20
      <4> QED
        BY <1>18, <4>1
    <3> QED
      BY <3>1, <3>2, <3>3, <3>4
  <2> QED
    BY <2>1
<1>24. {all[i] : i \in valid} = {GetQuote(requests[i]) : i \in valid}
  BY <1>5, <1>7
<1>25. Range(sorted) = {GetQuote(requests[i]) : i \in valid}
  BY <1>10, <1>23, <1>24
<1>26. Falling(sorted, quotes, m, p)
  BY <1>18, <1>20, <1>22 DEF Falling
<1>27. Len(sorted) = Cardinality(valid) /\ DOMAIN sorted = 1 .. Len(sorted) /\ Len(sorted) \in Nat
  BY <1>11, <1>12, <1>17, <1>19
<1>28. \A i \in DOMAIN sorted : sorted[i].out \in Int
  BY <1>19, <1>21
<1>29. Falling(sorted, Kept(Answers(requests), valid), Len(sorted), p)
  BY <1>3, <1>9, <1>17, <1>26
<1> QED
  BY <1>25, <1>27, <1>28, <1>29

\* When every request has an answer, the loop over them keeps the head of the
\* sorted list.
LEMMA BestIsHead ==
    ASSUME QuoteInv, quoteAdmin # None, NEW requests \in RequestLists, GetQuotes(requests) # None
    PROVE  GetBestQuote(requests) = GetQuotesSorted(requests)[1]
<1>1. PICK n \in 1 .. MaxRequests : requests \in [1 .. n -> [route : Routes, amount : Amounts]]
  BY DEF RequestLists
<1>2. n \in Nat \ {0} /\ DOMAIN requests = 1 .. n /\ Len(requests) = n
  BY <1>1, QuoteNumbers
<1>3. PICK all : all = Answers(requests)
  OBVIOUS
<1>4. \A i \in 1 .. n : GetQuote(requests[i]) # None
  BY <1>2 DEF GetQuotes
<1>5. GetQuotes(requests) = all
  BY <1>2, <1>3 DEF GetQuotes, Answers
<1>6. PICK valid : valid = Valid(requests)
  OBVIOUS
<1>7. valid = 1 .. n
  BY <1>2, <1>4, <1>6 DEF Valid
<1>8. PICK Q : Q = {GetQuote(requests[i]) : i \in 1 .. n}
  OBVIOUS
<1>9. all \in Seq(Q) /\ Len(all) = n
  <2>1. all = [i \in 1 .. n |-> GetQuote(requests[i])]
    BY <1>2, <1>3 DEF Answers
  <2>2. \A i \in 1 .. n : GetQuote(requests[i]) \in Q
    BY <1>8
  <2> QED
    BY <1>2, <2>1, <2>2
<1>10. Kept(all, valid) = all
  BY <1>7, <1>9, KeptAll
<1>11. PICK sorted : sorted = GetQuotesSorted(requests)
  OBVIOUS
<1>12. PICK m \in Nat : m = Len(sorted) /\ DOMAIN sorted = 1 .. m /\ m = n
  <2>1. Len(sorted) = Cardinality(valid) /\ DOMAIN sorted = 1 .. Len(sorted) /\ Len(sorted) \in Nat
    BY <1>6, <1>11, SortedQuotes
  <2>2. \A k \in Nat : Cardinality(1 .. k) = k
    <3> SUFFICES ASSUME NEW k \in Nat PROVE Cardinality(1 .. k) = k
      OBVIOUS
    <3> QED
      BY FS_Interval
  <2> QED
    BY <1>2, <1>7, <2>1, <2>2
<1>13. PICK p : Falling(sorted, all, n, p)
  <2>1. Kept(Answers(requests), valid) = all
    BY <1>3, <1>10
  <2>2. \E f : Falling(sorted, Kept(Answers(requests), valid), Len(sorted), f)
    BY <1>6, <1>11, SortedQuotes
  <2> QED
    BY <1>12, <2>1, <2>2
<1>14. /\ p \in [1 .. n -> 1 .. n]
       /\ \A i \in 1 .. n : sorted[i] = all[p[i]]
       /\ \A x \in 1 .. n : \E i \in 1 .. n : p[i] = x
  BY <1>13 DEF Falling
<1>15. \A i \in 1 .. n : sorted[i].out \in Int
  BY <1>6, <1>11, <1>12, SortedQuotes
<1>16. PICK outs : outs = [i \in 1 .. n |-> all[i].out]
  OBVIOUS
<1>17. \A i \in 1 .. n : p[i] \in 1 .. n /\ outs[p[i]] = sorted[i].out
  BY <1>14, <1>16
<1>18. \A i \in 1 .. n : outs[i] \in Int /\ all[i].out = outs[i]
  <2> SUFFICES ASSUME NEW i \in 1 .. n PROVE outs[i] \in Int /\ all[i].out = outs[i]
    OBVIOUS
  <2>1. PICK x \in 1 .. n : p[x] = i
    BY <1>14
  <2> QED
    BY <1>15, <1>16, <1>17, <2>1
<1>19. FirstBest(outs, n, p[1])
  <2>1. 1 \in 1 .. n /\ p[1] \in 1 .. n
    BY <1>2, <1>17
  <2>2. ASSUME NEW j \in 1 .. n PROVE outs[p[1]] > outs[j] \/ (outs[p[1]] = outs[j] /\ p[1] <= j)
    <3>1. PICK x \in 1 .. n : p[x] = j
      BY <1>14
    <3>2. CASE x = 1
      BY <2>1, <3>1, <3>2
    <3>3. CASE x # 1
      <4>1. 1 < x
        BY <3>3
      <4>2. sorted[1].out > sorted[x].out \/ (sorted[1].out = sorted[x].out /\ p[1] < p[x])
        BY <1>13, <2>1, <4>1 DEF Falling
      <4>3. outs[p[1]] = sorted[1].out /\ outs[j] = sorted[x].out /\ p[1] \in Int /\ p[x] \in Int
        BY <1>17, <2>1, <3>1
      <4> QED
        BY <3>1, <4>2, <4>3
    <3> QED
      BY <3>2, <3>3
  <2> QED
    BY <2>1, <2>2 DEF FirstBest
<1>20. PICK g : g = (CHOOSE f : IsBest(f, all, n))
  OBVIOUS
<1>21. IsBest(g, all, n)
  <2>1. \E f : IsBest(f, all, n)
    BY <1>2, <1>18, BestExists
  <2> QED
    BY <1>20, <2>1
<1>22. GetBestQuote(requests) = g[n]
  BY <1>2, <1>5, <1>20 DEF GetBestQuote, IsBest
<1>23. PICK top \in 1 .. n : FirstBest(outs, n, top) /\ g[n] = all[top]
  <2>1. n \in 1 .. n
    BY <1>2
  <2> QED
    BY <1>2, <1>18, <1>21, <2>1, BestFound
<1>24. top = p[1]
  BY <1>2, <1>18, <1>19, <1>23, OneFirstBest
<1>25. sorted[1] = all[p[1]]
  BY <1>2, <1>14
<1> QED
  BY <1>11, <1>22, <1>23, <1>24, <1>25

LEMMA BestLeads == QuoteInv => BestLeadsSorted
<1> SUFFICES ASSUME QuoteInv, quoteAdmin # None, NEW requests \in RequestLists,
                    NEW sorted, sorted = GetQuotesSorted(requests), NEW valid, valid = Valid(requests)
             PROVE  /\ GetQuotes(requests) # None => GetBestQuote(requests) = sorted[1]
                    /\ Len(sorted) = Cardinality(valid)
                    /\ Range(sorted) = {GetQuote(requests[i]) : i \in valid}
                    /\ \A i, j \in DOMAIN sorted : i < j => sorted[i].out >= sorted[j].out
  BY DEF BestLeadsSorted, Valid
<1>1. GetQuotes(requests) # None => GetBestQuote(requests) = sorted[1]
  BY BestIsHead
<1>2. Len(sorted) = Cardinality(valid) /\ Range(sorted) = {GetQuote(requests[i]) : i \in valid}
  BY SortedQuotes
<1>3. \A i, j \in DOMAIN sorted : i < j => sorted[i].out >= sorted[j].out
  <2> SUFFICES ASSUME NEW i \in DOMAIN sorted, NEW j \in DOMAIN sorted, i < j
               PROVE  sorted[i].out >= sorted[j].out
    OBVIOUS
  <2>1. sorted[i].out \in Int /\ sorted[j].out \in Int
    BY SortedQuotes
  <2>2. sorted[i].out > sorted[j].out \/ sorted[i].out = sorted[j].out
    <3>1. PICK p : Falling(sorted, Kept(Answers(requests), valid), Len(sorted), p)
      BY SortedQuotes
    <3>2. i \in 1 .. Len(sorted) /\ j \in 1 .. Len(sorted)
      BY SortedQuotes
    <3> QED
      BY <3>1, <3>2 DEF Falling
  <2> QED
    BY <2>1, <2>2
<1> QED
  BY <1>1, <1>2, <1>3

\* get_best_quote and get_quotes_sorted agree: the best quote is the head of the
\* sorted list, which holds every quote that can be given, by falling output.
THEOREM BestStaysFirst == QuoteSpec => []BestLeadsSorted
<1> QED
  BY QuoteHolds, BestLeads, PTL

-----------------------------------------------------------------------------
(* The registry: its invariant.                                           *)

\* The address index follows the entries: exactly the addresses of entries are
\* found, each leads to an entry of its own, and none of the same name is newer.
IndexFollows ==
    /\ DOMAIN index = {entries[k].address : k \in DOMAIN entries}
    /\ \A a \in DOMAIN index :
          /\ index[a] \in DOMAIN entries
          /\ entries[index[a]].address = a
          /\ \A k \in DOMAIN entries :
                entries[k].address = a /\ k[1] = index[a][1] => k[2] <= index[a][2]

\* The inductive invariant.
RegistryInv == TypeOK /\ VersionsExact /\ IndexFollows

\* What the items of a batch at the positions I are when they are entered.
Newcomers(items, I) ==
    /\ items \in Seq(Registrations)
    /\ I \in SUBSET DOMAIN items
    /\ \A i \in I : ValidRegistration(items[i].name, items[i].version)
    /\ \A i, j \in I : j < i /\ items[j].name = items[i].name
                         => items[j].version < items[i].version

\* The versions of n among those items.
VersionsAdded(items, I, n) == {items[i].version : i \in {j \in I : items[j].name = n}}

-----------------------------------------------------------------------------
(* The registry: ascending vectors.                                        *)

\* Keeping positions of a vector that ascends at them gives an ascending one.
LEMMA KeptAscends ==
    ASSUME NEW s \in Seq(Nat), NEW I \in SUBSET (1 .. Len(s)),
           \A i, j \in I : i < j => s[i] < s[j]
    PROVE  Ascending(Kept(s, I))
<1>1. PICK f \in [1 .. Len(Kept(s, I)) -> 1 .. Len(s)] :
         /\ \A k \in 1 .. Len(Kept(s, I)) : Kept(s, I)[k] = s[f[k]] /\ f[k] \in I
         /\ \A j, k \in 1 .. Len(Kept(s, I)) : j < k => f[j] < f[k]
  BY KeptEmbeds
<1>2. Kept(s, I) \in Seq(Nat)
  BY KeptEmbeds
<1>3. DOMAIN Kept(s, I) = 1 .. Len(Kept(s, I))
  BY <1>2
<1> QED
  BY <1>1, <1>3 DEF Ascending

\* An ascending vector goes on with one whose elements are all larger.
LEMMA ConcatAscends ==
    ASSUME NEW s \in Seq(Nat), NEW t \in Seq(Nat), Ascending(s), Ascending(t),
           \A x \in Range(s), y \in Range(t) : x < y
    PROVE  Ascending(s \o t)
<1>1. \A i \in DOMAIN s : s[i] \in Range(s)
  BY DEF Range
<1>2. \A i \in DOMAIN t : t[i] \in Range(t)
  BY DEF Range
<1>3. ASSUME NEW i \in DOMAIN (s \o t), NEW j \in DOMAIN (s \o t), i < j
      PROVE  (s \o t)[i] < (s \o t)[j]
  <2>1. CASE j <= Len(s)
    <3>1. i \in DOMAIN s /\ j \in DOMAIN s /\ (s \o t)[i] = s[i] /\ (s \o t)[j] = s[j]
      BY <1>3, <2>1
    <3> QED
      BY <1>3, <3>1 DEF Ascending
  <2>2. CASE i > Len(s)
    <3>1. /\ i - Len(s) \in DOMAIN t /\ j - Len(s) \in DOMAIN t
          /\ (s \o t)[i] = t[i - Len(s)] /\ (s \o t)[j] = t[j - Len(s)]
      BY <1>3, <2>2
    <3> QED
      BY <1>3, <3>1 DEF Ascending
  <2>3. CASE i <= Len(s) /\ j > Len(s)
    <3>1. /\ i \in DOMAIN s /\ j - Len(s) \in DOMAIN t
          /\ (s \o t)[i] = s[i] /\ (s \o t)[j] = t[j - Len(s)]
      BY <1>3, <2>3
    <3> QED
      BY <1>1, <1>2, <3>1
  <2>4. i \in Int /\ j \in Int /\ Len(s) \in Int
    OBVIOUS
  <2> QED
    BY <2>1, <2>2, <2>3, <2>4
<1> QED
  BY <1>3 DEF Ascending

\* The last element of an ascending vector is its greatest.
LEMMA LastGreatest ==
    ASSUME NEW s \in Seq(Nat), Ascending(s), s # << >>
    PROVE  \A x \in Range(s) : x <= s[Len(s)]
<1>1. Len(s) \in DOMAIN s /\ \A i \in DOMAIN s : i \in Int /\ (i < Len(s) \/ i = Len(s))
  OBVIOUS
<1>2. \A i \in DOMAIN s : s[i] \in Nat
  OBVIOUS
<1> QED
  BY <1>1, <1>2 DEF Ascending, Range

\* An ascending vector has no element twice.
LEMMA AscendingInjective ==
    ASSUME NEW s \in Seq(Nat), Ascending(s)
    PROVE  IsInjective(s)
<1>1. \A i, j \in DOMAIN s : i \in Int /\ j \in Int /\ s[i] \in Int /\ s[j] \in Int
  OBVIOUS
<1>2. \A i, j \in DOMAIN s : i < j \/ i = j \/ j < i
  BY <1>1
<1> QED
  BY <1>1, <1>2 DEF Ascending, IsInjective

-----------------------------------------------------------------------------
(* The registry: write_entry.                                              *)

\* The items of a batch, as numbers and names.
LEMMA ItemTypes ==
    ASSUME NEW items, NEW I, Newcomers(items, I)
    PROVE  /\ \A i \in I : i \in DOMAIN items /\ i \in Nat
           /\ \A i \in DOMAIN items : /\ items[i].name \in Names
                                      /\ items[i].address \in Contracts
                                      /\ items[i].version \in Nat
           /\ \A i \in I : /\ items[i].version \in 1 .. MaxVersion
                           /\ Key(items[i]) = <<items[i].name, items[i].version>>
                           /\ Key(items[i]) \in Keys
                           /\ Key(items[i])[1] = items[i].name
                           /\ Key(items[i])[2] = items[i].version
<1>1. \A i \in DOMAIN items : items[i] \in Registrations
  BY DEF Newcomers
<1>2. \A i \in I : i \in DOMAIN items /\ i \in Nat
  BY DEF Newcomers
<1>3. \A i \in DOMAIN items : /\ items[i].name \in Names
                              /\ items[i].address \in Contracts
                              /\ items[i].version \in 0 .. MaxVersion
  BY <1>1 DEF Registrations
<1>4. MaxVersion \in Nat
  BY RegistryNumbers
<1>5. \A i \in I : items[i].version > 0
  BY DEF Newcomers, ValidRegistration
<1>6. \A i \in DOMAIN items : items[i].version \in Nat
  BY <1>3, <1>4
<1>7. \A i \in I : items[i].version \in 1 .. MaxVersion
  BY <1>2, <1>3, <1>4, <1>5
<1> QED
  BY <1>2, <1>3, <1>6, <1>7 DEF Key, Keys

\* A vector of elements of T is a vector over T.
LEMMA SeqOver ==
    ASSUME NEW S, NEW s \in Seq(S), NEW T, Range(s) \subseteq T
    PROVE  s \in Seq(T)
<1>1. PICK n \in Nat : n = Len(s) /\ DOMAIN s = 1 .. n /\ s = [i \in 1 .. n |-> s[i]]
  OBVIOUS
<1>2. \A i \in 1 .. n : s[i] \in T
  BY <1>1 DEF Range
<1>3. s \in [1 .. n -> T]
  BY <1>1, <1>2
<1> QED
  BY <1>3

\* The version lists are vectors of naturals.
LEMMA VersionLists ==
    ASSUME RegistryInv, NEW n \in Names
    PROVE  versions[n] \in Seq(Nat) /\ versions[n] \in Seq(1 .. MaxVersion)
           /\ Ascending(versions[n]) /\ Range(versions[n]) \subseteq Nat
<1>1. versions[n] \in Seq(1 .. MaxVersion) /\ Ascending(versions[n])
  BY DEF RegistryInv, TypeOK, VersionsExact
<1>2. Range(versions[n]) \subseteq 1 .. MaxVersion
  BY <1>1, RangeFinite
<1>3. 1 .. MaxVersion \subseteq Nat
  BY RegistryNumbers
<1>4. Range(versions[n]) \subseteq Nat
  BY <1>2, <1>3
<1> QED
  BY <1>1, <1>4, SeqOver

\* A new version is above all of its name, and so not stored.
LEMMA NewVersions ==
    ASSUME RegistryInv, NEW items, NEW I, Newcomers(items, I)
    PROVE  \A i \in I :
              /\ Key(items[i]) \notin DOMAIN entries
              /\ \A v \in Range(versions[items[i].name]) : v < items[i].version
<1> SUFFICES ASSUME NEW i \in I
             PROVE  /\ Key(items[i]) \notin DOMAIN entries
                    /\ \A v \in Range(versions[items[i].name]) : v < items[i].version
  OBVIOUS
<1>1. /\ items[i].name \in Names /\ items[i].version \in Nat
      /\ ValidRegistration(items[i].name, items[i].version)
  BY ItemTypes DEF Newcomers
<1>2. PICK n, v : n = items[i].name /\ v = items[i].version
  OBVIOUS
<1>3. PICK list \in Seq(Nat) : list = versions[n]
  <2>1. versions[n] \in Seq(Nat)
    BY <1>1, <1>2, VersionLists
  <2> QED
    BY <2>1
<1>4. Ascending(list)
  BY <1>1, <1>2, <1>3, VersionLists
<1>5. ASSUME NEW w \in Range(list) PROVE w < v
  <2>1. list # << >> /\ w \in Nat
    BY <1>5, RangeFinite DEF Range
  <2>2. w <= list[Len(list)]
    BY <1>4, <2>1, LastGreatest
  <2>3. v > list[Len(list)] /\ list[Len(list)] \in Nat
    BY <1>1, <1>2, <1>3, <2>1 DEF ValidRegistration
  <2> QED
    BY <1>1, <1>2, <2>1, <2>2, <2>3
<1> QED
  BY <1>1, <1>2, <1>3, <1>5 DEF ValidRegistration, Key

\* No two of the items have the same name and version.
LEMMA NewKeysDiffer ==
    ASSUME NEW items, NEW I, Newcomers(items, I)
    PROVE  \A i, j \in I : Key(items[i]) = Key(items[j]) => i = j
<1> SUFFICES ASSUME NEW i \in I, NEW j \in I, Key(items[i]) = Key(items[j])
             PROVE  i = j
  OBVIOUS
<1>1. /\ items[i].name = items[j].name /\ items[i].version = items[j].version
      /\ items[i].version \in Nat /\ i \in Nat /\ j \in Nat
  BY ItemTypes
<1>2. ~(i < j) /\ ~(j < i)
  BY <1>1 DEF Newcomers
<1> QED
  BY <1>1, <1>2

\* What becomes of the entries.
LEMMA EntriesWritten ==
    ASSUME RegistryInv, NEW items, NEW I, Newcomers(items, I), NEW caller,
           WriteEntries(caller, items, I)
    PROVE  /\ DOMAIN entries' = DOMAIN entries \cup {Key(items[i]) : i \in I}
           /\ \A k \in DOMAIN entries : entries'[k] = entries[k]
           /\ \A i \in I : entries'[Key(items[i])] =
                 [address |-> items[i].address, by |-> caller, retired |-> None]
           /\ entries' = [k \in DOMAIN entries' |-> entries'[k]]
<1> DEFINE written == {Key(items[i]) : i \in I}
           source(k) == CHOOSE i \in I : Key(items[i]) = k
<1>1. entries' = [k \in DOMAIN entries \cup written |->
                    IF k \in written
                      THEN [address |-> items[source(k)].address, by |-> caller, retired |-> None]
                      ELSE entries[k]]
  BY DEF WriteEntries
<1>2. \A i \in I : source(Key(items[i])) = i
  BY NewKeysDiffer
<1>3. \A k \in DOMAIN entries : k \notin written
  BY NewVersions
<1>4. \A i \in I : Key(items[i]) \in written
  OBVIOUS
<1> HIDE DEF source
<1>5. \A i \in I : entries'[Key(items[i])] =
         [address |-> items[i].address, by |-> caller, retired |-> None]
  BY <1>1, <1>2, <1>4
<1> HIDE DEF written
<1>6. DOMAIN entries' = DOMAIN entries \cup written
  BY <1>1
<1>7. \A k \in DOMAIN entries : entries'[k] = entries[k]
  BY <1>1, <1>3
<1>8. entries' = [k \in DOMAIN entries' |-> entries'[k]]
  BY <1>1
<1> QED
  BY <1>5, <1>6, <1>7, <1>8 DEF written

\* What becomes of the version lists.
LEMMA VersionsWritten ==
    ASSUME RegistryInv, NEW items, NEW I, Newcomers(items, I), NEW caller,
           WriteEntries(caller, items, I), NEW n \in Names
    PROVE  \E added \in Seq(1 .. MaxVersion) :
              /\ versions'[n] = versions[n] \o added
              /\ Range(added) = VersionsAdded(items, I, n)
              /\ Ascending(versions'[n])
<1>1. versions' = [k \in Names |-> versions[k] \o
                     Kept([i \in DOMAIN items |-> items[i].version],
                          {i \in I : items[i].name = k})]
  BY DEF WriteEntries
<1>2. PICK m \in Nat : DOMAIN items = 1 .. m
  BY DEF Newcomers
<1>3. PICK vs : vs = [i \in DOMAIN items |-> items[i].version]
  OBVIOUS
<1>4. vs \in Seq(Nat) /\ Len(vs) = m /\ \A i \in 1 .. m : vs[i] = items[i].version
  <2>1. vs \in [1 .. m -> Nat]
    BY <1>2, <1>3, ItemTypes
  <2> QED
    BY <1>2, <1>3, <2>1
<1>5. PICK P : P = {i \in I : items[i].name = n}
  OBVIOUS
<1>6. P \in SUBSET (1 .. Len(vs)) /\ P \subseteq I
  BY <1>2, <1>4, <1>5, ItemTypes
<1>7. PICK added : added = Kept(vs, P)
  OBVIOUS
<1>8. added \in Seq(Nat) /\ Range(added) = {vs[i] : i \in P}
  BY <1>4, <1>6, <1>7, KeptElements
<1>9. \A i \in P : vs[i] = items[i].version /\ vs[i] \in 1 .. MaxVersion
  BY <1>4, <1>6, ItemTypes
<1>10. Range(added) = {items[i].version : i \in P} /\ Range(added) \subseteq 1 .. MaxVersion
  BY <1>8, <1>9
<1>11. added \in Seq(1 .. MaxVersion)
  BY <1>8, <1>10, SeqOver
<1>12. \A i, j \in P : i < j => vs[i] < vs[j]
  BY <1>5, <1>6, <1>9 DEF Newcomers
<1>13. Ascending(added)
  BY <1>4, <1>6, <1>7, <1>12, KeptAscends
<1>14. PICK list : list = versions[n]
  OBVIOUS
<1>15. list \in Seq(Nat) /\ Ascending(list)
  BY <1>14, VersionLists
<1>16. \A x \in Range(list), y \in Range(added) : x < y
  BY <1>5, <1>6, <1>10, <1>14, NewVersions
<1>17. Ascending(list \o added)
  BY <1>8, <1>13, <1>15, <1>16, ConcatAscends
<1>18. versions'[n] = list \o added
  BY <1>1, <1>3, <1>5, <1>7, <1>14
<1>19. Range(added) = VersionsAdded(items, I, n)
  BY <1>5, <1>10 DEF VersionsAdded
<1> QED
  BY <1>11, <1>14, <1>17, <1>18, <1>19

\* Every version list names the stored versions, and goes on ascending.
LEMMA WriteKeepsVersions ==
    ASSUME RegistryInv, NEW items, NEW I, Newcomers(items, I), NEW caller,
           WriteEntries(caller, items, I)
    PROVE  /\ versions' \in [Names -> Seq(1 .. MaxVersion)]
           /\ \A n \in Names :
                 /\ Ascending(versions'[n])
                 /\ Range(versions'[n]) = {v \in 1 .. MaxVersion : <<n, v>> \in DOMAIN entries'}
                 /\ versions'[n] # << >> <=>
                      versions[n] # << >> \/ \E i \in I : items[i].name = n
<1>1. ASSUME NEW n \in Names
      PROVE  /\ versions'[n] \in Seq(1 .. MaxVersion)
             /\ Ascending(versions'[n])
             /\ Range(versions'[n]) = {v \in 1 .. MaxVersion : <<n, v>> \in DOMAIN entries'}
             /\ versions'[n] # << >> <=> versions[n] # << >> \/ \E i \in I : items[i].name = n
  <2>1. PICK added \in Seq(1 .. MaxVersion) :
           /\ versions'[n] = versions[n] \o added
           /\ Range(added) = VersionsAdded(items, I, n)
           /\ Ascending(versions'[n])
    BY VersionsWritten
  <2>2. PICK list \in Seq(1 .. MaxVersion) : list = versions[n]
    BY VersionLists
  <2>3. Range(list) = {v \in 1 .. MaxVersion : <<n, v>> \in DOMAIN entries}
    BY <2>2 DEF RegistryInv, VersionsExact
  <2>4. list \o added \in Seq(1 .. MaxVersion) /\ Range(list \o added) = Range(list) \cup Range(added)
    BY ConcatElements
  <2>5. \A v \in 1 .. MaxVersion :
           <<n, v>> \in DOMAIN entries' <=> <<n, v>> \in DOMAIN entries \/ v \in Range(added)
    <3>1. DOMAIN entries' = DOMAIN entries \cup {Key(items[i]) : i \in I}
      BY EntriesWritten
    <3>2. ASSUME NEW v \in 1 .. MaxVersion
          PROVE  <<n, v>> \in {Key(items[i]) : i \in I} <=> v \in Range(added)
      <4>1. ASSUME NEW i \in I
            PROVE  Key(items[i]) = <<n, v>> <=> items[i].name = n /\ items[i].version = v
        BY ItemTypes
      <4>2. v \in Range(added) <=> \E i \in I : items[i].name = n /\ items[i].version = v
        BY <2>1 DEF VersionsAdded
      <4> QED
        BY <4>1, <4>2
    <3> QED
      BY <3>1, <3>2
  <2>6. Range(list \o added) = {v \in 1 .. MaxVersion : <<n, v>> \in DOMAIN entries'}
    <3>1. Range(added) \subseteq 1 .. MaxVersion
      BY RangeFinite
    <3> QED
      BY <2>3, <2>4, <2>5, <3>1
  <2>7. list \o added # << >> <=> list # << >> \/ added # << >>
    OBVIOUS
  <2>8. added # << >> <=> \E i \in I : items[i].name = n
    <3>1. added # << >> <=> Range(added) # {}
      BY DEF Range
    <3> QED
      BY <2>1, <3>1 DEF VersionsAdded
  <2> QED
    BY <2>1, <2>2, <2>4, <2>6, <2>7, <2>8
<1>2. versions' = [n \in Names |-> versions'[n]]
  BY DEF WriteEntries
<1> QED
  BY <1>1, <1>2

\* Every name with a version is listed, once.
LEMMA WriteKeepsNames ==
    ASSUME RegistryInv, NEW items, NEW I, Newcomers(items, I), NEW caller,
           WriteEntries(caller, items, I)
    PROVE  /\ names' \in Seq(Names)
           /\ IsInjective(names')
           /\ Range(names') = {n \in Names : versions'[n] # << >>}
<1> DEFINE first == {i \in I : /\ versions[items[i].name] = << >>
                               /\ \A j \in I : items[j].name = items[i].name => i <= j}
<1>1. PICK m \in Nat : DOMAIN items = 1 .. m
  BY DEF Newcomers
<1>2. PICK ns : ns = [i \in DOMAIN items |-> items[i].name]
  OBVIOUS
<1>3. ns \in Seq(Names) /\ Len(ns) = m /\ \A i \in 1 .. m : ns[i] = items[i].name
  <2>1. ns \in [1 .. m -> Names]
    BY <1>1, <1>2, ItemTypes
  <2> QED
    BY <1>1, <1>2, <2>1
<1>4. names' = names \o Kept(ns, first)
  BY <1>2 DEF WriteEntries, WriteNames
<1>5. I \subseteq 1 .. m /\ I \subseteq Nat /\ first \in SUBSET (1 .. Len(ns))
  BY <1>1, <1>3, ItemTypes
<1>6. \A i, j \in first : ns[i] = ns[j] => i = j
  <2> SUFFICES ASSUME NEW i \in first, NEW j \in first, ns[i] = ns[j] PROVE i = j
    OBVIOUS
  <2>1. i <= j /\ j <= i /\ i \in Nat /\ j \in Nat
    BY <1>3, <1>5
  <2> QED
    BY <2>1
<1>7. PICK added : added = Kept(ns, first)
  OBVIOUS
<1>8. added \in Seq(Names) /\ Range(added) = {ns[i] : i \in first} /\ IsInjective(added)
  BY <1>3, <1>5, <1>6, <1>7, KeptElements
<1>9. Range(added) = {n \in Names : versions[n] = << >> /\ \E i \in I : items[i].name = n}
  <2>1. ASSUME NEW n \in Names, versions[n] = << >>, NEW k \in I, items[k].name = n
        PROVE  \E i \in first : ns[i] = n
    <3>1. PICK T : T = {i \in I : items[i].name = n}
      OBVIOUS
    <3>2. T \in SUBSET Nat /\ T # {}
      BY <1>5, <2>1, <3>1
    <3>3. PICK i \in T : \A j \in T : i <= j
      BY <3>2, Least
    <3>4. i \in first
      BY <2>1, <3>1, <3>3
    <3> QED
      BY <1>3, <1>5, <3>1, <3>3, <3>4
  <2>2. ASSUME NEW i \in first
        PROVE  ns[i] \in Names /\ versions[ns[i]] = << >> /\ items[i].name = ns[i] /\ i \in I
    BY <1>1, <1>3, <1>5, ItemTypes
  <2> QED
    BY <1>8, <2>1, <2>2
<1>10. /\ names \in Seq(Names) /\ IsInjective(names)
       /\ Range(names) = {n \in Names : versions[n] # << >>}
  BY DEF RegistryInv, TypeOK, VersionsExact
<1>11. names' = names \o added
  BY <1>4, <1>7
<1> HIDE DEF first
<1>12. Range(names) \cap Range(added) = {}
  BY <1>9, <1>10
<1>13. /\ names' \in Seq(Names) /\ Range(names') = Range(names) \cup Range(added)
       /\ IsInjective(names')
  BY <1>8, <1>10, <1>11, <1>12, ConcatElements
<1> QED
  BY <1>9, <1>10, <1>13, WriteKeepsVersions

\* The last of the items with an address.
LEMMA LastOfAddress ==
    ASSUME NEW items, NEW I, Newcomers(items, I), NEW a \in {items[i].address : i \in I}
    PROVE  \E i \in I : /\ items[i].address = a
                        /\ \A j \in I : items[j].address = a => j <= i
<1>1. PICK m \in Nat : DOMAIN items = 1 .. m
  BY DEF Newcomers
<1>2. PICK F : F = {i \in I : items[i].address = a}
  OBVIOUS
<1>3. F \in SUBSET (1 .. m) /\ F # {}
  BY <1>1, <1>2, ItemTypes
<1>4. PICK g : g = [i \in F |-> i]
  OBVIOUS
<1>5. \A i \in F : g[i] = i /\ g[i] \in Int
  BY <1>3, <1>4
<1>6. PICK i \in F : \A j \in F : g[i] > g[j] \/ (g[i] = g[j] /\ i <= j)
  BY <1>3, <1>5, FirstGreatest
<1>7. \A j \in F : j <= i
  BY <1>3, <1>5, <1>6
<1> QED
  BY <1>2, <1>7

\* What becomes of the address index.
LEMMA IndexWritten ==
    ASSUME NEW items, NEW I, Newcomers(items, I), NEW caller, WriteEntries(caller, items, I)
    PROVE  /\ DOMAIN index' = DOMAIN index \cup {items[i].address : i \in I}
           /\ \A a \in DOMAIN index :
                 a \notin {items[i].address : i \in I} => index'[a] = index[a]
           /\ \A a \in {items[i].address : i \in I} :
                 \E i \in I : /\ items[i].address = a
                              /\ \A j \in I : items[j].address = a => j <= i
                              /\ index'[a] = Key(items[i])
           /\ index' = [a \in DOMAIN index' |-> index'[a]]
<1> DEFINE written == {items[i].address : i \in I}
           last(a) == CHOOSE i \in I : /\ items[i].address = a
                                       /\ \A j \in I : items[j].address = a => j <= i
<1>1. index' = [a \in DOMAIN index \cup written |->
                  IF a \in written THEN Key(items[last(a)]) ELSE index[a]]
  BY DEF WriteEntries, WriteIndex
<1>2. ASSUME NEW a \in written
      PROVE  /\ last(a) \in I /\ items[last(a)].address = a
             /\ \A j \in I : items[j].address = a => j <= last(a)
  BY LastOfAddress
<1> HIDE DEF last
<1>3. ASSUME NEW a \in written
      PROVE  \E i \in I : /\ items[i].address = a
                          /\ \A j \in I : items[j].address = a => j <= i
                          /\ index'[a] = Key(items[i])
  <2>1. index'[a] = Key(items[last(a)])
    BY <1>1
  <2> QED
    BY <1>2, <2>1
<1> HIDE DEF written
<1>4. DOMAIN index' = DOMAIN index \cup written
  BY <1>1
<1>5. \A a \in DOMAIN index : a \notin written => index'[a] = index[a]
  BY <1>1
<1>6. index' = [a \in DOMAIN index' |-> index'[a]]
  BY <1>1
<1> QED
  BY <1>3, <1>4, <1>5, <1>6 DEF written

\* The address index goes on following the entries.
LEMMA WriteKeepsIndex ==
    ASSUME RegistryInv, NEW items, NEW I, Newcomers(items, I), NEW caller,
           WriteEntries(caller, items, I)
    PROVE  IndexFollows'
<1> DEFINE written == {items[i].address : i \in I}
<1>1. /\ DOMAIN entries' = DOMAIN entries \cup {Key(items[i]) : i \in I}
      /\ \A k \in DOMAIN entries : entries'[k] = entries[k]
      /\ \A i \in I : entries'[Key(items[i])].address = items[i].address
  <2>1. /\ DOMAIN entries' = DOMAIN entries \cup {Key(items[i]) : i \in I}
        /\ \A k \in DOMAIN entries : entries'[k] = entries[k]
        /\ \A i \in I : entries'[Key(items[i])] =
              [address |-> items[i].address, by |-> caller, retired |-> None]
        /\ entries' = [k \in DOMAIN entries' |-> entries'[k]]
    BY EntriesWritten
  <2>2. \A i \in I : entries'[Key(items[i])].address = items[i].address
    <3> SUFFICES ASSUME NEW i \in I PROVE entries'[Key(items[i])].address = items[i].address
      OBVIOUS
    <3>1. entries'[Key(items[i])] =
            [address |-> items[i].address, by |-> caller, retired |-> None]
      BY <2>1
    <3> QED
      BY <3>1
  <2> QED
    BY <2>1, <2>2
<1>2. /\ DOMAIN index' = DOMAIN index \cup written
      /\ \A a \in DOMAIN index : a \notin written => index'[a] = index[a]
      /\ \A a \in written : \E i \in I : /\ items[i].address = a
                                         /\ \A j \in I : items[j].address = a => j <= i
                                         /\ index'[a] = Key(items[i])
  BY IndexWritten
<1>3. /\ DOMAIN index = {entries[k].address : k \in DOMAIN entries}
      /\ \A a \in DOMAIN index :
            /\ index[a] \in DOMAIN entries
            /\ entries[index[a]].address = a
            /\ \A k \in DOMAIN entries :
                  entries[k].address = a /\ k[1] = index[a][1] => k[2] <= index[a][2]
  BY DEF RegistryInv, IndexFollows
<1>4. DOMAIN index' = {entries'[k].address : k \in DOMAIN entries'}
  BY <1>1, <1>2, <1>3
<1>5. ASSUME NEW a \in DOMAIN index'
      PROVE  /\ index'[a] \in DOMAIN entries'
             /\ entries'[index'[a]].address = a
             /\ \A k \in DOMAIN entries' :
                   entries'[k].address = a /\ k[1] = index'[a][1] => k[2] <= index'[a][2]
  <2>1. CASE a \notin written
    <3>1. /\ a \in DOMAIN index /\ index'[a] = index[a]
          /\ \A i \in I : entries'[Key(items[i])].address # a
      BY <1>1, <1>2, <1>5, <2>1
    <3> QED
      BY <1>1, <1>3, <3>1
  <2>2. CASE a \in written
    <3>1. PICK i \in I : /\ items[i].address = a
                         /\ \A j \in I : items[j].address = a => j <= i
                         /\ index'[a] = Key(items[i])
      BY <1>2, <2>2
    <3>2. index'[a] \in DOMAIN entries' /\ entries'[index'[a]].address = a
      BY <1>1, <3>1
    <3>3. ASSUME NEW k \in DOMAIN entries', entries'[k].address = a, k[1] = items[i].name
          PROVE  k[2] <= items[i].version
      <4>1. CASE k \in DOMAIN entries
        <5>1. k \in Keys
          BY <4>1 DEF RegistryInv, TypeOK
        <5>2. k = <<k[1], k[2]>> /\ k[1] \in Names /\ k[2] \in 1 .. MaxVersion
          BY <5>1 DEF Keys
        <5>3. k[2] \in Range(versions[k[1]])
          BY <4>1, <5>2 DEF RegistryInv, VersionsExact
        <5>4. k[2] < items[i].version
          BY <3>3, <5>3, NewVersions
        <5>5. k[2] \in Nat /\ items[i].version \in Nat
          BY <5>2, ItemTypes, RegistryNumbers
        <5> QED
          BY <5>4, <5>5
      <4>2. CASE k \notin DOMAIN entries
        <5>1. PICK j \in I : k = Key(items[j])
          BY <1>1, <4>2
        <5>2. items[j].address = a /\ items[j].name = items[i].name /\ k[2] = items[j].version
          BY <1>1, <3>3, <5>1, ItemTypes
        <5>3. j <= i /\ i \in Nat /\ j \in Nat /\ items[j].version \in Nat /\ items[i].version \in Nat
          BY <3>1, <5>2, ItemTypes
        <5>4. j < i => items[j].version < items[i].version
          BY <5>2 DEF Newcomers
        <5> QED
          BY <5>2, <5>3, <5>4
      <4> QED
        BY <4>1, <4>2
    <3>4. Key(items[i])[1] = items[i].name /\ Key(items[i])[2] = items[i].version
      BY ItemTypes
    <3> QED
      BY <3>1, <3>2, <3>3, <3>4
  <2> QED
    BY <2>1, <2>2
<1> QED
  BY <1>4, <1>5 DEF IndexFollows

\* Entering items keeps every index exact.
LEMMA WriteStep ==
    ASSUME RegistryInv, NEW items, NEW I, Newcomers(items, I), NEW caller \in Addresses,
           WriteEntries(caller, items, I)
    PROVE  RegistryInv'
<1>1. /\ DOMAIN entries' = DOMAIN entries \cup {Key(items[i]) : i \in I}
      /\ \A k \in DOMAIN entries : entries'[k] = entries[k]
      /\ \A i \in I : entries'[Key(items[i])] =
            [address |-> items[i].address, by |-> caller, retired |-> None]
      /\ entries' = [k \in DOMAIN entries' |-> entries'[k]]
  BY EntriesWritten
<1>2. TypeOK
  BY DEF RegistryInv
<1>3. DOMAIN entries' \subseteq Keys
  BY <1>1, <1>2, ItemTypes DEF TypeOK
<1>4. ASSUME NEW k \in DOMAIN entries'
      PROVE  entries'[k] \in Entries
  <2>1. CASE k \in DOMAIN entries
    BY <1>1, <1>2, <2>1 DEF TypeOK
  <2>2. CASE k \notin DOMAIN entries
    <3>1. PICK i \in I : k = Key(items[i])
      BY <1>1, <2>2
    <3>2. i \in DOMAIN items /\ items[i].address \in Contracts
      BY ItemTypes
    <3>3. PICK address \in Contracts : address = items[i].address
      BY <3>2
    <3>4. entries'[k] = [address |-> address, by |-> caller, retired |-> None]
      BY <1>1, <3>1, <3>3
    <3> QED
      BY <3>4 DEF Entries
  <2> QED
    BY <2>1, <2>2
<1>5. entries' \in [DOMAIN entries' -> Entries]
  BY <1>1, <1>4
<1>6. DOMAIN index' \subseteq Contracts /\ index' \in [DOMAIN index' -> Keys]
  <2>1. /\ DOMAIN index' = {entries'[k].address : k \in DOMAIN entries'}
        /\ \A a \in DOMAIN index' : index'[a] \in DOMAIN entries'
    BY WriteKeepsIndex DEF IndexFollows
  <2>2. index' = [a \in DOMAIN index' |-> index'[a]]
    BY IndexWritten
  <2>3. \A k \in DOMAIN entries' : entries'[k].address \in Contracts
    BY <1>4 DEF Entries
  <2> QED
    BY <1>3, <2>1, <2>2, <2>3
<1>7. admin' = admin
  BY DEF WriteEntries
<1>8. TypeOK'
  BY <1>2, <1>3, <1>5, <1>6, <1>7, WriteKeepsVersions, WriteKeepsNames DEF TypeOK
<1>9. VersionsExact'
  BY WriteKeepsVersions, WriteKeepsNames DEF VersionsExact
<1> QED
  BY <1>8, <1>9, WriteKeepsIndex DEF RegistryInv

\* Entries are retired in place.
LEMMA RetireParts ==
    ASSUME RegistryInv, NEW keys, NEW reason, \A k \in keys : reason[k] \in Reasons,
           Retire(keys, reason)
    PROVE  /\ DOMAIN entries' = DOMAIN entries
           /\ \A k \in DOMAIN entries :
                 /\ entries'[k] \in Entries
                 /\ entries'[k].address = entries[k].address
                 /\ entries'[k].by = entries[k].by
                 /\ entries[k].retired # None => entries'[k].retired = entries[k].retired
           /\ entries' \in [DOMAIN entries' -> Entries]
           /\ UNCHANGED <<admin, versions, names, index>>
<1>1. /\ entries' = [k \in DOMAIN entries |->
                       IF k \in keys /\ Current(k)
                         THEN [entries[k] EXCEPT !.retired = reason[k]]
                         ELSE entries[k]]
      /\ UNCHANGED <<admin, versions, names, index>>
  BY DEF Retire
<1>2. ASSUME NEW k \in DOMAIN entries
      PROVE  /\ entries'[k] \in Entries
             /\ entries'[k].address = entries[k].address
             /\ entries'[k].by = entries[k].by
             /\ entries[k].retired # None => entries'[k].retired = entries[k].retired
  <2>1. entries[k] \in Entries
    BY DEF RegistryInv, TypeOK
  <2>2. CASE k \in keys /\ Current(k)
    <3>1. entries'[k] = [entries[k] EXCEPT !.retired = reason[k]]
      BY <1>1, <2>2
    <3>2. reason[k] \in Reasons /\ entries[k].retired = None
      BY <2>2 DEF Current
    <3> QED
      BY <2>1, <3>1, <3>2 DEF Entries
  <2>3. CASE ~(k \in keys /\ Current(k))
    BY <1>1, <2>1, <2>3
  <2> QED
    BY <2>2, <2>3
<1>3. DOMAIN entries' = DOMAIN entries /\ entries' = [k \in DOMAIN entries' |-> entries'[k]]
  BY <1>1
<1> QED
  BY <1>1, <1>2, <1>3

LEMMA RetireStep ==
    ASSUME RegistryInv, NEW keys, NEW reason, \A k \in keys : reason[k] \in Reasons,
           Retire(keys, reason)
    PROVE  RegistryInv'
<1>1. /\ DOMAIN entries' = DOMAIN entries
      /\ \A k \in DOMAIN entries : entries'[k].address = entries[k].address
      /\ entries' \in [DOMAIN entries' -> Entries]
      /\ UNCHANGED <<admin, versions, names, index>>
  BY RetireParts
<1>2. TypeOK'
  BY <1>1 DEF RegistryInv, TypeOK
<1>3. VersionsExact'
  BY <1>1 DEF RegistryInv, VersionsExact
<1>4. IndexFollows'
  BY <1>1 DEF RegistryInv, IndexFollows
<1> QED
  BY <1>2, <1>3, <1>4 DEF RegistryInv

-----------------------------------------------------------------------------
(* The registry: the entry points.                                         *)

LEMMA BatchIs ==
    ASSUME NEW S, NEW items \in BatchesOf(S)
    PROVE  items \in Seq(S)
<1>1. PICK k \in 0 .. MaxBatch : items \in [1 .. k -> S]
  BY DEF BatchesOf
<1>2. k \in Nat
  BY RegistryNumbers
<1> QED
  BY <1>1, <1>2

\* The items a bulk registration enters.
LEMMA AcceptedAreNew ==
    ASSUME NEW items \in Seq(Registrations)
    PROVE  Newcomers(items, Accepted(items))
<1>1. \A i \in DOMAIN items : i \in Nat /\ i >= 1
  OBVIOUS
<1>2. \A i, j \in DOMAIN items : j < i => j \in 1 .. i - 1
  BY <1>1
<1> QED
  BY <1>1, <1>2 DEF Newcomers, Accepted

\* A single registration is a batch of one.
LEMMA SingleIsNew ==
    ASSUME NEW n \in Names, NEW address \in Contracts, NEW v \in 0 .. MaxVersion,
           ValidRegistration(n, v)
    PROVE  Newcomers(<<[name |-> n, address |-> address, version |-> v]>>, {1})
<1>1. PICK item : item = [name |-> n, address |-> address, version |-> v]
  OBVIOUS
<1>2. item \in Registrations
  BY <1>1 DEF Registrations
<1>3. <<item>> \in Seq(Registrations) /\ DOMAIN <<item>> = {1} /\ <<item>>[1] = item
  BY <1>2
<1>4. Newcomers(<<item>>, {1})
  BY <1>1, <1>3 DEF Newcomers
<1> QED
  BY <1>1, <1>4

\* The reasons a batch of deprecations gives.
LEMMA ReasonsGiven ==
    ASSUME NEW items \in Seq(Deprecations), NEW failFast,
           NEW k \in {items[i].key : i \in Deprecable(items, failFast)}
    PROVE  items[CHOOSE i \in Deprecable(items, failFast) : items[i].key = k].reason \in Reasons
<1>1. PICK done : done = Deprecable(items, failFast)
  OBVIOUS
<1>2. done \subseteq DOMAIN items
  BY <1>1 DEF Deprecable
<1>3. PICK c : c = CHOOSE i \in done : items[i].key = k
  OBVIOUS
<1>4. c \in done
  BY <1>1, <1>3
<1>5. items[c] \in Deprecations
  BY <1>2, <1>4
<1> QED
  BY <1>1, <1>3, <1>5 DEF Deprecations

\* What each step does: nothing to the entries, or enter items, or retire some.
LEMMA RegistrySteps ==
    ASSUME RegistryInv, [Next]_vars
    PROVE  \/ /\ UNCHANGED <<entries, versions, names, index>>
              /\ admin' \in Addresses \cup {None}
           \/ \E items, I : \E caller \in Addresses :
                 Newcomers(items, I) /\ WriteEntries(caller, items, I)
           \/ \E keys, reason : (\A k \in keys : reason[k] \in Reasons) /\ Retire(keys, reason)
<1> DEFINE Stays == /\ UNCHANGED <<entries, versions, names, index>>
                    /\ admin' \in Addresses \cup {None}
           Writes == \E items, I : \E caller \in Addresses :
                        Newcomers(items, I) /\ WriteEntries(caller, items, I)
           Retires == \E keys, reason :
                         (\A k \in keys : reason[k] \in Reasons) /\ Retire(keys, reason)
<1>0. CASE UNCHANGED vars
  BY <1>0 DEF vars, RegistryInv, TypeOK
<1>1. ASSUME NEW a \in Addresses, Initialize(a)
      PROVE  Stays
  BY <1>1 DEF Initialize
<1>2. ASSUME NEW a \in Addresses, NEW items \in BatchesOf(Registrations), NEW f \in BOOLEAN,
             BulkRegister(a, items, f)
      PROVE  Writes
  <2>1. Newcomers(items, Accepted(items))
    BY BatchIs, AcceptedAreNew
  <2> QED
    BY <1>2, <2>1 DEF BulkRegister
<1>3. ASSUME NEW a \in Addresses, NEW n \in Names, NEW c \in Contracts, NEW v \in 0 .. MaxVersion,
             Register(a, n, c, v)
      PROVE  Writes
  <2>1. Newcomers(<<[name |-> n, address |-> c, version |-> v]>>, {1})
    BY <1>3, SingleIsNew DEF Register
  <2> QED
    BY <1>3, <2>1 DEF Register
<1>4. ASSUME NEW a \in Addresses, NEW k \in Keys, NEW r \in Reasons, Deprecate(a, k, r)
      PROVE  Retires
  <2>1. \A x \in {k} : [y \in {k} |-> r][x] \in Reasons
    OBVIOUS
  <2> QED
    BY <1>4, <2>1 DEF Deprecate
<1>5. ASSUME NEW a \in Addresses, NEW n \in Names, NEW r \in Reasons, DeprecateAllVersions(a, n, r)
      PROVE  Retires
  <2>1. PICK keys : keys = {n} \X Range(versions[n])
    OBVIOUS
  <2>2. \A x \in keys : [y \in keys |-> r][x] \in Reasons
    OBVIOUS
  <2> QED
    BY <1>5, <2>1, <2>2 DEF DeprecateAllVersions
<1>6. ASSUME NEW a \in Addresses, NEW items \in BatchesOf(Deprecations), NEW f \in BOOLEAN,
             DeprecateMany(a, items, f)
      PROVE  Retires
  <2>1. items \in Seq(Deprecations)
    BY BatchIs
  <2>2. PICK reason : reason = [k \in {items[i].key : i \in Deprecable(items, f)} |->
           items[CHOOSE i \in Deprecable(items, f) : items[i].key = k].reason]
    OBVIOUS
  <2>3. \A k \in DOMAIN reason : reason[k] \in Reasons
    <3> SUFFICES ASSUME NEW k \in {items[i].key : i \in Deprecable(items, f)}
                 PROVE  reason[k] \in Reasons
      BY <2>2
    <3>1. items[CHOOSE i \in Deprecable(items, f) : items[i].key = k].reason \in Reasons
      BY <2>1, ReasonsGiven
    <3> QED
      BY <2>2, <3>1
  <2>4. Retire(DOMAIN reason, reason)
    BY <1>6, <2>2 DEF DeprecateMany
  <2> QED
    BY <2>3, <2>4
<1>7. ASSUME NEW a \in Addresses, NEW b \in Addresses, TransferAdmin(a, b)
      PROVE  Stays
  BY <1>7 DEF TransferAdmin
<1> HIDE DEF Stays, Writes, Retires
<1>8. Stays \/ Writes \/ Retires
  <2>1. CASE Next
    BY <2>1, <1>1, <1>2, <1>3, <1>4, <1>5, <1>6, <1>7 DEF Next, RegisterWithCheck
  <2>2. CASE UNCHANGED vars
    BY <2>2, <1>0 DEF Stays, Writes, Retires
  <2> QED
    BY <2>1, <2>2
<1> QED
  BY <1>8 DEF Stays, Writes, Retires

LEMMA RegistryInit == Init => RegistryInv
<1> SUFFICES ASSUME Init PROVE RegistryInv
  OBVIOUS
<1>1. /\ admin = None /\ entries = << >> /\ versions = [n \in Names |-> << >>]
      /\ names = << >> /\ index = << >>
  BY DEF Init
<1>2. DOMAIN entries = {} /\ DOMAIN index = {} /\ DOMAIN names = {}
  BY <1>1
<1>3. TypeOK
  BY <1>1, <1>2 DEF TypeOK
<1>4. Range(names) = {} /\ IsInjective(names)
  BY <1>2 DEF Range, IsInjective
<1>5. \A n \in Names : versions[n] = << >> /\ Ascending(versions[n]) /\ Range(versions[n]) = {}
  BY <1>1 DEF Ascending, Range
<1>6. VersionsExact
  BY <1>2, <1>4, <1>5 DEF VersionsExact
<1>7. IndexFollows
  BY <1>2 DEF IndexFollows
<1> QED
  BY <1>3, <1>6, <1>7 DEF RegistryInv

LEMMA RegistryStep == RegistryInv /\ [Next]_vars => RegistryInv'
<1> SUFFICES ASSUME RegistryInv, [Next]_vars PROVE RegistryInv'
  OBVIOUS
<1>1. ASSUME UNCHANGED <<entries, versions, names, index>>, admin' \in Addresses \cup {None}
      PROVE  RegistryInv'
  BY <1>1 DEF RegistryInv, TypeOK, VersionsExact, IndexFollows
<1> QED
  BY <1>1, RegistrySteps, WriteStep, RetireStep

LEMMA RegistryInvHolds == Spec => []RegistryInv
  BY RegistryInit, RegistryStep, PTL DEF Spec

LEMMA InvGivesIndexes == RegistryInv => IndexesExact
<1> SUFFICES ASSUME RegistryInv, NEW a \in Contracts
             PROVE  LET keys == {k \in DOMAIN entries : entries[k].address = a}
                    IN  IF keys = {}
                          THEN EntryByAddress(a) = None
                          ELSE /\ index[a] \in keys
                               /\ EntryByAddress(a) = entries[index[a]]
                               /\ \A k \in keys : k[1] = index[a][1] => k[2] <= index[a][2]
  BY DEF RegistryInv, IndexesExact, AddressIndexNewest
<1>1. a \in DOMAIN index <=> \E k \in DOMAIN entries : entries[k].address = a
  BY DEF RegistryInv, IndexFollows
<1> QED
  BY <1>1 DEF RegistryInv, IndexFollows, EntryByAddress, Get

\* The version lists, the list of names and the index of addresses say what the
\* entries say, after any sequence of registrations, batches and deprecations.
THEOREM IndexesStayExact == Spec => []IndexesExact
  BY RegistryInvHolds, InvGivesIndexes, PTL

-----------------------------------------------------------------------------
(* The registry: lookups.                                                  *)

\* Every listed version has an entry, so the walk stops at the first version
\* that is allowed and current.
LEMMA WalkIs ==
    ASSUME RegistryInv, NEW n \in Names, NEW allowed \in SUBSET Range(versions[n])
    PROVE  LET current == {v \in allowed : Current(<<n, v>>)}
           IN  LatestMatching(n, allowed) =
                 IF allowed = {} THEN Error("NotFound")
                 ELSE IF current = {} THEN Error("AllVersionsDeprecated")
                 ELSE Found(CHOOSE v \in current : \A w \in current : w <= v)
<1> DEFINE current == {v \in allowed : Current(<<n, v>>)}
           hits == {i \in DOMAIN versions[n] : versions[n][i] \in allowed}
           stops == {i \in hits : LET k == <<n, versions[n][i]>>
                                  IN  k \in DOMAIN entries => Current(k)}
           last == CHOOSE i \in stops : \A j \in stops : j <= i
           best == CHOOSE v \in current : \A w \in current : w <= v
<1>1. PICK list \in Seq(Nat) : list = versions[n] /\ Ascending(list)
  <2>1. versions[n] \in Seq(Nat) /\ Ascending(versions[n])
    BY VersionLists
  <2> QED
    BY <2>1
<1>2. PICK m \in Nat : m = Len(list) /\ DOMAIN list = 1 .. m /\ \A i \in 1 .. m : list[i] \in Nat
  OBVIOUS
<1>3. \A i \in DOMAIN list : <<n, list[i]>> \in DOMAIN entries
  <2>1. \A i \in DOMAIN list : list[i] \in Range(list)
    BY DEF Range
  <2> QED
    BY <1>1, <2>1 DEF RegistryInv, VersionsExact
<1>4. stops = {i \in DOMAIN list : list[i] \in current}
  BY <1>1, <1>3
<1>5. \A v \in allowed : \E i \in DOMAIN list : list[i] = v
  BY <1>1 DEF Range
<1>6. LatestMatching(n, allowed) =
        IF hits = {} THEN Error("NotFound")
        ELSE IF stops = {} THEN Error("AllVersionsDeprecated")
        ELSE IF <<n, versions[n][last]>> \in DOMAIN entries THEN Found(versions[n][last])
        ELSE Error("NotFound")
  BY DEF LatestMatching
<1>7. (hits = {} <=> allowed = {}) /\ (stops = {} <=> current = {})
  BY <1>1, <1>4, <1>5
<1>8. ASSUME stops # {}
      PROVE  versions[n][last] = best /\ <<n, versions[n][last]>> \in DOMAIN entries
  <2>1. PICK F : F = stops
    OBVIOUS
  <2>2. F \in SUBSET (1 .. m) /\ F # {}
    BY <1>2, <1>4, <1>8, <2>1
  <2>3. \A i \in F : list[i] \in Int
    BY <1>2, <2>2
  <2>4. PICK i \in F : \A j \in F : list[i] > list[j] \/ (list[i] = list[j] /\ i <= j)
    BY <2>2, <2>3, FirstGreatest
  <2>5. \A j \in F : j \in Nat /\ i \in Nat /\ list[j] \in Nat /\ list[i] \in Nat
    BY <1>2, <2>2
  <2>6. \A j \in F : list[j] <= list[i] /\ j <= i
    <3> SUFFICES ASSUME NEW j \in F PROVE list[j] <= list[i] /\ j <= i
      OBVIOUS
    <3>1. ~(i < j)
      <4>1. i < j => list[i] < list[j]
        BY <1>1, <1>2, <2>2 DEF Ascending
      <4> QED
        BY <2>4, <2>5, <4>1
    <3> QED
      BY <2>4, <2>5, <3>1
  <2>7. last = i
    <3>1. \A j \in F : (\A k \in F : k <= j) => j = i
      BY <2>5, <2>6
    <3>2. last = CHOOSE j \in F : \A k \in F : k <= j
      BY <2>1
    <3> QED
      BY <2>6, <3>1, <3>2
  <2>8. list[i] \in current /\ \A w \in current : w <= list[i]
    <3>1. \A w \in current : \E j \in F : list[j] = w
      BY <1>4, <1>5, <2>1
    <3> QED
      BY <1>4, <2>1, <2>6, <3>1
  <2>9. best = list[i]
    <3>1. \A v \in current : v \in Nat
      BY <1>2, <1>5
    <3>2. PICK C : C = current
      OBVIOUS
    <3>3. \A v \in C : (\A w \in C : w <= v) => v = list[i]
      BY <2>5, <2>8, <3>1, <3>2
    <3>4. best = CHOOSE v \in C : \A w \in C : w <= v
      BY <3>2
    <3> QED
      BY <2>8, <3>2, <3>3, <3>4
  <2> QED
    BY <1>1, <1>2, <1>3, <2>2, <2>7, <2>9
<1> HIDE DEF current, hits, stops, last, best
<1>9. LatestMatching(n, allowed) = IF allowed = {} THEN Error("NotFound")
                                   ELSE IF current = {} THEN Error("AllVersionsDeprecated")
                                   ELSE Found(best)
  BY <1>6, <1>7, <1>8
<1> QED
  BY <1>9 DEF current, best

\* What a constraint allows is what the walk may stop at.
LEMMA AllowedListed ==
    ASSUME RegistryInv, NEW n \in Names, NEW c
    PROVE  Allowed(n, c) = {v \in Range(versions[n]) : Matches(v, c)}
  BY DEF RegistryInv, VersionsExact, Allowed

LEMMA LookupIs ==
    ASSUME RegistryInv, NEW n \in Names, NEW c \in Constraints
    PROVE  Lookup(n, c) = Answer(n, c)
<1>1. c # None
  BY RegistryNone
<1>2. CASE c = Malformed
  BY <1>1, <1>2 DEF Lookup, Answer
<1>3. CASE c # Malformed
  <2>1. Lookup(n, c) = LatestMatching(n, Allowed(n, c))
    BY <1>1, <1>3, AllowedListed DEF Lookup
  <2>2. Allowed(n, c) \in SUBSET Range(versions[n])
    BY AllowedListed
  <2> QED
    BY <1>3, <2>1, <2>2, WalkIs DEF Answer
<1> QED
  BY <1>2, <1>3

\* A lookup without a constraint is one that allows everything.
LEMMA LatestIs ==
    ASSUME RegistryInv, NEW n \in Names
    PROVE  /\ GetLatest(n) = Answer(n, [op |-> ">=", base |-> 0])
           /\ Lookup(n, None) = GetLatest(n)
<1> DEFINE c == [op |-> ">=", base |-> 0]
<1>1. \A v \in Range(versions[n]) : Matches(v, c)
  <2>1. Range(versions[n]) \subseteq Nat
    BY VersionLists
  <2> QED
    BY <2>1 DEF Matches
<1>2. Allowed(n, c) = Range(versions[n])
  BY <1>1, AllowedListed
<1>3. c # Malformed
  BY DEF Malformed
<1> HIDE DEF c
<1>4. GetLatest(n) = Answer(n, c)
  <2>1. GetLatest(n) = LatestMatching(n, Allowed(n, c)) /\ Allowed(n, c) \in SUBSET Range(versions[n])
    BY <1>2 DEF GetLatest
  <2> QED
    BY <1>3, <2>1, WalkIs DEF Answer
<1>5. Lookup(n, None) = GetLatest(n)
  BY DEF Lookup
<1> QED
  BY <1>4, <1>5 DEF c

\* All versions are listed, in their order.
LEMMA AllVersionsAre ==
    ASSUME RegistryInv, NEW n \in Names
    PROVE  /\ Len(AllVersions(n)) = Len(versions[n])
           /\ DOMAIN AllVersions(n) = DOMAIN versions[n]
           /\ \A i \in DOMAIN versions[n] :
                 /\ <<n, versions[n][i]>> \in DOMAIN entries
                 /\ AllVersions(n)[i] = Get(<<n, versions[n][i]>>)
                 /\ AllVersions(n)[i] = entries[<<n, versions[n][i]>>]
<1>1. PICK list : list = versions[n] /\ list \in Seq(Nat)
  BY VersionLists
<1>2. \A v \in Range(list) : /\ v \in 1 .. MaxVersion
                             /\ <<n, v>> \in DOMAIN entries
                             /\ Get(<<n, v>>) = entries[<<n, v>>]
                             /\ Get(<<n, v>>) \in Entries
  BY <1>1 DEF RegistryInv, VersionsExact, TypeOK, Get
<1>3. Range(list) \subseteq {v \in 1 .. MaxVersion : Get(<<n, v>>) # None}
  BY <1>2, RegistryNone
<1>4. Among(list, {v \in 1 .. MaxVersion : Get(<<n, v>>) # None}) = list
  BY <1>1, <1>3, AmongElements
<1>5. AllVersions(n) = [i \in DOMAIN list |-> Get(<<n, list[i]>>)]
  BY <1>1, <1>4 DEF AllVersions
<1>6. DOMAIN list = 1 .. Len(list) /\ Len(list) \in Nat
  BY <1>1
<1>7. Len(AllVersions(n)) = Len(list) /\ DOMAIN AllVersions(n) = DOMAIN list
  BY <1>5, <1>6
<1>8. \A i \in DOMAIN list : list[i] \in Range(list)
  BY DEF Range
<1> QED
  BY <1>1, <1>2, <1>5, <1>7, <1>8

\* There are as many as the name has entries.
LEMMA VersionsCount ==
    ASSUME RegistryInv, NEW n \in Names
    PROVE  Len(versions[n]) = Cardinality({k \in DOMAIN entries : k[1] = n})
<1>1. PICK list : list = versions[n] /\ list \in Seq(Nat) /\ IsInjective(list)
  BY VersionLists, AscendingInjective
<1>2. PICK mine : mine = {k \in DOMAIN entries : k[1] = n}
  OBVIOUS
<1>3. IsFiniteSet(Range(list)) /\ Len(list) = Cardinality(Range(list))
  BY <1>1, VectorSize, RangeFinite
<1>4. PICK f : f = [v \in Range(list) |-> <<n, v>>]
  OBVIOUS
<1>5. mine = {<<n, v>> : v \in Range(list)}
  <2>1. \A k \in mine : k \in Keys
    BY <1>2 DEF RegistryInv, TypeOK
  <2>2. \A k \in mine : k = <<n, k[2]>> /\ k[2] \in 1 .. MaxVersion
    BY <1>2, <2>1 DEF Keys
  <2>3. \A v : v \in Range(list) <=> v \in 1 .. MaxVersion /\ <<n, v>> \in DOMAIN entries
    BY <1>1 DEF RegistryInv, VersionsExact
  <2>4. \A v : <<n, v>>[1] = n
    OBVIOUS
  <2>5. \A k \in mine : k[2] \in Range(list)
    BY <1>2, <2>2, <2>3
  <2> QED
    BY <1>2, <2>2, <2>3, <2>4, <2>5
<1>6. f \in Surjection(Range(list), mine)
  BY <1>4, <1>5 DEF Surjection
<1>7. f \in Injection(Range(list), mine)
  BY <1>4, <1>6 DEF Surjection, Injection, IsInjective
<1>8. ExistsBijection(Range(list), mine)
  BY <1>6, <1>7 DEF ExistsBijection, Bijection
<1>9. Cardinality(mine) = Cardinality(Range(list))
  BY <1>3, <1>8, FS_Bijection
<1> QED
  BY <1>1, <1>2, <1>3, <1>9

\* Behind the latest there are only deprecated versions.
LEMMA LatestIsLast ==
    ASSUME RegistryInv, NEW n \in Names, GetLatest(n).error = "none"
    PROVE  \E i \in DOMAIN versions[n] :
              /\ versions[n][i] = GetLatest(n).version
              /\ Current(<<n, versions[n][i]>>)
              /\ \A j \in DOMAIN versions[n] : j > i => ~Current(<<n, versions[n][j]>>)
<1>1. PICK list : list = versions[n] /\ list \in Seq(Nat) /\ Ascending(list)
  BY VersionLists
<1>2. PICK current : current = {v \in Range(list) : Current(<<n, v>>)}
  OBVIOUS
<1>3. GetLatest(n) = IF Range(list) = {} THEN Error("NotFound")
                     ELSE IF current = {} THEN Error("AllVersionsDeprecated")
                     ELSE Found(CHOOSE v \in current : \A w \in current : w <= v)
  BY <1>1, <1>2, WalkIs DEF GetLatest
<1>4. /\ current # {}
      /\ GetLatest(n).version = CHOOSE v \in current : \A w \in current : w <= v
  BY <1>3 DEF Error, Found
<1>5. PICK m \in Nat : DOMAIN list = 1 .. m /\ \A i \in 1 .. m : list[i] \in Nat
  BY <1>1
<1>6. PICK F : F = {i \in 1 .. m : list[i] \in current}
  OBVIOUS
<1>7. F # {} /\ \A v \in current : \E i \in F : list[i] = v
  <2>1. \A v \in current : \E i \in DOMAIN list : list[i] = v
    BY <1>2 DEF Range
  <2> QED
    BY <1>4, <1>5, <1>6, <2>1
<1>8. PICK i \in F : \A j \in F : list[i] > list[j] \/ (list[i] = list[j] /\ i <= j)
  <2>1. F \in SUBSET (1 .. m) /\ \A j \in F : list[j] \in Int
    BY <1>5, <1>6
  <2> QED
    BY <1>7, <2>1, FirstGreatest
<1>9. list[i] \in current /\ i \in 1 .. m /\ list[i] \in Nat
  BY <1>5, <1>6
<1>10. \A w \in current : w \in Nat /\ w <= list[i]
  BY <1>5, <1>6, <1>7, <1>8
<1>11. GetLatest(n).version = list[i]
  <2>1. \A v \in current : (\A w \in current : w <= v) => v = list[i]
    BY <1>9, <1>10
  <2> QED
    BY <1>4, <1>9, <1>10, <2>1
<1>12. ASSUME NEW j \in DOMAIN list, j > i PROVE ~Current(<<n, list[j]>>)
  <2>1. list[i] < list[j]
    BY <1>1, <1>5, <1>9, <1>12 DEF Ascending
  <2>2. list[j] \notin current
    BY <1>5, <1>9, <1>10, <1>12, <2>1
  <2>3. list[j] \in Range(list)
    BY <1>12 DEF Range
  <2> QED
    BY <1>2, <2>2, <2>3
<1> QED
  BY <1>1, <1>2, <1>5, <1>9, <1>11, <1>12

LEMMA LookupsMean == RegistryInv => LookupsMeanWhatTheySay
<1> SUFFICES ASSUME RegistryInv, NEW n \in Names
             PROVE  /\ \A c \in Constraints : Lookup(n, c) = Answer(n, c)
                    /\ Lookup(n, None) = Answer(n, [op |-> ">=", base |-> 0])
                    /\ Len(AllVersions(n)) = Cardinality({k \in DOMAIN entries : k[1] = n})
                    /\ GetLatest(n).error = "none" =>
                         \E i \in DOMAIN AllVersions(n) :
                            /\ AllVersions(n)[i] = Get(<<n, GetLatest(n).version>>)
                            /\ \A j \in i + 1 .. Len(AllVersions(n)) :
                                  AllVersions(n)[j].retired # None
  BY DEF LookupsMeanWhatTheySay
<1>1. \A c \in Constraints : Lookup(n, c) = Answer(n, c)
  BY LookupIs
<1>2. Lookup(n, None) = Answer(n, [op |-> ">=", base |-> 0])
  BY LatestIs
<1>3. Len(AllVersions(n)) = Cardinality({k \in DOMAIN entries : k[1] = n})
  BY AllVersionsAre, VersionsCount
<1>4. ASSUME GetLatest(n).error = "none"
      PROVE  \E i \in DOMAIN AllVersions(n) :
                /\ AllVersions(n)[i] = Get(<<n, GetLatest(n).version>>)
                /\ \A j \in i + 1 .. Len(AllVersions(n)) : AllVersions(n)[j].retired # None
  <2>1. PICK i \in DOMAIN versions[n] :
          /\ versions[n][i] = GetLatest(n).version
          /\ \A j \in DOMAIN versions[n] : j > i => ~Current(<<n, versions[n][j]>>)
    BY <1>4, LatestIsLast
  <2>2. PICK m \in Nat : DOMAIN versions[n] = 1 .. m /\ Len(versions[n]) = m
    BY VersionLists
  <2>3. AllVersions(n)[i] = Get(<<n, GetLatest(n).version>>) /\ i \in DOMAIN AllVersions(n)
    BY <2>1, AllVersionsAre
  <2>4. ASSUME NEW j \in i + 1 .. Len(AllVersions(n)) PROVE AllVersions(n)[j].retired # None
    <3>1. Len(AllVersions(n)) = m /\ i \in 1 .. m
      BY <2>2, AllVersionsAre
    <3>2. j \in DOMAIN versions[n] /\ j > i
      BY <2>2, <3>1
    <3> QED
      BY <2>1, <3>2, AllVersionsAre DEF Current
  <2> QED
    BY <2>3, <2>4
<1> QED
  BY <1>1, <1>2, <1>3, <1>4

\* Every lookup answers the greatest current version its constraint allows, or
\* the error that says why there is none, and the list of all versions is
\* complete and ends, but for deprecated ones, with the latest.
THEOREM LookupsStayTrue == Spec => []LookupsMeanWhatTheySay
  BY RegistryInvHolds, LookupsMean, PTL

-----------------------------------------------------------------------------
(* The registry: it implements VersionCatalog.                             *)

\* The releases of a name, and what was given as reasons, in both states.
LEMMA PublishedIs ==
    ASSUME NEW n \in Names
    PROVE  /\ DOMAIN Published[n] = DOMAIN versions[n]
           /\ DOMAIN Published'[n] = DOMAIN versions'[n]
           /\ Published[n] = [i \in DOMAIN Published[n] |-> Published[n][i]]
           /\ Published'[n] = [i \in DOMAIN Published'[n] |-> Published'[n][i]]
           /\ \A i \in DOMAIN versions[n] :
                 /\ Published[n][i].version = versions[n][i]
                 /\ Published[n][i] =
                      [version |-> versions[n][i],
                       address |-> entries[<<n, versions[n][i]>>].address,
                       by |-> entries[<<n, versions[n][i]>>].by]
           /\ \A i \in DOMAIN versions'[n] :
                 /\ Published'[n][i].version = versions'[n][i]
                 /\ Published'[n][i] =
                      [version |-> versions'[n][i],
                       address |-> entries'[<<n, versions'[n][i]>>].address,
                       by |-> entries'[<<n, versions'[n][i]>>].by]
<1>1. Published[n] = [i \in DOMAIN versions[n] |->
         [version |-> versions[n][i], address |-> entries[<<n, versions[n][i]>>].address,
          by |-> entries[<<n, versions[n][i]>>].by]]
  BY DEF Published
<1>2. Published'[n] = [i \in DOMAIN versions'[n] |->
         [version |-> versions'[n][i], address |-> entries'[<<n, versions'[n][i]>>].address,
          by |-> entries'[<<n, versions'[n][i]>>].by]]
  BY DEF Published
<1>3. /\ DOMAIN Published[n] = DOMAIN versions[n]
      /\ Published[n] = [i \in DOMAIN Published[n] |-> Published[n][i]]
      /\ \A i \in DOMAIN versions[n] : Published[n][i] =
            [version |-> versions[n][i], address |-> entries[<<n, versions[n][i]>>].address,
             by |-> entries[<<n, versions[n][i]>>].by]
  BY <1>1
<1>4. /\ DOMAIN Published'[n] = DOMAIN versions'[n]
      /\ Published'[n] = [i \in DOMAIN Published'[n] |-> Published'[n][i]]
      /\ \A i \in DOMAIN versions'[n] : Published'[n][i] =
            [version |-> versions'[n][i], address |-> entries'[<<n, versions'[n][i]>>].address,
             by |-> entries'[<<n, versions'[n][i]>>].by]
  BY <1>2
<1>5. \A i \in DOMAIN versions[n] : Published[n][i].version = versions[n][i]
  <2> SUFFICES ASSUME NEW i \in DOMAIN versions[n] PROVE Published[n][i].version = versions[n][i]
    OBVIOUS
  <2>1. Published[n][i] =
          [version |-> versions[n][i], address |-> entries[<<n, versions[n][i]>>].address,
           by |-> entries[<<n, versions[n][i]>>].by]
    BY <1>3
  <2> QED
    BY <2>1
<1>6. \A i \in DOMAIN versions'[n] : Published'[n][i].version = versions'[n][i]
  <2> SUFFICES ASSUME NEW i \in DOMAIN versions'[n]
               PROVE  Published'[n][i].version = versions'[n][i]
    OBVIOUS
  <2>1. Published'[n][i] =
          [version |-> versions'[n][i], address |-> entries'[<<n, versions'[n][i]>>].address,
           by |-> entries'[<<n, versions'[n][i]>>].by]
    BY <1>4
  <2> QED
    BY <2>1
<1> QED
  BY <1>3, <1>4, <1>5, <1>6

LEMMA RetiredIs ==
    /\ DOMAIN RetiredFor = {k \in DOMAIN entries : entries[k].retired # None}
    /\ DOMAIN RetiredFor' = {k \in DOMAIN entries' : entries'[k].retired # None}
    /\ \A k \in DOMAIN RetiredFor : RetiredFor[k] = entries[k].retired
    /\ \A k \in DOMAIN RetiredFor' : RetiredFor'[k] = entries'[k].retired
    /\ RetiredFor = [k \in DOMAIN RetiredFor |-> RetiredFor[k]]
    /\ RetiredFor' = [k \in DOMAIN RetiredFor' |-> RetiredFor'[k]]
  BY DEF RetiredFor, Current

\* The latest version is the last one not retired, or 0.
LEMMA LatestFollows == RegistryInv => Catalog!LatestAgrees
<1> SUFFICES ASSUME RegistryInv, NEW n \in Names
             PROVE  LET open == {i \in DOMAIN Published[n] :
                                   <<n, Published[n][i].version>> \notin DOMAIN RetiredFor}
                    IN  \/ open = {} /\ Latest[n] = 0
                        \/ \E i \in open : /\ \A j \in open : j <= i
                                           /\ Latest[n] = Published[n][i].version
  BY DEF Catalog!LatestAgrees
<1>1. PICK open : open = {i \in DOMAIN Published[n] :
                            <<n, Published[n][i].version>> \notin DOMAIN RetiredFor}
  OBVIOUS
<1>2. DOMAIN Published[n] = DOMAIN versions[n]
      /\ \A i \in DOMAIN versions[n] : Published[n][i].version = versions[n][i]
  BY PublishedIs
<1>3. \A i \in DOMAIN versions[n] : <<n, versions[n][i]>> \in DOMAIN entries
  BY AllVersionsAre
<1>4. open = {i \in DOMAIN versions[n] : Current(<<n, versions[n][i]>>)}
  BY <1>1, <1>2, <1>3, RetiredIs DEF Current
<1>5. Latest[n] = GetLatest(n).version
  BY DEF Latest
<1>6. PICK m \in Nat : DOMAIN versions[n] = 1 .. m
  BY VersionLists
<1>7. CASE GetLatest(n).error = "none"
  <2>1. PICK i \in DOMAIN versions[n] :
          /\ versions[n][i] = GetLatest(n).version
          /\ Current(<<n, versions[n][i]>>)
          /\ \A j \in DOMAIN versions[n] : j > i => ~Current(<<n, versions[n][j]>>)
    BY <1>7, LatestIsLast
  <2>2. \A j \in open : j <= i
    BY <1>4, <1>6, <2>1
  <2> QED
    BY <1>1, <1>2, <1>4, <1>5, <2>1, <2>2
<1>8. CASE GetLatest(n).error # "none"
  <2>1. PICK current : current = {v \in Range(versions[n]) : Current(<<n, v>>)}
    OBVIOUS
  <2>2. GetLatest(n) = IF Range(versions[n]) = {} THEN Error("NotFound")
                       ELSE IF current = {} THEN Error("AllVersionsDeprecated")
                       ELSE Found(CHOOSE v \in current : \A w \in current : w <= v)
    BY <2>1, WalkIs DEF GetLatest
  <2>3. current = {} /\ GetLatest(n).version = 0
    BY <1>8, <2>1, <2>2 DEF Error, Found
  <2>4. open = {}
    BY <1>4, <2>1, <2>3 DEF Range
  <2> QED
    BY <1>1, <1>5, <2>3, <2>4
<1> QED
  BY <1>7, <1>8

\* New versions are published at the end of their names' histories.
LEMMA WritePublishes ==
    ASSUME RegistryInv, NEW items, NEW I, Newcomers(items, I), NEW caller \in Addresses,
           WriteEntries(caller, items, I)
    PROVE  Catalog!Publish
<1>1. /\ DOMAIN entries' = DOMAIN entries \cup {Key(items[i]) : i \in I}
      /\ \A k \in DOMAIN entries : entries'[k] = entries[k]
      /\ \A i \in I : entries'[Key(items[i])] =
            [address |-> items[i].address, by |-> caller, retired |-> None]
      /\ entries' = [k \in DOMAIN entries' |-> entries'[k]]
  BY EntriesWritten
<1>2. ASSUME NEW n \in Names
      PROVE  /\ Len(Published[n]) <= Len(Published'[n])
             /\ \A i \in DOMAIN Published[n] : Published'[n][i] = Published[n][i]
             /\ \A i, j \in DOMAIN Published'[n] :
                   i < j => Published'[n][i].version < Published'[n][j].version
  <2>1. PICK added \in Seq(1 .. MaxVersion) :
           /\ versions'[n] = versions[n] \o added
           /\ Range(added) = VersionsAdded(items, I, n)
           /\ Ascending(versions'[n])
    BY VersionsWritten
  <2>2. PICK list, new : list \in Seq(1 .. MaxVersion) /\ list = versions[n] /\ new = versions'[n]
    BY VersionLists
  <2>3. /\ new = list \o added /\ DOMAIN list = 1 .. Len(list) /\ Len(list) \in Nat
        /\ DOMAIN new = 1 .. Len(new) /\ Len(new) \in Nat /\ Len(list) <= Len(new)
        /\ \A i \in DOMAIN list : i \in DOMAIN new /\ new[i] = list[i]
    BY <2>1, <2>2
  <2>4. /\ Len(Published[n]) = Len(list) /\ DOMAIN Published[n] = DOMAIN list
        /\ Len(Published'[n]) = Len(new) /\ DOMAIN Published'[n] = DOMAIN new
    <3>1. DOMAIN Published[n] = 1 .. Len(list) /\ DOMAIN Published'[n] = 1 .. Len(new)
      BY <2>2, <2>3, PublishedIs
    <3>2. /\ Published[n] = [i \in 1 .. Len(list) |-> Published[n][i]]
          /\ Published'[n] = [i \in 1 .. Len(new) |-> Published'[n][i]]
      BY <3>1, PublishedIs
    <3> QED
      BY <2>3, <3>1, <3>2
  <2>5. ASSUME NEW i \in DOMAIN list PROVE Published'[n][i] = Published[n][i]
    <3>1. entries'[<<n, list[i]>>] = entries[<<n, list[i]>>]
      BY <1>1, <2>2, AllVersionsAre
    <3>2. Published[n][i] =
            [version |-> list[i], address |-> entries[<<n, list[i]>>].address,
             by |-> entries[<<n, list[i]>>].by]
      BY <2>2, PublishedIs
    <3>3. Published'[n][i] =
            [version |-> new[i], address |-> entries'[<<n, new[i]>>].address,
             by |-> entries'[<<n, new[i]>>].by]
      <4>1. i \in DOMAIN versions'[n] /\ versions'[n][i] = new[i]
        BY <2>2, <2>3
      <4>2. Published'[n][i] =
              [version |-> versions'[n][i], address |-> entries'[<<n, versions'[n][i]>>].address,
               by |-> entries'[<<n, versions'[n][i]>>].by]
        BY <4>1, PublishedIs
      <4> QED
        BY <4>1, <4>2
    <3> QED
      BY <2>3, <3>1, <3>2, <3>3
  <2>6. ASSUME NEW i \in DOMAIN new, NEW j \in DOMAIN new, i < j
        PROVE  Published'[n][i].version < Published'[n][j].version
    <3>1. new[i] < new[j]
      BY <2>1, <2>2, <2>6 DEF Ascending
    <3> QED
      BY <2>2, <3>1, PublishedIs
  <2> QED
    BY <2>3, <2>4, <2>5, <2>6
<1>3. RetiredFor' = RetiredFor
  <2>1. DOMAIN RetiredFor' = DOMAIN RetiredFor
    <3>1. \A i \in I : entries'[Key(items[i])].retired = None
      <4> SUFFICES ASSUME NEW i \in I PROVE entries'[Key(items[i])].retired = None
        OBVIOUS
      <4>1. entries'[Key(items[i])] =
              [address |-> items[i].address, by |-> caller, retired |-> None]
        BY <1>1
      <4> QED
        BY <4>1
    <3> QED
      BY <1>1, <3>1, RetiredIs
  <2>2. \A k \in DOMAIN RetiredFor : RetiredFor'[k] = RetiredFor[k]
    BY <1>1, <2>1, RetiredIs
  <2> QED
    BY <2>1, <2>2, RetiredIs
<1> QED
  BY <1>2, <1>3 DEF Catalog!Publish

\* What is retired stays so, for the reason first given.
LEMMA RetireRetires ==
    ASSUME RegistryInv, NEW keys, NEW reason, \A k \in keys : reason[k] \in Reasons,
           Retire(keys, reason)
    PROVE  Catalog!Retire
<1>1. /\ DOMAIN entries' = DOMAIN entries
      /\ \A k \in DOMAIN entries :
            /\ entries'[k].address = entries[k].address
            /\ entries'[k].by = entries[k].by
            /\ entries[k].retired # None => entries'[k].retired = entries[k].retired
      /\ UNCHANGED versions
  BY RetireParts
<1>2. DOMAIN RetiredFor \subseteq DOMAIN RetiredFor'
      /\ \A k \in DOMAIN RetiredFor : RetiredFor'[k] = RetiredFor[k]
  BY <1>1, RetiredIs
<1>3. ASSUME NEW k \in DOMAIN RetiredFor' \ DOMAIN RetiredFor
      PROVE  \E i \in DOMAIN Published[k[1]] : Published[k[1]][i].version = k[2]
  <2>1. k \in DOMAIN entries
    BY <1>1, <1>3, RetiredIs
  <2>2. k = <<k[1], k[2]>> /\ k[1] \in Names /\ k[2] \in 1 .. MaxVersion
    BY <2>1 DEF RegistryInv, TypeOK, Keys
  <2>3. k[2] \in Range(versions[k[1]])
    BY <2>1, <2>2 DEF RegistryInv, VersionsExact
  <2>4. PICK n \in Names : n = k[1]
    BY <2>2
  <2>5. PICK i \in DOMAIN versions[n] : versions[n][i] = k[2]
    BY <2>3, <2>4 DEF Range
  <2>6. i \in DOMAIN Published[n] /\ Published[n][i].version = k[2]
    BY <2>5, PublishedIs
  <2> QED
    BY <2>4, <2>6
<1>4. Published' = Published
  <2>1. ASSUME NEW n \in Names PROVE Published'[n] = Published[n]
    <3>1. \A i \in DOMAIN versions[n] :
             /\ entries'[<<n, versions[n][i]>>].address = entries[<<n, versions[n][i]>>].address
             /\ entries'[<<n, versions[n][i]>>].by = entries[<<n, versions[n][i]>>].by
      BY <1>1, AllVersionsAre
    <3>2. versions'[n] = versions[n]
      BY <1>1
    <3>3. ASSUME NEW i \in DOMAIN versions[n] PROVE Published'[n][i] = Published[n][i]
      <4>1. Published[n][i] =
              [version |-> versions[n][i], address |-> entries[<<n, versions[n][i]>>].address,
               by |-> entries[<<n, versions[n][i]>>].by]
        BY PublishedIs
      <4>2. Published'[n][i] =
              [version |-> versions[n][i], address |-> entries'[<<n, versions[n][i]>>].address,
               by |-> entries'[<<n, versions[n][i]>>].by]
        <5>1. i \in DOMAIN versions'[n] /\ versions'[n][i] = versions[n][i]
          BY <3>2
        <5>2. Published'[n][i] =
                [version |-> versions'[n][i], address |-> entries'[<<n, versions'[n][i]>>].address,
                 by |-> entries'[<<n, versions'[n][i]>>].by]
          BY <5>1, PublishedIs
        <5> QED
          BY <5>1, <5>2
      <4> QED
        BY <3>1, <4>1, <4>2
    <3>4. DOMAIN Published[n] = DOMAIN versions[n] /\ DOMAIN Published'[n] = DOMAIN versions[n]
      BY <3>2, PublishedIs
    <3>5. /\ Published[n] = [i \in DOMAIN versions[n] |-> Published[n][i]]
          /\ Published'[n] = [i \in DOMAIN versions[n] |-> Published'[n][i]]
      BY <3>4, PublishedIs
    <3> QED
      BY <3>3, <3>5
  <2>2. Published = [n \in Names |-> Published[n]] /\ Published' = [n \in Names |-> Published'[n]]
    BY DEF Published
  <2> QED
    BY <2>1, <2>2
<1> QED
  BY <1>2, <1>3, <1>4 DEF Catalog!Retire

LEMMA CatalogStep ==
    ASSUME RegistryInv, [Next]_vars
    PROVE  Catalog!Publish \/ Catalog!Retire \/ UNCHANGED Catalog!vars
<1>1. ASSUME UNCHANGED <<entries, versions, names, index>>
      PROVE  UNCHANGED Catalog!vars
  <2>1. Published' = Published /\ RetiredFor' = RetiredFor
    BY <1>1 DEF Published, RetiredFor, Current
  <2>2. Latest' = Latest
    BY <1>1 DEF Latest, GetLatest, LatestMatching, Current
  <2> QED
    BY <2>1, <2>2 DEF Catalog!vars
<1> QED
  BY <1>1, RegistrySteps, WritePublishes, RetireRetires

LEMMA CatalogInit == Init => Catalog!Init
<1> SUFFICES ASSUME Init PROVE Catalog!Init
  OBVIOUS
<1>1. entries = << >> /\ DOMAIN entries = {} /\ versions = [n \in Names |-> << >>]
  BY DEF Init
<1>2. Published = [n \in Names |-> << >>]
  BY <1>1 DEF Published
<1>3. DOMAIN RetiredFor = {}
  BY <1>1, RetiredIs
<1> QED
  BY <1>2, <1>3, RegistryInit, LatestFollows DEF Catalog!Init

\* No sequence of calls rewrites the history of a name: every step publishes
\* at its end, retires for good, or changes nothing, and the latest version
\* follows.
THEOREM ImplementsCatalog == Spec => KeepsCatalog
<1>1. RegistryInv /\ [Next]_vars => Catalog!Publish \/ Catalog!Retire \/ UNCHANGED Catalog!vars
  BY CatalogStep
<1>2. (Catalog!Publish \/ Catalog!Retire \/ UNCHANGED Catalog!vars) /\ Catalog!LatestAgrees'
        => [Catalog!Next]_Catalog!vars
  BY DEF Catalog!Next
<1> QED
  BY <1>1, <1>2, CatalogInit, LatestFollows, RegistryInvHolds, PTL DEF Spec, KeepsCatalog, Catalog!Spec

=============================================================================
