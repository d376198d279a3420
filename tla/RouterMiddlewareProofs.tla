----------------------- MODULE RouterMiddlewareProofs ------------------------
(***************************************************************************)
(* Proofs about RouterMiddleware and its history, for every set of         *)
(* callers, every clock width and every configuration.                     *)
(*                                                                         *)
(* Each part of the contract has facts of its own that its steps keep: the *)
(* windows of a caller (Held), the ring of the call log (Ring), and what   *)
(* the breaker remembers (Counted, OpenedFirst).                           *)
(***************************************************************************)
EXTENDS RouterMiddlewareHistory, VectorLemmas

-----------------------------------------------------------------------------
(* The calls let through, apart from where they are kept: a is the vector  *)
(* of their times, w the length of a window and m the calls it allows.     *)

Between(a, lo, hi) == {j \in DOMAIN a : lo <= a[j] /\ a[j] < hi}

\* No stretch as long as a window has twice the calls a window allows.
Spread(a, w, m) == \A i \in DOMAIN a : Cardinality(Between(a, a[i], a[i] + w)) < 2 * m

\* A window opened at s has counted k calls: its first call, at s, need not be
\* in a, where the limit has changed since.
InWindow(a, s, w, m, k) ==
    /\ \A j \in DOMAIN a : a[j] < s + w
    /\ Cardinality(Between(a, s + 1, s + w)) <= k - 1
    /\ Cardinality(Between(a, s + 1, s + w)) <= m - 1
    /\ Cardinality(Between(a, s, s + w)) <= k
    /\ Cardinality(Between(a, s, s + w)) <= m
    /\ \A i \in DOMAIN a : a[i] < s /\ s < a[i] + w =>
          Cardinality(Between(a, a[i], s)) <= m - 1

\* At time t the last window is over.
NoWindow(a, t, w, m) ==
    /\ \A j \in DOMAIN a : a[j] < t
    /\ \A i \in DOMAIN a : t < a[i] + w => Cardinality(Between(a, a[i], t)) <= m - 1

LEMMA BetweenFinite ==
    ASSUME NEW a \in Seq(Nat)
    PROVE  \A lo, hi : IsFiniteSet(Between(a, lo, hi)) /\ Cardinality(Between(a, lo, hi)) \in Nat
<1>1. PICK n \in Nat : DOMAIN a = 1 .. n
  OBVIOUS
<1>2. IsFiniteSet(1 .. n)
  BY FS_Interval
<1> SUFFICES ASSUME NEW lo, NEW hi
             PROVE  IsFiniteSet(Between(a, lo, hi)) /\ Cardinality(Between(a, lo, hi)) \in Nat
  OBVIOUS
<1>3. PICK B : B = Between(a, lo, hi)
  OBVIOUS
<1>4. B \in SUBSET (1 .. n)
  BY <1>1, <1>3 DEF Between
<1>5. IsFiniteSet(B)
  BY <1>2, <1>4, FS_Subset
<1> QED
  BY <1>3, <1>5, FS_CardinalityType

\* A smaller part of a holds no more calls.
LEMMA BetweenWithin ==
    ASSUME NEW a \in Seq(Nat), NEW lo, NEW hi, NEW lo2, NEW hi2,
           Between(a, lo, hi) \subseteq Between(a, lo2, hi2)
    PROVE  Cardinality(Between(a, lo, hi)) <= Cardinality(Between(a, lo2, hi2))
<1>1. PICK B, C : B = Between(a, lo, hi) /\ C = Between(a, lo2, hi2)
  OBVIOUS
<1>2. IsFiniteSet(C) /\ B \in SUBSET C
  BY <1>1, BetweenFinite
<1> QED
  BY <1>1, <1>2, FS_Subset

LEMMA BetweenSplit ==
    ASSUME NEW a \in Seq(Nat), NEW lo \in Nat, NEW mid \in Nat, NEW hi \in Nat
    PROVE  Cardinality(Between(a, lo, hi))
             <= Cardinality(Between(a, lo, mid)) + Cardinality(Between(a, mid, hi))
<1>1. PICK A, B, C : /\ A = Between(a, lo, mid) /\ B = Between(a, mid, hi)
                     /\ C = Between(a, lo, hi)
  OBVIOUS
<1>2. /\ IsFiniteSet(A) /\ IsFiniteSet(B) /\ IsFiniteSet(C)
      /\ Cardinality(A) \in Nat /\ Cardinality(B) \in Nat /\ Cardinality(C) \in Nat
  BY <1>1, BetweenFinite
<1>3. C \in SUBSET (A \cup B)
  <2>1. \A i \in DOMAIN a : a[i] \in Nat
    OBVIOUS
  <2> QED
    BY <1>1, <2>1 DEF Between
<1>4. /\ IsFiniteSet(A \cup B)
      /\ Cardinality(A \cup B) = Cardinality(A) + Cardinality(B) - Cardinality(A \cap B)
  BY <1>2, FS_Union
<1>5. Cardinality(A \cap B) \in Nat
  <2>1. A \cap B \in SUBSET A
    OBVIOUS
  <2> QED
    BY <1>2, <2>1, FS_Subset, FS_CardinalityType
<1>6. Cardinality(C) <= Cardinality(A \cup B)
  BY <1>3, <1>4, FS_Subset
<1>7. Cardinality(A \cup B) \in Nat
  BY <1>4, FS_CardinalityType
<1> QED
  BY <1>1, <1>2, <1>4, <1>5, <1>6, <1>7

LEMMA BetweenAppend ==
    ASSUME NEW a \in Seq(Nat), NEW t \in Nat, NEW lo, NEW hi
    PROVE  Cardinality(Between(Append(a, t), lo, hi))
             = Cardinality(Between(a, lo, hi)) + (IF lo <= t /\ t < hi THEN 1 ELSE 0)
<1>1. PICK n \in Nat : n = Len(a) /\ DOMAIN a = 1 .. n
  OBVIOUS
<1>10. PICK b : b = Append(a, t)
  OBVIOUS
<1>2. /\ DOMAIN b = 1 .. n + 1 /\ b[n + 1] = t
      /\ \A i \in 1 .. n : b[i] = a[i] /\ a[i] \in Nat
  BY <1>1, <1>10
<1>3. PICK A, B : A = Between(a, lo, hi) /\ B = Between(b, lo, hi)
  OBVIOUS
<1>4. IsFiniteSet(A) /\ n + 1 \notin A /\ Cardinality(A) \in Nat
  <2>1. n + 1 \notin A
    BY <1>1, <1>3 DEF Between
  <2> QED
    BY <1>3, <2>1, BetweenFinite
<1>5. \A i \in 1 .. n + 1 : i \in 1 .. n \/ i = n + 1
  OBVIOUS
<1>6. CASE lo <= t /\ t < hi
  <2>1. B = A \cup {n + 1}
    BY <1>1, <1>2, <1>3, <1>5, <1>6 DEF Between
  <2>2. Cardinality(A \cup {n + 1}) = Cardinality(A) + 1
    BY <1>4, FS_AddElement
  <2> QED
    BY <1>10, <1>3, <1>6, <2>1, <2>2
<1>7. CASE ~(lo <= t /\ t < hi)
  <2>1. B = A
    BY <1>1, <1>2, <1>3, <1>5, <1>7 DEF Between
  <2> QED
    BY <1>10, <1>3, <1>4, <1>7, <2>1
<1> QED
  BY <1>6, <1>7

\* What an appended time leaves of the others.
LEMMA AppendTimes ==
    ASSUME NEW a \in Seq(Nat), NEW t \in Nat
    PROVE  /\ Append(a, t) \in Seq(Nat)
           /\ \A i \in DOMAIN Append(a, t) :
                 \/ i \in DOMAIN a /\ Append(a, t)[i] = a[i] /\ a[i] \in Nat
                 \/ Append(a, t)[i] = t
<1>1. PICK n \in Nat : n = Len(a) /\ DOMAIN a = 1 .. n
  OBVIOUS
<1>2. PICK b : b = Append(a, t)
  OBVIOUS
<1>3. /\ b \in Seq(Nat) /\ DOMAIN b = 1 .. n + 1 /\ b[n + 1] = t
      /\ \A i \in 1 .. n : b[i] = a[i] /\ a[i] \in Nat
  BY <1>1, <1>2
<1>4. \A i \in 1 .. n + 1 : i \in 1 .. n \/ i = n + 1
  OBVIOUS
<1> QED
  BY <1>1, <1>2, <1>3, <1>4

LEMMA WindowCloses ==
    ASSUME NEW a \in Seq(Nat), NEW s \in Nat, NEW w \in Nat, NEW m \in Nat, NEW k \in Nat,
           InWindow(a, s, w, m, k), NEW t \in Nat, s + w <= t
    PROVE  NoWindow(a, t, w, m)
<1>1. \A j \in DOMAIN a : a[j] \in Nat /\ a[j] < s + w /\ a[j] < t
  BY DEF InWindow
<1>2. ASSUME NEW i \in DOMAIN a, t < a[i] + w
      PROVE  Cardinality(Between(a, a[i], t)) <= m - 1
  <2>1. Between(a, a[i], t) \subseteq Between(a, s + 1, s + w)
    BY <1>1, <1>2 DEF Between
  <2>2. Cardinality(Between(a, a[i], t)) <= Cardinality(Between(a, s + 1, s + w))
    BY <2>1, BetweenWithin
  <2>3. Cardinality(Between(a, s + 1, s + w)) <= m - 1
    BY DEF InWindow
  <2>4. Cardinality(Between(a, a[i], t)) \in Nat /\ Cardinality(Between(a, s + 1, s + w)) \in Nat
    BY BetweenFinite
  <2> QED
    BY <2>2, <2>3, <2>4
<1> QED
  BY <1>1, <1>2 DEF NoWindow

LEMMA StillNoWindow ==
    ASSUME NEW a \in Seq(Nat), NEW w \in Nat, NEW m \in Nat, NEW t \in Nat,
           NoWindow(a, t, w, m), NEW u \in Nat, t <= u
    PROVE  NoWindow(a, u, w, m)
<1>1. \A j \in DOMAIN a : a[j] \in Nat /\ a[j] < t /\ a[j] < u
  BY DEF NoWindow
<1>2. ASSUME NEW i \in DOMAIN a, u < a[i] + w
      PROVE  Cardinality(Between(a, a[i], u)) <= m - 1
  <2>1. Between(a, a[i], u) = Between(a, a[i], t)
    BY <1>1 DEF Between
  <2>2. t < a[i] + w
    BY <1>1, <1>2
  <2> QED
    BY <2>1, <2>2 DEF NoWindow
<1> QED
  BY <1>1, <1>2 DEF NoWindow

LEMMA WindowOpens ==
    ASSUME NEW a \in Seq(Nat), NEW w \in Nat \ {0}, NEW m \in Nat \ {0}, NEW t \in Nat,
           NoWindow(a, t, w, m), Spread(a, w, m)
    PROVE  /\ InWindow(Append(a, t), t, w, m, 1)
           /\ Spread(Append(a, t), w, m)
<1>1. PICK b : b = Append(a, t)
  OBVIOUS
<1>2. /\ b \in Seq(Nat)
      /\ \A i \in DOMAIN b : \/ i \in DOMAIN a /\ b[i] = a[i] /\ a[i] \in Nat /\ a[i] < t
                             \/ b[i] = t
  BY <1>1, AppendTimes DEF NoWindow
<1>3. \A lo, hi : Cardinality(Between(b, lo, hi))
          = Cardinality(Between(a, lo, hi)) + (IF lo <= t /\ t < hi THEN 1 ELSE 0)
  BY <1>1, BetweenAppend
<1>4. /\ Between(a, t, t + w) = {}
      /\ Between(a, t + 1, t + w) = {}
  BY DEF NoWindow, Between
<1>5. /\ Cardinality(Between(a, t, t + w)) = 0
      /\ Cardinality(Between(a, t + 1, t + w)) = 0
  <2>1. Cardinality({}) = 0
    BY FS_EmptySet
  <2> QED
    BY <1>4, <2>1, Zenon
<1>6. Cardinality(Between(b, t + 1, t + w)) = 0
  <2>1. ~(t + 1 <= t)
    OBVIOUS
  <2>2. Cardinality(Between(b, t + 1, t + w))
          = Cardinality(Between(a, t + 1, t + w)) + (IF t + 1 <= t /\ t < t + w THEN 1 ELSE 0)
    BY <1>3, Zenon
  <2> QED
    BY <1>5, <2>1, <2>2
<1>7. Cardinality(Between(b, t, t + w)) = 1
  <2>1. t <= t /\ t < t + w
    OBVIOUS
  <2>2. Cardinality(Between(b, t, t + w))
          = Cardinality(Between(a, t, t + w)) + (IF t <= t /\ t < t + w THEN 1 ELSE 0)
    BY <1>3, Zenon
  <2> QED
    BY <1>5, <2>1, <2>2
<1>8. ASSUME NEW i \in DOMAIN b, b[i] < t, t < b[i] + w
      PROVE  Cardinality(Between(b, b[i], t)) <= m - 1
  <2>1. i \in DOMAIN a /\ b[i] = a[i] /\ a[i] \in Nat
    BY <1>2, <1>8
  <2>2. Cardinality(Between(a, a[i], t)) <= m - 1
    BY <1>8, <2>1 DEF NoWindow
  <2>3. Cardinality(Between(b, a[i], t)) = Cardinality(Between(a, a[i], t))
    BY <1>3, <2>1, BetweenFinite
  <2> QED
    BY <2>1, <2>2, <2>3
<1>9. InWindow(b, t, w, m, 1)
  <2>1. ASSUME NEW j \in DOMAIN b
        PROVE  b[j] < t + w
    <3>1. CASE b[j] = t
      BY <3>1
    <3>2. CASE a[j] \in Nat /\ b[j] = a[j] /\ a[j] < t
      BY <3>2
    <3> QED
      BY <1>2, <3>1, <3>2
  <2> QED
    BY <1>6, <1>7, <1>8, <2>1 DEF InWindow
<1>10. ASSUME NEW i \in DOMAIN b
       PROVE  Cardinality(Between(b, b[i], b[i] + w)) < 2 * m
  <2>1. CASE b[i] = t
    BY <1>7, <2>1
  <2>2. CASE i \in DOMAIN a /\ b[i] = a[i] /\ a[i] \in Nat /\ a[i] < t
    <3>1. PICK x \in Nat : x = a[i] /\ x < t
      BY <2>2
    <3>2. Cardinality(Between(a, x, x + w)) < 2 * m
      BY <2>2, <3>1 DEF Spread
    <3>3. Cardinality(Between(a, x, x + w)) \in Nat /\ Cardinality(Between(a, x, t)) \in Nat
      BY <3>1, BetweenFinite
    <3>4. CASE t < x + w
      <4>1. Between(a, x, x + w) = Between(a, x, t)
        BY <3>1, <3>4 DEF NoWindow, Between
      <4>2. Cardinality(Between(a, x, t)) <= m - 1
        BY <2>2, <3>1, <3>4 DEF NoWindow
      <4>3. Cardinality(Between(b, x, x + w)) = Cardinality(Between(a, x, t)) + 1
        BY <1>3, <3>1, <3>4, <4>1
      <4> QED
        BY <2>2, <3>1, <3>3, <4>2, <4>3
    <3>5. CASE ~(t < x + w)
      <4>1. Cardinality(Between(b, x, x + w)) = Cardinality(Between(a, x, x + w))
        BY <1>3, <3>1, <3>3, <3>5
      <4> QED
        BY <2>2, <3>1, <3>2, <4>1
    <3> QED
      BY <3>4, <3>5
  <2> QED
    BY <1>2, <2>1, <2>2
<1> QED
  BY <1>1, <1>9, <1>10 DEF Spread

LEMMA WindowFills ==
    ASSUME NEW a \in Seq(Nat), NEW s \in Nat, NEW w \in Nat \ {0}, NEW m \in Nat \ {0},
           NEW k \in Nat, k < m, InWindow(a, s, w, m, k), Spread(a, w, m),
           NEW t \in Nat, s <= t, t < s + w
    PROVE  /\ InWindow(Append(a, t), s, w, m, k + 1)
           /\ Spread(Append(a, t), w, m)
<1>1. PICK b : b = Append(a, t)
  OBVIOUS
<1>2. /\ b \in Seq(Nat)
      /\ \A i \in DOMAIN b : \/ i \in DOMAIN a /\ b[i] = a[i] /\ a[i] \in Nat /\ a[i] < s + w
                             \/ b[i] = t
  BY <1>1, AppendTimes DEF InWindow
<1>3. \A lo, hi :
         /\ Cardinality(Between(b, lo, hi))
              = Cardinality(Between(a, lo, hi)) + (IF lo <= t /\ t < hi THEN 1 ELSE 0)
         /\ Cardinality(Between(a, lo, hi)) \in Nat
         /\ Cardinality(Between(b, lo, hi)) \in Nat
  BY <1>1, <1>2, BetweenAppend, BetweenFinite
<1>4. /\ Cardinality(Between(b, s + 1, s + w)) <= k
      /\ Cardinality(Between(b, s + 1, s + w)) <= m - 1
  <2>1. Cardinality(Between(a, s + 1, s + w)) <= k - 1
    BY DEF InWindow
  <2>2. Cardinality(Between(b, s + 1, s + w)) <= Cardinality(Between(a, s + 1, s + w)) + 1
    BY <1>3
  <2> QED
    BY <1>3, <2>1, <2>2
<1>5. /\ Cardinality(Between(b, s, s + w)) <= k + 1
      /\ Cardinality(Between(b, s, s + w)) <= m
  <2>1. Cardinality(Between(a, s, s + w)) <= k
    BY DEF InWindow
  <2>2. Cardinality(Between(b, s, s + w)) <= Cardinality(Between(a, s, s + w)) + 1
    BY <1>3
  <2> QED
    BY <1>3, <2>1, <2>2
<1>6. ASSUME NEW i \in DOMAIN b, b[i] < s, s < b[i] + w
      PROVE  Cardinality(Between(b, b[i], s)) <= m - 1
  <2>1. i \in DOMAIN a /\ b[i] = a[i] /\ a[i] \in Nat
    BY <1>2, <1>6
  <2>2. Cardinality(Between(a, a[i], s)) <= m - 1
    BY <1>6, <2>1 DEF InWindow
  <2>3. Cardinality(Between(b, a[i], s)) = Cardinality(Between(a, a[i], s))
    BY <1>3, <2>1
  <2> QED
    BY <2>1, <2>2, <2>3
<1>7. \A j \in DOMAIN b : b[j] \in Nat /\ b[j] < s + w
  BY <1>2
<1>8. InWindow(b, s, w, m, k + 1)
  BY <1>4, <1>5, <1>6, <1>7 DEF InWindow
<1>9. ASSUME NEW i \in DOMAIN b
      PROVE  Cardinality(Between(b, b[i], b[i] + w)) < 2 * m
  <2>1. PICK x \in Nat : x = b[i] /\ x < s + w
    BY <1>7
  <2>2. CASE s <= x
    <3>1. Between(b, x, x + w) \subseteq Between(b, s, s + w)
      BY <1>7, <2>1, <2>2 DEF Between
    <3>2. Cardinality(Between(b, x, x + w)) <= Cardinality(Between(b, s, s + w))
      BY <1>2, <3>1, BetweenWithin
    <3> QED
      BY <1>3, <1>5, <2>1, <3>2
  <2>3. CASE x < s /\ s < x + w
    <3>1. Cardinality(Between(b, x, x + w))
            <= Cardinality(Between(b, x, s)) + Cardinality(Between(b, s, x + w))
      BY <1>2, BetweenSplit
    <3>2. Between(b, s, x + w) \subseteq Between(b, s, s + w)
      BY <1>7, <2>3 DEF Between
    <3>3. Cardinality(Between(b, s, x + w)) <= Cardinality(Between(b, s, s + w))
      BY <1>2, <3>2, BetweenWithin
    <3>4. Cardinality(Between(b, x, s)) <= m - 1
      BY <1>6, <2>1, <2>3
    <3>5. Cardinality(Between(b, s, x + w)) <= m
      BY <1>3, <1>5, <3>3
    <3>6. Cardinality(Between(b, x, x + w)) < 2 * m
      BY <1>3, <3>1, <3>4, <3>5
    <3> QED
      BY <2>1, <3>6
  <2>4. CASE x < s /\ ~(s < x + w)
    <3>1. i \in DOMAIN a /\ x = a[i]
      BY <1>2, <2>1, <2>4
    <3>2. Cardinality(Between(a, x, x + w)) < 2 * m
      BY <3>1 DEF Spread
    <3>3. Cardinality(Between(b, x, x + w)) = Cardinality(Between(a, x, x + w))
      BY <1>3, <2>4
    <3> QED
      BY <2>1, <3>2, <3>3
  <2> QED
    BY <2>2, <2>3, <2>4
<1> QED
  BY <1>1, <1>8, <1>9 DEF Spread

\* Nothing let through is within every limit.
LEMMA NothingYet ==
    ASSUME NEW w \in Nat, NEW m \in Nat \ {0}, NEW t \in Nat
    PROVE  /\ Spread(<< >>, w, m) /\ NoWindow(<< >>, t, w, m)
           /\ \A s \in Nat, k \in Nat \ {0} : InWindow(<< >>, s, w, m, k)
<1>1. DOMAIN << >> = {} /\ \A lo, hi : Between(<< >>, lo, hi) = {}
  BY DEF Between
<1>2. \A lo, hi : Cardinality(Between(<< >>, lo, hi)) = 0
  <2>1. Cardinality({}) = 0
    BY FS_EmptySet
  <2> QED
    BY <1>1, <2>1, Zenon
<1>3. \A i : i \notin DOMAIN << >>
  BY <1>1
<1>4. Spread(<< >>, w, m) /\ NoWindow(<< >>, t, w, m)
  BY <1>3 DEF Spread, NoWindow
<1>5. ASSUME NEW s \in Nat, NEW k \in Nat \ {0}
      PROVE  InWindow(<< >>, s, w, m, k)
  <2>1. 0 <= k - 1 /\ 0 <= m - 1 /\ 0 <= k /\ 0 <= m
    OBVIOUS
  <2> QED
    BY <1>2, <1>3, <2>1 DEF InWindow
<1> QED
  BY <1>4, <1>5

-----------------------------------------------------------------------------
(* What the steps keep.                                                    *)

\* No limit that counts lasts no time: configure_route and
\* configure_caller_rate_limit refuse a window of 0 with calls to count.
Sane ==
    /\ config # None => (config.window = 0 => config.max = 0)
    /\ \A c \in Callers : override[c] # None => (override[c].window = 0 => override[c].calls = 0)

\* A window opened in the past, with a call.
Clocks ==
    /\ \A c \in DOMAIN rates : rates[c].start <= now /\ rates[c].calls >= 1
    /\ breaker.openedAt <= now

HistoryTypeOK ==
    /\ admitted \in [Callers -> Seq(Nat)]
    /\ reported \in Seq(Calls)
    /\ streak \in Nat
    /\ opened \in Nat
    /\ opened <= now

\* The failures a closed breaker counts are those reported in a row.
Counted == Closed => breaker.failures = streak

\* The breaker dates an opening no earlier than it was.
OpenedFirst == breaker.open => opened <= breaker.openedAt

\* The caller's entry, or its absence, accounts for what it was let through.
HeldTo(c, limit) ==
    /\ Spread(admitted[c], limit.window, limit.calls)
    /\ IF c \in DOMAIN rates
         THEN InWindow(admitted[c], rates[c].start, limit.window, limit.calls, rates[c].calls)
         ELSE NoWindow(admitted[c], now, limit.window, limit.calls)

Held ==
    config # None /\ strategy = "reject" =>
        \A c \in Callers : LimitOf(c) # None => HeldTo(c, LimitOf(c))

Retention == IF config = None THEN 0 ELSE config.retention

\* Position i of a ring of r entries whose oldest is after position h.
Slot(h, i, r) == IF h + i <= r THEN h + i ELSE h + i - r

\* The ring l of at most r entries holds the last of the calls s.
RingOf(l, s, r) ==
    /\ r > 0
    /\ Len(l.entries) \in 1 .. r
    /\ l.count = Min(Len(s), r)
    /\ Len(s) < r =>
          /\ Len(l.entries) = r \/ (Len(l.entries) = Len(s) /\ l.head = 0)
          /\ Len(l.entries) = r => l.head = Len(s)
          /\ \A i \in 1 .. Len(s) : l.entries[i] = s[i]
    /\ Len(s) >= r =>
          /\ Len(l.entries) = r
          /\ l.head < r
          /\ \A i \in 1 .. r : l.entries[Slot(l.head, i, r)] = s[Len(s) - r + i]

Ring == IF log = None THEN reported = << >> ELSE RingOf(log, reported, Retention)

\* The summary counts the calls s.
SummaryOf(s) ==
    [total |-> Len(s),
     successes |-> Cardinality({i \in 1 .. Len(s) : s[i].success}),
     failures |-> Cardinality({i \in 1 .. Len(s) : ~s[i].success}),
     last |-> s[Len(s)].time]

Summed == IF reported = << >> THEN summary = None ELSE summary = SummaryOf(reported)

\* Only a caller who calls gets an entry.
EntriesFinite == IsFiniteSet(DOMAIN rates)

MiddlewareInv ==
    /\ TypeOK
    /\ Sane
    /\ Clocks
    /\ HistoryTypeOK
    /\ Counted
    /\ OpenedFirst
    /\ Held
    /\ Ring
    /\ Summed
    /\ EntriesFinite

LEMMA Started == HistoryInit => MiddlewareInv
<1> SUFFICES ASSUME HistoryInit
             PROVE  MiddlewareInv
  OBVIOUS
<1> USE DEF HistoryInit, Init
<1>1. TypeOK
  BY MiddlewareNumbers DEF TypeOK, ClosedBreaker, AllStrategies
<1>2. Sane /\ Clocks
  BY DEF Sane, Clocks, ClosedBreaker
<1>3. HistoryTypeOK
  BY DEF HistoryTypeOK
<1>4. Counted /\ OpenedFirst
  BY DEF Counted, OpenedFirst, ClosedBreaker, Closed
<1>5. Held /\ Ring /\ Summed
  BY DEF Held, Ring, Summed
<1>6. EntriesFinite
  <2>1. DOMAIN rates = {}
    OBVIOUS
  <2> QED
    BY <2>1, FS_EmptySet, Zenon DEF EntriesFinite
<1> QED
  BY <1>1, <1>2, <1>3, <1>4, <1>5, <1>6 DEF MiddlewareInv

-----------------------------------------------------------------------------
(* Types, and what the admin's calls do taken together.                    *)

\* The log stays, is cleared, or is allocated anew.
LogAnew ==
    \/ UNCHANGED logged /\ Retention' = Retention
    \/ log' = None /\ summary' = None
    \/ /\ Retention' \in Nat \ {0}
       /\ \E a \in Callers : log' = EmptyLog(a, Retention')
       /\ summary' = None \/ (config = None /\ summary' = summary)

Anew ==
    /\ now' = now /\ pruned' = pruned /\ total' \in {0, total}
    /\ rates' = rates \/ \E b \in Callers : rates' = Delete(rates, {b})
    /\ breaker' = breaker \/ breaker' = ClosedBreaker
    /\ LogAnew

SettingsOK ==
    /\ admin \in Callers \cup {None}
    /\ enabled \in BOOLEAN
    /\ config \in RouteConfigs \cup {None}
    /\ strategy \in AllStrategies
    /\ override \in [Callers -> Limits \cup {None}]

\* The admin's calls leave proper settings, and of the rest only start entries,
\* breaker or log anew, the log whenever its size changes.
LEMMA AdministerAnew ==
    ASSUME TypeOK, Sane, Administer
    PROVE  SettingsOK' /\ Sane' /\ Anew
<1> DEFINE Good == SettingsOK' /\ Sane' /\ Anew
<1> USE MiddlewareInputs
<1>0. SettingsOK
  BY DEF TypeOK, SettingsOK
<1>1. PICK a \in Callers :
        \/ Initialize(a)
        \/ \E new \in Configs : ConfigureRoute(a, new)
        \/ \E on \in Toggles : SetGlobalEnabled(a, on)
        \/ \E s \in Strategies : SetRateLimitStrategy(a, s)
        \/ ResetRouteCallLog(a)
        \/ ResetCircuitBreaker(a)
        \/ \E b \in Callers :
              \/ TransferAdmin(a, b)
              \/ ResetRateLimit(a, b)
              \/ RemoveCallerRateLimit(a, b)
              \/ \E limit \in Overrides : ConfigureCallerRateLimit(a, b, limit)
  BY DEF Administer
<1> USE DEF settings, callState, logged
<1>2. CASE Initialize(a)
  BY <1>0, <1>2 DEF Initialize, SettingsOK, Sane, Anew, LogAnew, Retention
<1>3. ASSUME NEW new \in Configs, ConfigureRoute(a, new)
      PROVE  Good
  <2>1. new \in RouteConfigs /\ new # None /\ new.retention \in Nat
    BY MiddlewareNone DEF RouteConfigs
  <2>2. SettingsOK'
    BY <1>0, <1>3, <2>1 DEF ConfigureRoute, SettingsOK
  <2>3. Sane'
    BY <1>3, <2>1 DEF ConfigureRoute, Sane
  <2>4. Retention' = new.retention
    BY <1>3, <2>1 DEF ConfigureRoute, Retention
  <2>5. LogAnew
    <3>1. CASE config # None /\ config.retention = new.retention
      BY <1>3, <2>4, <3>1 DEF ConfigureRoute, LogAnew, Retention
    <3>2. CASE ~(config # None /\ config.retention = new.retention) /\ new.retention > 0
      BY <1>3, <2>1, <2>4, <3>2 DEF ConfigureRoute, LogAnew
    <3>3. CASE ~(config # None /\ config.retention = new.retention) /\ ~(new.retention > 0)
      BY <1>3, <2>1, <2>4, <3>3 DEF ConfigureRoute, LogAnew, Retention
    <3> QED
      BY <3>1, <3>2, <3>3
  <2> QED
    BY <1>3, <2>2, <2>3, <2>5 DEF ConfigureRoute, Anew
<1>4. ASSUME NEW on \in Toggles, SetGlobalEnabled(a, on)
      PROVE  Good
  BY <1>0, <1>4 DEF SetGlobalEnabled, SettingsOK, Sane, Anew, LogAnew, Retention
<1>5. ASSUME NEW s \in Strategies, SetRateLimitStrategy(a, s)
      PROVE  Good
  BY <1>0, <1>5 DEF SetRateLimitStrategy, SettingsOK, Sane, Anew, LogAnew, Retention
<1>6. CASE ResetRouteCallLog(a)
  BY <1>0, <1>6 DEF ResetRouteCallLog, ClearLog, SettingsOK, Sane, Anew, LogAnew
<1>7. CASE ResetCircuitBreaker(a)
  BY <1>0, <1>7 DEF ResetCircuitBreaker, ResetBreaker, SettingsOK, Sane, Anew, LogAnew, Retention
<1>8. ASSUME NEW b \in Callers, TransferAdmin(a, b)
      PROVE  Good
  BY <1>0, <1>8 DEF TransferAdmin, SettingsOK, Sane, Anew, LogAnew, Retention
<1>9. ASSUME NEW b \in Callers, ResetRateLimit(a, b)
      PROVE  Good
  BY <1>0, <1>9
     DEF ResetRateLimit, ResetForCaller, SettingsOK, Sane, Anew, LogAnew, Retention
<1>10. ASSUME NEW b \in Callers, RemoveCallerRateLimit(a, b)
       PROVE  Good
  <2>1. SettingsOK'
    BY <1>0, <1>10 DEF RemoveCallerRateLimit, SettingsOK
  <2>2. Sane'
    BY <1>0, <1>10 DEF RemoveCallerRateLimit, SettingsOK, Sane
  <2>3. Anew
    BY <1>10 DEF RemoveCallerRateLimit, Anew, LogAnew, Retention
  <2> QED
    BY <2>1, <2>2, <2>3
<1>11. ASSUME NEW b \in Callers, NEW limit \in Overrides, ConfigureCallerRateLimit(a, b, limit)
       PROVE  Good
  <2>1. SettingsOK'
    BY <1>0, <1>11 DEF ConfigureCallerRateLimit, SettingsOK
  <2>2. Sane'
    BY <1>0, <1>11 DEF ConfigureCallerRateLimit, SettingsOK, Sane
  <2>3. Anew
    BY <1>11 DEF ConfigureCallerRateLimit, Anew, LogAnew, Retention
  <2> QED
    BY <2>1, <2>2, <2>3
<1> QED
  BY <1>1, <1>2, <1>3, <1>4, <1>5, <1>6, <1>7, <1>8, <1>9, <1>10, <1>11

-----------------------------------------------------------------------------
(* Windows.  The clock never reaches MaxU64, so that saturating sums are   *)
(* compared with it as the sums would be.                                  *)

Entries == [calls : Nat, start : 0 .. MaxTime, violations : Nat]

EntryTypes ==
    \A c \in DOMAIN rates : /\ rates[c] \in Entries
                            /\ rates[c].start \in Nat /\ rates[c].calls \in Nat
                            /\ rates[c].violations \in Nat

LEMMA EntriesTyped == TypeOK => EntryTypes
<1> SUFFICES ASSUME TypeOK, NEW c \in DOMAIN rates
             PROVE  /\ rates[c] \in Entries
                    /\ rates[c].start \in Nat /\ rates[c].calls \in Nat
                    /\ rates[c].violations \in Nat
  BY DEF EntryTypes
<1>1. rates \in [DOMAIN rates -> Entries]
  BY DEF TypeOK, Entries
<1>2. rates[c] \in Entries
  BY <1>1
<1> QED
  BY <1>2, MiddlewareNumbers DEF Entries

LEMMA Saturates ==
    ASSUME TypeOK, NEW n \in Nat
    PROVE  now >= Saturating(n) <=> now >= n
  BY MiddlewareNumbers DEF TypeOK, Saturating, Min

LEMMA Limited ==
    ASSUME TypeOK, Sane, NEW c \in Callers, config # None, LimitOf(c) # None
    PROVE  /\ LimitOf(c).calls \in Nat \ {0} /\ LimitOf(c).window \in Nat \ {0}
           /\ EffectiveWindow(c) = LimitOf(c).window
<1>1. MaxU32 \in Nat /\ MaxU64 \in Nat
  BY MiddlewareNumbers
<1>2. CASE override[c] # None
  <2>1. PICK o \in Limits : o = override[c]
    BY <1>2 DEF TypeOK
  <2>2. o.calls \in Nat /\ o.window \in Nat
    BY <1>1, <2>1 DEF Limits
  <2>3. o.calls # 0 /\ LimitOf(c) = o
    BY <1>2, <2>1 DEF LimitOf
  <2>4. o.window # 0
    BY <1>2, <2>1, <2>3 DEF Sane
  <2> QED
    BY <1>2, <2>1, <2>2, <2>3, <2>4 DEF EffectiveWindow
<1>3. CASE override[c] = None
  <2>1. PICK f \in RouteConfigs : f = config
    BY DEF TypeOK
  <2>2. f.max \in 0 .. MaxU32 /\ f.window \in Nat /\ f.burst \in Nat
    BY <1>1, <2>1 DEF RouteConfigs
  <2>3. f.max # 0 /\ LimitOf(c) = [calls |-> Min(f.max + f.burst, MaxU32), window |-> f.window]
    BY <1>3, <2>1 DEF LimitOf
  <2>4. f.window # 0
    BY <2>1, <2>3 DEF Sane
  <2>5. Min(f.max + f.burst, MaxU32) \in Nat \ {0}
    BY <1>1, <2>2, <2>3 DEF Min
  <2> QED
    BY <1>3, <2>1, <2>2, <2>3, <2>4, <2>5 DEF EffectiveWindow
<1> QED
  BY <1>2, <1>3

\* What pruning leaves, and that it takes only windows that are over.
LEMMA PruneLeaves ==
    ASSUME TypeOK
    PROVE  /\ DOMAIN Pruned \subseteq DOMAIN rates
           /\ DOMAIN Pruned \subseteq Callers
           /\ Pruned = [c \in DOMAIN Pruned |-> Pruned[c]]
           /\ \A c \in DOMAIN Pruned : Pruned[c] = rates[c] /\ Pruned[c] \in Entries
           /\ \A c \in DOMAIN rates \ DOMAIN Pruned : Stale(c)
  BY DEF TypeOK, Pruned, Delete, Entries

LEMMA StaleIsOver ==
    ASSUME TypeOK, Sane, NEW c \in Callers, config # None, LimitOf(c) # None,
           c \in DOMAIN rates, Stale(c)
    PROVE  now >= rates[c].start + LimitOf(c).window
<1>1. PICK w \in Nat \ {0} : w = LimitOf(c).window /\ w = EffectiveWindow(c)
  BY Limited
<1>2. PICK s \in Nat : s = rates[c].start
  BY EntriesTyped DEF EntryTypes
<1>3. PICK t \in Nat : t = now /\ t < MaxU64
  BY MiddlewareNumbers DEF TypeOK
<1>4. PICK x \in Nat : x = w * StaleWindows /\ x >= w
  <2>1. PICK m \in Nat : m = StaleWindows /\ m > 0
    BY MiddlewareNumbers
  <2>2. w * m \in Nat /\ w * m >= w
    BY <2>1
  <2> QED
    BY <2>1, <2>2
<1>5. PICK y \in Nat : y = Saturating(x) /\ y = (IF x < MaxU64 THEN x ELSE MaxU64)
  BY MiddlewareNumbers DEF Saturating, Min
<1>6. y # 0
  BY <1>3, <1>4, <1>5
<1>7. t >= Saturating(s + y)
  BY <1>1, <1>2, <1>3, <1>4, <1>5, <1>6 DEF Stale
<1>8. t >= s + y
  BY <1>2, <1>3, <1>5, <1>7, Saturates
<1> QED
  BY <1>1, <1>2, <1>3, <1>4, <1>5, <1>8, MiddlewareNumbers

\* What a call finds and leaves of its caller's window.
LEMMA Accounted ==
    ASSUME TypeOK, Sane, Clocks, NEW c \in Callers, config # None, LimitOf(c) # None,
           NEW l, l = LimitOf(c), NEW e, e = CheckAndIncrement(c, l)
    PROVE  /\ e \in Entries /\ e.calls >= 1 /\ e.start <= now
           /\ c \in DOMAIN Pruned /\ now < rates[c].start + l.window =>
                /\ e.start = rates[c].start
                /\ Exceeded(c, l) <=> rates[c].calls >= l.calls
                /\ ~Exceeded(c, l) => e.calls = rates[c].calls + 1
           /\ ~(c \in DOMAIN Pruned /\ now < rates[c].start + l.window) =>
                e.start = now /\ e.calls = 1
<1>1. l.calls \in Nat \ {0} /\ l.window \in Nat \ {0}
  BY Limited
<1>2. PICK t \in 0 .. MaxTime : t = now
  BY DEF TypeOK
<1>3. PICK s : s = WindowOf(c, Pruned, l.window)
  OBVIOUS
<1>4. Exceeded(c, l) <=> s.calls >= l.calls
  BY <1>3 DEF Exceeded
<1>5. CASE c \in DOMAIN Pruned /\ now < rates[c].start + l.window
  <2>1. PICK r \in Entries : r = rates[c] /\ r = Pruned[c]
    BY <1>5, PruneLeaves
  <2>2. r.start <= t /\ r.calls >= 1 /\ r.calls \in Nat /\ r.start \in 0 .. MaxTime
        /\ r.violations \in Nat
    BY <1>2, <1>5, <2>1, PruneLeaves DEF Clocks, Entries
  <2>3. ~WindowElapsed(r.start, l.window)
    <3>1. r.start + l.window \in Nat
      BY <1>1, <2>2, MiddlewareNumbers
    <3> QED
      BY <1>1, <1>2, <1>5, <2>1, <2>2, <3>1, Saturates, MiddlewareNumbers DEF WindowElapsed
  <2>4. s = r
    BY <1>3, <1>5, <2>1, <2>3 DEF WindowOf
  <2>5. CASE s.calls >= l.calls
    <3>1. e = [r EXCEPT !.violations = @ + 1]
      BY <1>3, <1>4, <2>4, <2>5 DEF CheckAndIncrement
    <3>2. e \in Entries /\ e.calls = r.calls /\ e.start = r.start
      BY <2>2, <3>1 DEF Entries
    <3> QED
      BY <1>2, <1>4, <1>5, <2>1, <2>2, <2>4, <2>5, <3>2
  <2>6. CASE ~(s.calls >= l.calls)
    <3>1. e = [r EXCEPT !.calls = @ + 1]
      BY <1>3, <1>4, <2>4, <2>6 DEF CheckAndIncrement
    <3>2. e \in Entries /\ e.calls = r.calls + 1 /\ e.start = r.start
      BY <2>2, <3>1 DEF Entries
    <3> QED
      BY <1>2, <1>4, <1>5, <2>1, <2>2, <2>4, <2>6, <3>2
  <2> QED
    BY <2>5, <2>6
<1>6. CASE ~(c \in DOMAIN Pruned /\ now < rates[c].start + l.window)
  <2>1. PICK v \in Nat : s = [calls |-> 0, start |-> now, violations |-> v]
    <3>1. CASE c \notin DOMAIN Pruned
      <4>1. s = [calls |-> 0, start |-> now, violations |-> 0]
        BY <1>3, <3>1 DEF WindowOf
      <4> QED
        BY <4>1
    <3>2. CASE c \in DOMAIN Pruned
      <4>1. PICK r \in Entries : r = rates[c] /\ r = Pruned[c]
        BY <3>2, PruneLeaves
      <4>2. r.start \in Nat /\ r.start + l.window \in Nat
        BY <1>1, <4>1, MiddlewareNumbers DEF Entries
      <4>3. WindowElapsed(r.start, l.window)
        BY <1>1, <1>2, <1>6, <3>2, <4>1, <4>2, Saturates, MiddlewareNumbers DEF WindowElapsed
      <4>4. s = [r EXCEPT !.calls = 0, !.start = now]
        BY <1>3, <3>2, <4>1, <4>3 DEF WindowOf
      <4> QED
        BY <4>1, <4>4 DEF Entries
    <3> QED
      BY <3>1, <3>2
  <2>2. s.calls = 0 /\ ~Exceeded(c, l)
    BY <1>1, <1>4, <2>1
  <2>3. e = [calls |-> 1, start |-> now, violations |-> v]
    BY <1>3, <2>1, <2>2 DEF CheckAndIncrement
  <2> QED
    BY <1>2, <1>6, <2>3 DEF Entries
<1> QED
  BY <1>5, <1>6

-----------------------------------------------------------------------------
(* The steps keep types and clocks.                                        *)

EntriesOK ==
    /\ DOMAIN rates \subseteq Callers
    /\ rates = [c \in DOMAIN rates |-> rates[c]]
    /\ \A c \in DOMAIN rates :
          rates[c] \in Entries /\ rates[c].start <= now /\ rates[c].calls >= 1

Breakers == [failures : Nat, openedAt : 0 .. MaxTime, open : BOOLEAN, halfOpen : BOOLEAN]

BreakerOK ==
    /\ breaker \in Breakers
    /\ ~(breaker.open /\ breaker.halfOpen)
    /\ breaker.openedAt <= now

LEMMA TypesInParts ==
    ASSUME now \in 0 .. MaxTime
    PROVE  TypeOK /\ Clocks <=>
             /\ SettingsOK /\ EntriesOK /\ BreakerOK
             /\ total \in 0 .. MaxCalls /\ pruned \in 0 .. MaxTime
             /\ log \in Logs \cup {None} /\ summary \in Summaries \cup {None}
  BY DEF TypeOK, Clocks, SettingsOK, EntriesOK, BreakerOK, Breakers, Entries

LEMMA EntriesKept ==
    ASSUME TypeOK, Sane, Clocks, HistoryNext
    PROVE  EntriesOK'
<1>1. EntriesOK /\ now \in 0 .. MaxTime
  BY TypesInParts DEF TypeOK
<1>2. CASE Administer
  <2>1. now' = now /\ (rates' = rates \/ \E b \in Callers : rates' = Delete(rates, {b}))
    BY <1>2, AdministerAnew DEF Anew
  <2> QED
    BY <1>1, <2>1 DEF EntriesOK, Delete
<1>3. CASE Tick
  BY <1>1, <1>3, MiddlewareNumbers DEF Tick, callState, EntriesOK, Entries
<1>4. ASSUME NEW c \in Callers, PreCall(c)
      PROVE  EntriesOK'
  <2>0. now' = now
    BY <1>4 DEF PreCall
  <2>1. CASE config = None
    BY <1>1, <1>4, <2>0, <2>1 DEF PreCall, callState, EntriesOK
  <2>2. CASE config # None /\ LimitOf(c) = None
    <3>1. rates' = Pruned
      BY <1>4, <2>2 DEF PreCall
    <3>2. PICK p : p = Pruned
      OBVIOUS
    <3>3. /\ DOMAIN p \subseteq Callers /\ p = [d \in DOMAIN p |-> p[d]]
          /\ \A d \in DOMAIN p : p[d] \in Entries /\ p[d].start <= now /\ p[d].calls >= 1
      BY <1>1, <3>2, PruneLeaves DEF EntriesOK
    <3> QED
      BY <2>0, <3>1, <3>2, <3>3 DEF EntriesOK
  <2>3. CASE config # None /\ LimitOf(c) # None
    <3>1. PICK l : l = LimitOf(c)
      OBVIOUS
    <3>2. PICK e : e = CheckAndIncrement(c, l)
      OBVIOUS
    <3>3. PICK p : p = Pruned
      OBVIOUS
    <3>4. e \in Entries /\ e.calls >= 1 /\ e.start <= now
      BY <2>3, <3>1, <3>2, Accounted
    <3>5. /\ DOMAIN p \subseteq Callers
          /\ \A d \in DOMAIN p : p[d] \in Entries /\ p[d].start <= now /\ p[d].calls >= 1
      BY <1>1, <3>3, PruneLeaves DEF EntriesOK
    <3>6. rates' = [d \in DOMAIN p \cup {c} |-> IF d = c THEN e ELSE p[d]]
      BY <1>4, <2>3, <3>1, <3>2, <3>3 DEF PreCall, Put
    <3> QED
      BY <2>0, <3>4, <3>5, <3>6 DEF EntriesOK
  <2> QED
    BY <2>1, <2>2, <2>3
<1>5. ASSUME NEW c \in Callers, NEW success \in BOOLEAN, PostCall(c, success)
      PROVE  EntriesOK'
  BY <1>1, <1>5 DEF PostCall, EntriesOK
<1> QED
  BY <1>2, <1>3, <1>4, <1>5 DEF HistoryNext, RememberAdminister, RememberPreCall, RememberPostCall

LEMMA BreakerKept ==
    ASSUME TypeOK, Sane, Clocks, HistoryNext
    PROVE  BreakerOK'
<1>1. BreakerOK /\ now \in 0 .. MaxTime
  BY TypesInParts DEF TypeOK
<1>0. PICK b \in Breakers : b = breaker
  BY <1>1 DEF BreakerOK
<1>10. /\ b.failures \in Nat /\ b.openedAt \in 0 .. MaxTime
       /\ b.open \in BOOLEAN /\ b.halfOpen \in BOOLEAN
       /\ ~(b.open /\ b.halfOpen) /\ b.openedAt <= now
  BY <1>0, <1>1 DEF Breakers, BreakerOK
<1>11. ClosedBreaker \in Breakers /\ ~ClosedBreaker.open /\ ClosedBreaker.openedAt <= now
  BY <1>1, MiddlewareNumbers DEF ClosedBreaker, Breakers
<1>2. CASE Administer
  <2>1. now' = now /\ (breaker' = breaker \/ breaker' = ClosedBreaker)
    BY <1>2, AdministerAnew DEF Anew
  <2> QED
    BY <1>1, <1>11, <2>1 DEF BreakerOK
<1>3. CASE Tick
  BY <1>0, <1>1, <1>10, <1>3, MiddlewareNumbers DEF Tick, callState, BreakerOK
<1>4. ASSUME NEW c \in Callers, PreCall(c)
      PROVE  BreakerOK'
  <2>1. now' = now /\ (breaker' = breaker \/ breaker' = CheckAndTransition)
    BY <1>4 DEF PreCall, callState
  <2>2. PICK n : n = [b EXCEPT !.open = FALSE, !.halfOpen = TRUE]
    OBVIOUS
  <2>3. n \in Breakers /\ n.openedAt = b.openedAt /\ ~n.open
    BY <1>10, <2>2 DEF Breakers
  <2>4. CheckAndTransition = b \/ CheckAndTransition = n
    BY <1>0, <2>2 DEF CheckAndTransition
  <2> QED
    BY <1>0, <1>1, <1>10, <2>1, <2>3, <2>4 DEF BreakerOK
<1>5. ASSUME NEW c \in Callers, NEW success \in BOOLEAN, PostCall(c, success)
      PROVE  BreakerOK'
  <2>1. now' = now /\ (breaker' = breaker \/ breaker' = HandleSuccess \/ breaker' = HandleFailure)
    BY <1>5 DEF PostCall
  <2>2. CASE breaker' = HandleSuccess
    <3>1. PICK n : n = [b EXCEPT !.failures = 0]
      OBVIOUS
    <3>2. n \in Breakers /\ n.openedAt = b.openedAt /\ n.open = b.open /\ n.halfOpen = b.halfOpen
      BY <1>10, <3>1 DEF Breakers
    <3>3. HandleSuccess = ClosedBreaker \/ HandleSuccess = b \/ HandleSuccess = n
      BY <1>0, <3>1 DEF HandleSuccess
    <3> QED
      BY <1>0, <1>1, <1>10, <1>11, <2>1, <2>2, <3>2, <3>3 DEF BreakerOK
  <2>3. CASE breaker' = HandleFailure
    <3>1. PICK m \in Nat : m = b.failures + 1
      BY <1>10
    <3>2. PICK x : x = [failures |-> 1, openedAt |-> now, open |-> TRUE, halfOpen |-> FALSE]
      OBVIOUS
    <3>3. PICK y : y = [b EXCEPT !.failures = m, !.open = TRUE, !.openedAt = now]
      OBVIOUS
    <3>4. PICK z : z = [b EXCEPT !.failures = m]
      OBVIOUS
    <3>5. x \in Breakers /\ x.openedAt <= now /\ ~x.halfOpen
      BY <1>1, <3>2, MiddlewareNumbers DEF Breakers
    <3>6. y \in Breakers /\ y.openedAt <= now /\ y.halfOpen = b.halfOpen
      <4>1. y = [failures |-> m, openedAt |-> now, open |-> TRUE, halfOpen |-> b.halfOpen]
        BY <3>3 DEF Breakers
      <4>2. now <= now
        BY <1>1, MiddlewareNumbers
      <4> QED
        BY <1>1, <1>10, <4>1, <4>2 DEF Breakers
    <3>7. z \in Breakers /\ z.openedAt = b.openedAt /\ z.open = b.open /\ z.halfOpen = b.halfOpen
      BY <1>10, <3>1, <3>4 DEF Breakers
    <3>8. \/ HandleFailure = x
          \/ ~b.halfOpen /\ HandleFailure = y
          \/ HandleFailure = z
      BY <1>0, <3>1, <3>2, <3>3, <3>4 DEF HandleFailure
    <3> QED
      BY <1>10, <2>1, <2>3, <3>5, <3>6, <3>7, <3>8 DEF BreakerOK
  <2> QED
    BY <1>1, <2>1, <2>2, <2>3 DEF BreakerOK
<1> QED
  BY <1>2, <1>3, <1>4, <1>5 DEF HistoryNext, RememberAdminister, RememberPreCall, RememberPostCall

LEMMA HistoryTypesKept ==
    ASSUME TypeOK, Sane, HistoryTypeOK, HistoryNext
    PROVE  HistoryTypeOK'
<1>1. now \in 0 .. MaxTime /\ MaxTime \in Nat
  BY MiddlewareNumbers DEF TypeOK
<1>2. CASE RememberAdminister
  <2>1. now' = now
    BY <1>2, AdministerAnew DEF RememberAdminister, Anew
  <2>2. admitted' \in [Callers -> Seq(Nat)]
    BY <1>2 DEF RememberAdminister, HistoryTypeOK
  <2> QED
    BY <1>2, <2>1, <2>2 DEF RememberAdminister, HistoryTypeOK
<1>3. CASE Tick /\ UNCHANGED history
  BY <1>1, <1>3 DEF Tick, history, HistoryTypeOK
<1>4. ASSUME NEW c \in Callers, RememberPreCall(c)
      PROVE  HistoryTypeOK'
  <2>1. now' = now
    BY <1>4 DEF RememberPreCall, PreCall
  <2>2. admitted' \in [Callers -> Seq(Nat)]
    BY <1>1, <1>4 DEF RememberPreCall, HistoryTypeOK
  <2> QED
    BY <1>4, <2>1, <2>2 DEF RememberPreCall, HistoryTypeOK
<1>5. ASSUME NEW c \in Callers, NEW s \in BOOLEAN, RememberPostCall(c, s)
      PROVE  HistoryTypeOK'
  <2>1. now' = now
    BY <1>5 DEF RememberPostCall, PostCall
  <2>2. Call(c, s) \in Calls
    BY <1>1 DEF Call, Calls
  <2>3. reported' \in Seq(Calls)
    BY <1>5, <2>2 DEF RememberPostCall, HistoryTypeOK
  <2>4. opened' \in Nat /\ opened' <= now
    BY <1>1, <1>5 DEF RememberPostCall, HistoryTypeOK
  <2>5. streak' \in Nat
    BY <1>5 DEF RememberPostCall, HistoryTypeOK
  <2> QED
    BY <1>5, <2>1, <2>3, <2>4, <2>5 DEF RememberPostCall, HistoryTypeOK
<1> QED
  BY <1>2, <1>3, <1>4, <1>5 DEF HistoryNext

LogOK == log \in Logs \cup {None} /\ summary \in Summaries \cup {None}

LEMMA EmptyLogType ==
    ASSUME NEW c \in Callers, NEW size \in Nat
    PROVE  /\ EmptyLog(c, size) \in Logs
           /\ Len(EmptyLog(c, size).entries) = size
           /\ EmptyLog(c, size).head = 0 /\ EmptyLog(c, size).count = 0
<1>1. PICK e : e = [i \in 1 .. size |-> [caller |-> c, time |-> 0, success |-> FALSE]]
  OBVIOUS
<1>2. e \in Seq(Calls) /\ Len(e) = size
  <2>1. e \in [1 .. size -> Calls]
    BY <1>1 DEF Calls
  <2> QED
    BY <2>1
<1>3. EmptyLog(c, size) = [entries |-> e, head |-> 0, count |-> 0]
  BY <1>1 DEF EmptyLog
<1> QED
  BY <1>2, <1>3 DEF Logs

\* The log a call is appended to.
OldLog == IF log = None THEN [entries |-> << >>, head |-> 0, count |-> 0] ELSE log

LEMMA Appended ==
    ASSUME LogOK, NEW call \in Calls, NEW r \in Nat \ {0}, r = config.retention,
           NEW o, o = OldLog
    PROVE  /\ o \in Logs /\ AppendLog(call) \in Logs
           /\ AppendLog(call).count = Min(o.count + 1, r)
           /\ Len(o.entries) < r =>
                /\ AppendLog(call).entries = Append(o.entries, call)
                /\ AppendLog(call).head = o.head
           /\ ~(Len(o.entries) < r) =>
                /\ AppendLog(call).entries = [o.entries EXCEPT ![o.head + 1] = call]
                /\ AppendLog(call).head = (o.head + 1) % r
<1>1. << >> \in Seq(Calls)
  OBVIOUS
<1>2. o \in Logs
  BY <1>1 DEF LogOK, OldLog, Logs
<1>3. PICK e \in Seq(Calls) : e = o.entries
  BY <1>2 DEF Logs
<1>4. PICK h \in Nat : h = o.head
  BY <1>2 DEF Logs
<1>5. PICK n \in Nat : n = o.count
  BY <1>2 DEF Logs
<1>6. Min(n + 1, r) \in Nat
  BY DEF Min
<1>7. (h + 1) % r \in Nat
  OBVIOUS
<1>8. CASE Len(e) < r
  <2>1. AppendLog(call) = [entries |-> Append(e, call), head |-> h, count |-> Min(n + 1, r)]
    BY <1>3, <1>4, <1>5, <1>8 DEF AppendLog, OldLog
  <2>2. Append(e, call) \in Seq(Calls)
    OBVIOUS
  <2> QED
    BY <1>2, <1>3, <1>4, <1>5, <1>6, <1>8, <2>1, <2>2 DEF Logs
<1>9. CASE ~(Len(e) < r)
  <2>1. AppendLog(call) = [entries |-> [e EXCEPT ![h + 1] = call],
                           head |-> (h + 1) % r, count |-> Min(n + 1, r)]
    BY <1>3, <1>4, <1>5, <1>9 DEF AppendLog, OldLog
  <2>2. [e EXCEPT ![h + 1] = call] \in Seq(Calls)
    <3>1. PICK k \in Nat : k = Len(e) /\ e \in [1 .. k -> Calls]
      OBVIOUS
    <3>2. [e EXCEPT ![h + 1] = call] \in [1 .. k -> Calls]
      BY <3>1
    <3> QED
      BY <3>2
  <2> QED
    BY <1>2, <1>3, <1>4, <1>5, <1>6, <1>7, <1>9, <2>1, <2>2 DEF Logs
<1> QED
  BY <1>8, <1>9

LEMMA RetentionType ==
    ASSUME SettingsOK
    PROVE  Retention \in Nat
  BY DEF SettingsOK, RouteConfigs, Retention

\* What a report does to log and summary, when it does anything.
LEMMA Logged ==
    ASSUME TypeOK, NEW c \in Callers, NEW success \in BOOLEAN, RememberPostCall(c, success)
    PROVE  /\ Retention' = Retention
           /\ \/ UNCHANGED <<log, summary, reported>>
              \/ /\ Retention \in Nat \ {0} /\ Retention = config.retention
                 /\ Call(c, success) \in Calls
                 /\ log' = AppendLog(Call(c, success))
                 /\ summary' = AddToSummary(Call(c, success))
                 /\ reported' = Append(reported, Call(c, success))
<1>1. PostCall(c, success) /\ config # None
  BY DEF RememberPostCall, PostCall
<1>2. Retention = config.retention /\ config.retention \in Nat /\ Retention' = Retention
  BY <1>1, RetentionType DEF PostCall, settings, Retention, SettingsOK, TypeOK
<1>3. Call(c, success) \in Calls
  BY MiddlewareNumbers DEF TypeOK, Call, Calls
<1> QED
  BY <1>1, <1>2, <1>3 DEF PostCall, RememberPostCall, logged

LEMMA LogKept ==
    ASSUME TypeOK, Sane, HistoryNext
    PROVE  LogOK'
<1>1. LogOK
  BY DEF TypeOK, LogOK
<1>2. CASE Administer
  <2>1. LogAnew
    BY <1>2, AdministerAnew DEF Anew
  <2>2. \A a \in Callers, r \in Nat : EmptyLog(a, r) \in Logs
    BY EmptyLogType
  <2> QED
    BY <1>1, <2>1, <2>2 DEF LogOK, LogAnew, logged
<1>3. CASE Tick
  BY <1>1, <1>3 DEF Tick, logged, LogOK
<1>4. ASSUME NEW c \in Callers, PreCall(c)
      PROVE  LogOK'
  BY <1>1, <1>4 DEF PreCall, logged, LogOK
<1>5. ASSUME NEW c \in Callers, NEW s \in BOOLEAN, RememberPostCall(c, s)
      PROVE  LogOK'
  <2>1. PICK call : call = Call(c, s)
    OBVIOUS
  <2>2. CASE UNCHANGED <<log, summary, reported>>
    BY <1>1, <2>2 DEF LogOK
  <2>3. CASE ~UNCHANGED <<log, summary, reported>>
    <3>1. /\ call \in Calls /\ config.retention \in Nat \ {0}
          /\ log' = AppendLog(call) /\ summary' = AddToSummary(call)
      BY <1>5, <2>1, <2>3, Logged
    <3>2. log' \in Logs
      BY <1>1, <3>1, Appended
    <3>3. call.time \in Nat
      BY <3>1 DEF Calls
    <3>4. summary' \in Summaries
      <4>1. CASE summary = None
        BY <3>1, <3>3, <4>1 DEF AddToSummary, Summaries
      <4>2. CASE summary # None
        BY <1>1, <3>1, <3>3, <4>2 DEF AddToSummary, Summaries, LogOK
      <4> QED
        BY <4>1, <4>2
    <3> QED
      BY <3>2, <3>4 DEF LogOK
  <2> QED
    BY <2>2, <2>3
<1> QED
  BY <1>2, <1>3, <1>4, <1>5 DEF HistoryNext, RememberAdminister, RememberPreCall

LEMMA TypesKept ==
    ASSUME TypeOK, Sane, Clocks, HistoryTypeOK, HistoryNext
    PROVE  TypeOK' /\ Sane' /\ Clocks' /\ HistoryTypeOK'
<1>1. now \in 0 .. MaxTime /\ MaxTime \in Nat /\ MaxCalls \in Nat
  BY MiddlewareNumbers DEF TypeOK
<1>2. SettingsOK /\ total \in 0 .. MaxCalls /\ pruned \in 0 .. MaxTime
  BY DEF TypeOK, SettingsOK
<1> DEFINE Rest == /\ SettingsOK' /\ Sane' /\ now' \in 0 .. MaxTime
                   /\ total' \in 0 .. MaxCalls /\ pruned' \in 0 .. MaxTime
<1>3. Rest
  <2>1. CASE Administer
    <3>1. SettingsOK' /\ Sane' /\ Anew
      BY <2>1, AdministerAnew
    <3> QED
      BY <1>1, <1>2, <3>1 DEF Anew
  <2>2. CASE Tick
    BY <1>1, <1>2, <2>2 DEF Tick, settings, callState, SettingsOK, Sane
  <2>3. ASSUME NEW c \in Callers, PreCall(c)
        PROVE  Rest
    <3>1. now' = now /\ UNCHANGED settings /\ total' = total + 1 /\ total < MaxCalls
          /\ (pruned' = pruned \/ pruned' = now)
      BY <2>3 DEF PreCall, callState
    <3> QED
      BY <1>1, <1>2, <3>1 DEF settings, SettingsOK, Sane
  <2>4. ASSUME NEW c \in Callers, NEW s \in BOOLEAN, PostCall(c, s)
        PROVE  Rest
    BY <1>1, <1>2, <2>4 DEF PostCall, settings, SettingsOK, Sane
  <2> QED
    BY <2>1, <2>2, <2>3, <2>4 DEF HistoryNext, RememberAdminister, RememberPreCall, RememberPostCall
<1>4. EntriesOK' /\ BreakerOK' /\ LogOK' /\ HistoryTypeOK'
  BY EntriesKept, BreakerKept, LogKept, HistoryTypesKept
<1>5. TypeOK' /\ Clocks'
  BY <1>3, <1>4 DEF TypeOK, Clocks, SettingsOK, EntriesOK, BreakerOK, Breakers, Entries, LogOK
<1> QED
  BY <1>3, <1>4, <1>5

-----------------------------------------------------------------------------
(* The circuit breaker.                                                    *)

\* What can become of the breaker's failures and of the streak.
LEMMA CountKept ==
    ASSUME TypeOK, Sane, Clocks, HistoryTypeOK, Counted, HistoryNext
    PROVE  Counted'
<1>1. PICK b : b = breaker /\ b \in Breakers
  BY DEF TypeOK, Breakers
<1>2. b.failures \in Nat /\ b.open \in BOOLEAN /\ b.halfOpen \in BOOLEAN /\ streak \in Nat
      /\ (~b.open /\ ~b.halfOpen => b.failures = streak)
  BY <1>1 DEF Breakers, HistoryTypeOK, Counted, Closed
<1>3. CASE RememberAdminister
  <2>1. breaker' = breaker \/ breaker' = ClosedBreaker
    BY <1>3, AdministerAnew DEF RememberAdminister, Anew
  <2>2. streak' = IF breaker = breaker' THEN streak ELSE 0
    BY <1>3 DEF RememberAdminister
  <2>3. ClosedBreaker.failures = 0
    BY DEF ClosedBreaker
  <2> QED
    BY <2>1, <2>2, <2>3 DEF Counted, Closed
<1>4. CASE Tick /\ UNCHANGED history
  BY <1>4 DEF Tick, history, callState, Counted, Closed
<1>5. ASSUME NEW c \in Callers, RememberPreCall(c)
      PROVE  Counted'
  <2>1. streak' = streak /\ (breaker' = breaker \/ breaker' = CheckAndTransition)
    BY <1>5 DEF RememberPreCall, PreCall, callState
  <2>2. PICK n : n = [b EXCEPT !.open = FALSE, !.halfOpen = TRUE]
    OBVIOUS
  <2>3. n.halfOpen
    BY <1>1, <2>2 DEF Breakers
  <2>4. CheckAndTransition = b \/ CheckAndTransition = n
    BY <1>1, <2>2 DEF CheckAndTransition
  <2> QED
    BY <1>1, <2>1, <2>3, <2>4 DEF Counted, Closed
<1>6. ASSUME NEW c \in Callers, NEW s \in BOOLEAN, RememberPostCall(c, s)
      PROVE  Counted'
  <2>1. /\ breaker' = IF config.threshold = 0 THEN breaker
                      ELSE IF s THEN HandleSuccess ELSE HandleFailure
        /\ streak' = IF config.threshold = 0 THEN streak ELSE IF s THEN 0 ELSE streak + 1
    BY <1>6 DEF RememberPostCall, PostCall
  <2>2. CASE config.threshold = 0
    BY <2>1, <2>2 DEF Counted, Closed
  <2>3. CASE config.threshold # 0 /\ s
    <3>1. PICK n : n = [b EXCEPT !.failures = 0]
      OBVIOUS
    <3>2. n.failures = 0
      BY <1>1, <3>1 DEF Breakers
    <3>3. HandleSuccess = ClosedBreaker \/ (b.open /\ HandleSuccess = b) \/ HandleSuccess = n
      BY <1>1, <3>1 DEF HandleSuccess
    <3>4. ClosedBreaker.failures = 0
      BY DEF ClosedBreaker
    <3> QED
      BY <2>1, <2>3, <3>2, <3>3, <3>4 DEF Counted, Closed
  <2>4. CASE config.threshold # 0 /\ ~s
    <3>1. CASE b.halfOpen
      <4>1. breaker'.open
        BY <1>1, <2>1, <2>4, <3>1 DEF HandleFailure
      <4> QED
        BY <4>1 DEF Counted, Closed
    <3>2. CASE ~b.halfOpen
      <4>1. PICK y : y = [b EXCEPT !.failures = b.failures + 1, !.open = TRUE, !.openedAt = now]
        OBVIOUS
      <4>2. PICK z : z = [b EXCEPT !.failures = b.failures + 1]
        OBVIOUS
      <4>3. y.open /\ z.open = b.open /\ z.failures = b.failures + 1
        BY <1>1, <4>1, <4>2 DEF Breakers
      <4>4. HandleFailure = y \/ HandleFailure = z
        BY <1>1, <3>2, <4>1, <4>2 DEF HandleFailure
      <4>5. breaker' = y \/ breaker' = z
        BY <2>1, <2>4, <4>4
      <4>6. streak' = streak + 1
        BY <2>1, <2>4
      <4> QED
        BY <1>2, <3>2, <4>3, <4>5, <4>6 DEF Counted, Closed
    <3> QED
      BY <3>1, <3>2
  <2> QED
    BY <2>2, <2>3, <2>4
<1> QED
  BY <1>3, <1>4, <1>5, <1>6 DEF HistoryNext

\* openedAt moves to now, where no opening is later.
LEMMA OpeningKept ==
    ASSUME TypeOK, Sane, Clocks, HistoryTypeOK, OpenedFirst, HistoryNext
    PROVE  OpenedFirst'
<1>1. PICK b : b = breaker /\ b \in Breakers
  BY DEF TypeOK, Breakers
<1>2. b.openedAt \in Nat /\ b.open \in BOOLEAN /\ b.halfOpen \in BOOLEAN
      /\ opened \in Nat /\ opened <= now /\ now \in Nat
      /\ (b.open => opened <= b.openedAt)
  BY <1>1, MiddlewareNumbers DEF Breakers, HistoryTypeOK, OpenedFirst, TypeOK
<1>3. CASE RememberAdminister
  <2>1. opened' = opened /\ (breaker' = breaker \/ breaker' = ClosedBreaker)
    BY <1>3, AdministerAnew DEF RememberAdminister, Anew
  <2>2. ~ClosedBreaker.open
    BY DEF ClosedBreaker
  <2> QED
    BY <2>1, <2>2 DEF OpenedFirst
<1>4. CASE Tick /\ UNCHANGED history
  BY <1>4 DEF Tick, history, callState, OpenedFirst
<1>5. ASSUME NEW c \in Callers, RememberPreCall(c)
      PROVE  OpenedFirst'
  <2>1. opened' = opened /\ (breaker' = breaker \/ breaker' = CheckAndTransition)
    BY <1>5 DEF RememberPreCall, PreCall, callState
  <2>2. PICK n : n = [b EXCEPT !.open = FALSE, !.halfOpen = TRUE]
    OBVIOUS
  <2>3. ~n.open
    BY <1>1, <2>2 DEF Breakers
  <2>4. CheckAndTransition = b \/ CheckAndTransition = n
    BY <1>1, <2>2 DEF CheckAndTransition
  <2> QED
    BY <1>1, <2>1, <2>3, <2>4 DEF OpenedFirst
<1>6. ASSUME NEW c \in Callers, NEW s \in BOOLEAN, RememberPostCall(c, s)
      PROVE  OpenedFirst'
  <2>1. /\ breaker' \in {breaker, HandleSuccess, HandleFailure}
        /\ opened' = IF ~breaker.open /\ breaker'.open THEN now ELSE opened
    BY <1>6 DEF RememberPostCall, PostCall
  <2>2. CASE breaker' = HandleSuccess
    <3>1. PICK n : n = [b EXCEPT !.failures = 0]
      OBVIOUS
    <3>2. n.open = b.open
      BY <1>1, <3>1 DEF Breakers
    <3>3. HandleSuccess = ClosedBreaker \/ HandleSuccess = b \/ (~b.open /\ HandleSuccess = n)
      BY <1>1, <3>1 DEF HandleSuccess
    <3>4. ~ClosedBreaker.open
      BY DEF ClosedBreaker
    <3> QED
      BY <1>1, <1>2, <2>1, <2>2, <3>2, <3>3, <3>4 DEF OpenedFirst
  <2>3. CASE breaker' = HandleFailure
    <3>1. PICK x : x = [failures |-> 1, openedAt |-> now, open |-> TRUE, halfOpen |-> FALSE]
      OBVIOUS
    <3>2. PICK y : y = [b EXCEPT !.failures = b.failures + 1, !.open = TRUE, !.openedAt = now]
      OBVIOUS
    <3>3. PICK z : z = [b EXCEPT !.failures = b.failures + 1]
      OBVIOUS
    <3>4. x.openedAt = now /\ y.openedAt = now /\ z.openedAt = b.openedAt /\ z.open = b.open
      BY <1>1, <3>1, <3>2, <3>3 DEF Breakers
    <3>5. HandleFailure = x \/ HandleFailure = y \/ HandleFailure = z
      BY <1>1, <3>1, <3>2, <3>3 DEF HandleFailure
    <3> QED
      BY <1>1, <1>2, <2>1, <2>3, <3>4, <3>5 DEF OpenedFirst
  <2>4. CASE breaker' = breaker
    BY <1>1, <1>2, <2>1, <2>4 DEF OpenedFirst
  <2> QED
    BY <2>1, <2>2, <2>3, <2>4
<1> QED
  BY <1>3, <1>4, <1>5, <1>6 DEF HistoryNext

LEMMA Trips ==
    ASSUME TypeOK, Sane, Clocks, HistoryTypeOK, Counted, HistoryNext,
           Closed, streak' = streak + 1
    PROVE  breaker'.open <=> streak' >= config.threshold
<1>1. PICK b : b = breaker /\ b \in Breakers
  BY DEF TypeOK, Breakers
<1>2. b.failures \in Nat /\ ~b.open /\ ~b.halfOpen /\ b.failures = streak /\ streak \in Nat
  BY <1>1 DEF Breakers, HistoryTypeOK, Counted, Closed
<1>3. streak' # streak /\ streak' # 0
  BY <1>2
<1>4. PICK c \in Callers, s \in BOOLEAN : RememberPostCall(c, s)
  BY <1>3 DEF HistoryNext, RememberAdminister, RememberPreCall, history
<1>5. config.threshold # 0 /\ ~s /\ breaker' = HandleFailure
  BY <1>3, <1>4 DEF RememberPostCall, PostCall
<1>6. PICK y : y = [b EXCEPT !.failures = b.failures + 1, !.open = TRUE, !.openedAt = now]
  OBVIOUS
<1>7. PICK z : z = [b EXCEPT !.failures = b.failures + 1]
  OBVIOUS
<1>8. y.open /\ ~z.open
  BY <1>1, <1>2, <1>6, <1>7 DEF Breakers
<1>9. HandleFailure = IF streak' >= config.threshold THEN y ELSE z
  BY <1>1, <1>2, <1>6, <1>7 DEF HandleFailure
<1> QED
  BY <1>5, <1>8, <1>9

LEMMA Blocks ==
    ASSUME TypeOK, Sane, Clocks, HistoryTypeOK, OpenedFirst, HistoryNext,
           total' = total + 1, config # None, config.threshold > 0
    PROVE  /\ breaker.open =>
                config.recovery > 0 /\ now >= Saturating(opened + config.recovery)
           /\ breaker' = BreakerView
<1>1. PICK t \in Nat : t = total
  BY MiddlewareNumbers DEF TypeOK
<1>2. total' # total /\ total' # 0
  BY <1>1
<1>3. PICK c \in Callers : PreCall(c)
  BY <1>2, AdministerAnew
     DEF HistoryNext, RememberAdminister, RememberPreCall, RememberPostCall, Anew, Tick, PostCall
<1>4. ~Blocked /\ breaker' = CheckAndTransition
  BY <1>3 DEF PreCall
<1>5. CASE breaker.open
  <2>1. Recovered
    BY <1>4, <1>5 DEF Blocked
  <2>2. breaker' = BreakerView
    BY <1>4, <1>5, <2>1 DEF CheckAndTransition, BreakerView
  <2>3. PICK r \in Nat : r = config.recovery
    BY MiddlewareNumbers DEF TypeOK, RouteConfigs
  <2>4. PICK a \in Nat : a = breaker.openedAt
    BY MiddlewareNumbers DEF TypeOK
  <2>5. opened \in Nat /\ opened <= a
    BY <1>5, <2>4 DEF HistoryTypeOK, OpenedFirst
  <2>6. r > 0 /\ now >= Saturating(a + r)
    BY <2>1, <2>3, <2>4 DEF Recovered
  <2>7. now >= a + r
    BY <2>6, Saturates
  <2>8. now >= opened + r
    BY <2>5, <2>7, MiddlewareNumbers DEF TypeOK
  <2>9. now >= Saturating(opened + r)
    BY <2>5, <2>8, Saturates
  <2> QED
    BY <2>2, <2>3, <2>6, <2>9
<1>6. CASE ~breaker.open
  BY <1>4, <1>6 DEF CheckAndTransition, BreakerView
<1> QED
  BY <1>5, <1>6

-----------------------------------------------------------------------------
(* The rate limit.                                                         *)

LimitsCount ==
    config # None =>
        \A c \in Callers : LimitOf(c) # None =>
            LimitOf(c).calls \in Nat \ {0} /\ LimitOf(c).window \in Nat \ {0}

LEMMA LimitsDoCount == TypeOK /\ Sane => LimitsCount
  BY Limited DEF LimitsCount

\* A caller of whom nothing is remembered.
LEMMA HeldAnew ==
    ASSUME NEW w \in Nat, NEW m \in Nat \ {0}, TypeOK', Clocks',
           NEW c \in Callers, admitted'[c] = << >>
    PROVE  /\ Spread(admitted'[c], w, m)
           /\ IF c \in DOMAIN rates'
                THEN InWindow(admitted'[c], rates'[c].start, w, m, rates'[c].calls)
                ELSE NoWindow(admitted'[c], now', w, m)
<1>1. now' \in Nat
  BY MiddlewareNumbers DEF TypeOK
<1>2. CASE c \in DOMAIN rates'
  <2>1. rates'[c].start \in Nat /\ rates'[c].calls \in Nat \ {0}
    <3>1. (TypeOK => EntryTypes)'
      BY EntriesTyped, PTL
    <3>2. rates'[c].calls >= 1
      BY <1>2 DEF Clocks
    <3> QED
      BY <1>2, <3>1, <3>2 DEF EntryTypes
  <2> QED
    BY <1>2, <2>1, NothingYet
<1>3. CASE c \notin DOMAIN rates'
  BY <1>1, <1>3, NothingYet
<1> QED
  BY <1>2, <1>3

\* Pruning keeps the caller's entry or forgets a window that is over.
LEMMA Forgotten ==
    ASSUME TypeOK, Sane, Clocks, HistoryTypeOK, NEW c \in Callers, config # None,
           LimitOf(c) # None, HeldTo(c, LimitOf(c)),
           c \notin DOMAIN Pruned \/ now >= rates[c].start + LimitOf(c).window
    PROVE  NoWindow(admitted[c], now, LimitOf(c).window, LimitOf(c).calls)
<1>1. PICK w \in Nat : w = LimitOf(c).window
  BY Limited
<1>2. PICK m \in Nat : m = LimitOf(c).calls
  BY Limited
<1>3. PICK a \in Seq(Nat) : a = admitted[c]
  BY DEF HistoryTypeOK
<1>4. PICK t \in Nat : t = now
  BY MiddlewareNumbers DEF TypeOK
<1>5. CASE c \notin DOMAIN rates
  BY <1>5 DEF HeldTo
<1>6. CASE c \in DOMAIN rates
  <2>1. PICK s \in Nat : s = rates[c].start
    BY <1>6, EntriesTyped DEF EntryTypes
  <2>2. PICK k \in Nat : k = rates[c].calls
    BY <1>6, EntriesTyped DEF EntryTypes
  <2>3. InWindow(a, s, w, m, k)
    BY <1>1, <1>2, <1>3, <1>6, <2>1, <2>2 DEF HeldTo
  <2>4. now >= s + w
    <3>1. CASE c \notin DOMAIN Pruned
      BY <1>1, <1>6, <2>1, <3>1, PruneLeaves, StaleIsOver
    <3> QED
      BY <1>1, <2>1, <3>1
  <2>5. s + w <= t
    BY <1>4, <2>4
  <2>6. NoWindow(a, t, w, m)
    BY <2>3, <2>5, WindowCloses
  <2> QED
    BY <1>1, <1>2, <1>3, <1>4, <2>6
<1> QED
  BY <1>5, <1>6

\* A call that is let through, in a window that was open or opens with it.
LEMMA LetThrough ==
    ASSUME TypeOK, Sane, Clocks, HistoryTypeOK, NEW c \in Callers, config # None,
           LimitOf(c) # None, HeldTo(c, LimitOf(c)), ~Exceeded(c, LimitOf(c)),
           NEW e, e = CheckAndIncrement(c, LimitOf(c)),
           NEW w, w = LimitOf(c).window, NEW m, m = LimitOf(c).calls,
           NEW a, a = Append(admitted[c], now)
    PROVE  InWindow(a, e.start, w, m, e.calls) /\ Spread(a, w, m)
<1>1. w \in Nat \ {0} /\ m \in Nat \ {0}
  BY Limited
<1>2. PICK l : l = LimitOf(c)
  OBVIOUS
<1>3. PICK b \in Seq(Nat) : b = admitted[c]
  BY DEF HistoryTypeOK
<1>4. PICK t \in Nat : t = now
  BY MiddlewareNumbers DEF TypeOK
<1>5. Spread(b, w, m)
  BY <1>3 DEF HeldTo
<1>6. CASE c \in DOMAIN Pruned /\ now < rates[c].start + w
  <2>1. c \in DOMAIN rates
    BY <1>6, PruneLeaves
  <2>2. PICK s \in Nat : s = rates[c].start /\ s <= t
    BY <1>4, <2>1, EntriesTyped DEF EntryTypes, Clocks
  <2>3. PICK k \in Nat : k = rates[c].calls
    BY <2>1, EntriesTyped DEF EntryTypes
  <2>4. /\ e.start = rates[c].start
        /\ Exceeded(c, l) <=> rates[c].calls >= l.calls
        /\ ~Exceeded(c, l) => e.calls = rates[c].calls + 1
    BY <1>2, <1>6, Accounted
  <2>5. k < m /\ e.start = s /\ e.calls = k + 1
    BY <1>1, <1>2, <2>2, <2>3, <2>4
  <2>6. InWindow(b, s, w, m, k)
    BY <1>3, <2>1, <2>2, <2>3 DEF HeldTo
  <2>7. t < s + w
    BY <1>4, <1>6, <2>2
  <2>8. InWindow(Append(b, t), s, w, m, k + 1) /\ Spread(Append(b, t), w, m)
    BY <1>1, <1>5, <2>2, <2>5, <2>6, <2>7, WindowFills
  <2> QED
    BY <1>3, <1>4, <2>5, <2>8
<1>7. CASE ~(c \in DOMAIN Pruned /\ now < rates[c].start + w)
  <2>1. e.start = now /\ e.calls = 1
    BY <1>2, <1>7, Accounted
  <2>2. c \notin DOMAIN Pruned \/ now >= rates[c].start + w
    <3>1. c \in DOMAIN Pruned => rates[c].start \in Nat
      BY PruneLeaves, MiddlewareNumbers DEF Entries
    <3> QED
      BY <1>1, <1>4, <1>7, <3>1
  <2>3. NoWindow(b, t, w, m)
    BY <1>3, <1>4, <2>2, Forgotten
  <2>4. InWindow(Append(b, t), t, w, m, 1) /\ Spread(Append(b, t), w, m)
    BY <1>1, <1>5, <2>3, WindowOpens
  <2> QED
    BY <1>3, <1>4, <2>1, <2>4
<1> QED
  BY <1>6, <1>7

LEMMA HeldKept ==
    ASSUME TypeOK, Sane, Clocks, HistoryTypeOK, Held, HistoryNext
    PROVE  Held'
<1>1. TypeOK' /\ Sane' /\ Clocks' /\ HistoryTypeOK'
  BY TypesKept
<1>2. (TypeOK /\ Sane => LimitsCount)'
  BY LimitsDoCount, PTL
<1> SUFFICES ASSUME config' # None, strategy' = "reject",
                    NEW c \in Callers, LimitOf(c)' # None
             PROVE  HeldTo(c, LimitOf(c))'
  BY DEF Held
<1>3. PICK w \in Nat \ {0} : w = LimitOf(c)'.window
  BY <1>1, <1>2 DEF LimitsCount
<1>4. PICK m \in Nat \ {0} : m = LimitOf(c)'.calls
  BY <1>1, <1>2 DEF LimitsCount
<1> DEFINE Goal ==
      /\ Spread(admitted'[c], w, m)
      /\ IF c \in DOMAIN rates'
           THEN InWindow(admitted'[c], rates'[c].start, w, m, rates'[c].calls)
           ELSE NoWindow(admitted'[c], now', w, m)
<1>5. SUFFICES Goal
  BY <1>3, <1>4 DEF HeldTo
\* While nothing about the limit changes, it is the one held before.
<1>6. ASSUME config' = config, override'[c] = override[c], strategy' = strategy
      PROVE  /\ config # None /\ LimitOf(c) # None
             /\ w = LimitOf(c).window /\ m = LimitOf(c).calls
             /\ HeldTo(c, LimitOf(c))
  <2>1. LimitOf(c)' = LimitOf(c)
    BY <1>6 DEF LimitOf
  <2> QED
    BY <1>3, <1>4, <1>6, <2>1 DEF Held
<1>7. CASE RememberAdminister
  <2>1. admitted'[c] = IF LimitChanges(c) THEN << >> ELSE admitted[c]
    BY <1>7 DEF RememberAdminister
  <2>2. now' = now /\ (rates' = rates \/ \E b \in Callers : rates' = Delete(rates, {b}))
    BY <1>7, AdministerAnew DEF RememberAdminister, Anew
  <2>3. CASE LimitChanges(c)
    BY <1>1, <2>1, <2>3, HeldAnew
  <2>4. CASE ~LimitChanges(c)
    <3>1. /\ config' = config /\ override'[c] = override[c] /\ strategy' = strategy
          /\ c \in DOMAIN rates => c \in DOMAIN rates'
      BY <2>4 DEF LimitChanges
    <3>2. c \in DOMAIN rates <=> c \in DOMAIN rates'
      BY <2>2, <3>1 DEF Delete
    <3>3. c \in DOMAIN rates => rates'[c] = rates[c]
      BY <2>2, <3>2 DEF Delete
    <3> QED
      BY <1>6, <2>1, <2>2, <2>4, <3>1, <3>2, <3>3 DEF HeldTo
  <2> QED
    BY <2>3, <2>4
<1>8. CASE Tick /\ UNCHANGED history
  <2>1. /\ config' = config /\ override'[c] = override[c] /\ strategy' = strategy
        /\ rates' = rates /\ admitted' = admitted /\ now' \in now + 1 .. MaxTime
    BY <1>8 DEF Tick, settings, callState, history
  <2>2. PICK a \in Seq(Nat) : a = admitted[c]
    BY DEF HistoryTypeOK
  <2>3. PICK t \in Nat, u \in Nat : t = now /\ u = now' /\ t <= u
    BY <2>1, MiddlewareNumbers DEF TypeOK
  <2>4. NoWindow(a, t, w, m) => NoWindow(a, u, w, m)
    BY <2>3, StillNoWindow
  <2> QED
    BY <1>6, <2>1, <2>2, <2>3, <2>4 DEF HeldTo
<1>9. ASSUME NEW d \in Callers, RememberPreCall(d)
      PROVE  Goal
  <2>1. /\ config' = config /\ override' = override /\ strategy' = strategy /\ now' = now
        /\ PreCall(d)
    BY <1>9 DEF RememberPreCall, PreCall, settings
  <2>2. /\ config # None /\ LimitOf(c) # None /\ strategy = "reject"
        /\ w = LimitOf(c).window /\ m = LimitOf(c).calls
        /\ HeldTo(c, LimitOf(c))
    BY <1>6, <2>1
  <2>3. CASE c # d
    <3>1. admitted'[c] = admitted[c]
      BY <1>9, <2>3 DEF RememberPreCall, HistoryTypeOK
    <3>2. /\ c \in DOMAIN rates' <=> c \in DOMAIN Pruned
          /\ c \in DOMAIN Pruned => rates'[c] = Pruned[c]
      BY <2>1, <2>2, <2>3 DEF PreCall, Put
    <3>3. CASE c \in DOMAIN Pruned
      <4>1. c \in DOMAIN rates /\ Pruned[c] = rates[c]
        BY <3>3, PruneLeaves
      <4> QED
        BY <2>2, <3>1, <3>2, <3>3, <4>1 DEF HeldTo
    <3>4. CASE c \notin DOMAIN Pruned
      <4>1. NoWindow(admitted[c], now, LimitOf(c).window, LimitOf(c).calls)
        BY <2>2, <3>4, Forgotten
      <4> QED
        BY <2>1, <2>2, <3>1, <3>2, <3>4, <4>1 DEF HeldTo
    <3> QED
      BY <3>3, <3>4
  <2>4. CASE c = d
    <3>1. PICK e : e = CheckAndIncrement(c, LimitOf(c))
      OBVIOUS
    <3>2. ~Exceeded(c, LimitOf(c)) /\ rates' = Put(Pruned, c, e)
      BY <2>1, <2>2, <2>4, <3>1 DEF PreCall
    <3>3. PICK a : a = Append(admitted[c], now)
      OBVIOUS
    <3>4. admitted'[c] = a
      BY <1>9, <2>2, <2>4, <3>3 DEF RememberPreCall, HistoryTypeOK
    <3>5. InWindow(a, e.start, w, m, e.calls) /\ Spread(a, w, m)
      BY <2>2, <3>1, <3>2, <3>3, LetThrough
    <3>6. c \in DOMAIN rates' /\ rates'[c] = e
      BY <3>2 DEF Put
    <3> QED
      BY <3>4, <3>5, <3>6
  <2> QED
    BY <2>3, <2>4
<1>10. ASSUME NEW d \in Callers, NEW s \in BOOLEAN, RememberPostCall(d, s)
       PROVE  Goal
  <2>1. /\ config' = config /\ override'[c] = override[c] /\ strategy' = strategy
        /\ rates' = rates /\ admitted' = admitted /\ now' = now
    BY <1>10 DEF RememberPostCall, PostCall, settings
  <2> QED
    BY <1>6, <2>1 DEF HeldTo
<1> QED
  BY <1>7, <1>8, <1>9, <1>10 DEF HistoryNext

LEMMA HeldIsEnough == TypeOK /\ Sane /\ Held => LimitHolds
<1> SUFFICES ASSUME TypeOK, Sane, Held, config # None, strategy = "reject",
                    NEW c \in Callers, LimitOf(c) # None, NEW i \in DOMAIN admitted[c]
             PROVE  Cardinality(InStretch(c, admitted[c][i], LimitOf(c).window))
                      < 2 * LimitOf(c).calls
  BY DEF LimitHolds
<1>1. Spread(admitted[c], LimitOf(c).window, LimitOf(c).calls)
  BY DEF Held, HeldTo
<1>2. InStretch(c, admitted[c][i], LimitOf(c).window)
        = Between(admitted[c], admitted[c][i], admitted[c][i] + LimitOf(c).window)
  BY DEF InStretch, Between
<1> QED
  BY <1>1, <1>2 DEF Spread

-----------------------------------------------------------------------------
(* The call log.                                                           *)

LEMMA Remainder ==
    ASSUME NEW r \in Nat \ {0}, NEW x \in Nat, x < 2 * r
    PROVE  x % r = IF x < r THEN x ELSE x - r
  OBVIOUS

\* A call appended to a ring of the calls s, or to no ring when there are none.
LEMMA RingAppends ==
    ASSUME NEW s \in Seq(Calls), NEW call \in Calls, NEW r \in Nat \ {0},
           NEW o \in Logs, NEW l \in Logs,
           RingOf(o, s, r) \/ (o = [entries |-> << >>, head |-> 0, count |-> 0] /\ s = << >>),
           l.count = Min(o.count + 1, r),
           Len(o.entries) < r => l.entries = Append(o.entries, call) /\ l.head = o.head,
           ~(Len(o.entries) < r) => /\ l.entries = [o.entries EXCEPT ![o.head + 1] = call]
                                    /\ l.head = (o.head + 1) % r
    PROVE  RingOf(l, Append(s, call), r)
<1>1. PICK e \in Seq(Calls) : e = o.entries
  BY DEF Logs
<1>2. PICK h \in Nat : h = o.head
  BY DEF Logs
<1>3. PICK n \in Nat : n = Len(s)
  OBVIOUS
<1>4. PICK z \in Nat : z = Len(e) /\ DOMAIN e = 1 .. z
  OBVIOUS
<1>5. PICK t : t = Append(s, call)
  OBVIOUS
<1> SUFFICES RingOf(l, t, r)
  BY <1>5
<1>6. /\ Len(t) = n + 1 /\ t[n + 1] = call
      /\ \A i \in 1 .. n : t[i] = s[i]
  BY <1>3, <1>5
<1>7. /\ o.count = Min(n, r) /\ z <= r /\ z <= r
      /\ n < r => /\ z = r \/ (z = n /\ h = 0)
                  /\ z = r => h = n
                  /\ \A i \in 1 .. n : e[i] = s[i]
      /\ n >= r => /\ z = r /\ h < r
                   /\ \A i \in 1 .. r : e[Slot(h, i, r)] = s[n - r + i]
  <2>1. CASE RingOf(o, s, r)
    BY <1>1, <1>2, <1>3, <1>4, <2>1 DEF RingOf
  <2>2. CASE o = [entries |-> << >>, head |-> 0, count |-> 0] /\ s = << >>
    <3>1. n = 0 /\ z = 0 /\ h = 0 /\ o.count = 0
      BY <1>1, <1>2, <1>3, <1>4, <2>2
    <3> QED
      BY <3>1 DEF Min
  <2> QED
    BY <2>1, <2>2
<1>8. l.count = Min(n + 1, r)
  BY <1>7 DEF Min
<1>9. CASE z < r
  <2>1. n < r /\ z = n /\ h = 0
    BY <1>7, <1>9
  <2>2. PICK f : f = l.entries /\ f = Append(e, call)
    BY <1>1, <1>4, <1>9
  <2>3. l.head = 0 /\ Len(f) = n + 1
    BY <1>1, <1>2, <1>4, <1>9, <2>1, <2>2
  <2>4. \A i \in 1 .. n + 1 : f[i] = t[i]
    <3>1. f[n + 1] = call /\ \A i \in 1 .. n : f[i] = e[i]
      BY <1>4, <2>1, <2>2
    <3> QED
      BY <1>6, <1>7, <2>1, <3>1
  <2>5. CASE n + 1 < r
    BY <1>6, <1>8, <2>1, <2>2, <2>3, <2>4, <2>5 DEF RingOf
  <2>6. CASE n + 1 = r
    <3>1. \A i \in 1 .. r : f[Slot(0, i, r)] = t[n + 1 - r + i]
      BY <2>4, <2>6 DEF Slot
    <3>2. \A i \in 1 .. r : l.entries[Slot(l.head, i, r)] = t[Len(t) - r + i]
      <4>1. l.entries = f /\ l.head = 0 /\ Len(t) = n + 1
        BY <1>6, <2>2, <2>3
      <4> QED
        BY <3>1, <4>1
    <3>3. Len(l.entries) = r /\ l.head = 0 /\ Len(t) = n + 1 /\ l.count = Min(n + 1, r)
      BY <1>6, <1>8, <2>2, <2>3, <2>6
    <3> QED
      BY <2>6, <3>2, <3>3 DEF RingOf
  <2> QED
    BY <2>1, <2>5, <2>6
<1>10. CASE ~(z < r)
  <2>1. z = r
    BY <1>7, <1>10
  <2>2. PICK f : f = l.entries /\ f = [e EXCEPT ![h + 1] = call]
    BY <1>1, <1>2, <1>4, <1>10
  <2>3. Len(f) = r /\ DOMAIN f = 1 .. r
    <3>1. f \in Seq(Calls) /\ DOMAIN f = DOMAIN e
      BY <2>2 DEF Logs
    <3> QED
      BY <1>4, <2>1, <3>1
  <2>4. h < r
    BY <1>7, <2>1
  <2>5. l.head = IF h + 1 < r THEN h + 1 ELSE 0
    <3>1. h + 1 < 2 * r /\ (h + 1 < r \/ h + 1 = r)
      BY <2>4
    <3>2. (h + 1) % r = IF h + 1 < r THEN h + 1 ELSE h + 1 - r
      BY <3>1, Remainder
    <3> QED
      BY <1>1, <1>2, <1>4, <1>10, <3>1, <3>2
  <2>6. f[h + 1] = call /\ \A i \in 1 .. r : i # h + 1 => f[i] = e[i]
    BY <1>4, <2>1, <2>2, <2>4
  <2>7. CASE n + 1 < r
    <3>1. h = n /\ \A i \in 1 .. n : e[i] = s[i]
      BY <1>7, <2>1, <2>7
    <3>2. \A i \in 1 .. n + 1 : f[i] = t[i]
      <4>1. \A i \in 1 .. n + 1 : i = n + 1 \/ (i \in 1 .. n /\ i \in 1 .. r /\ i # h + 1)
        BY <2>7, <3>1
      <4> QED
        BY <1>6, <2>6, <3>1, <4>1
    <3>3. l.head = n + 1
      BY <2>5, <2>7, <3>1
    <3> QED
      BY <1>6, <1>8, <2>2, <2>3, <2>7, <3>2, <3>3 DEF RingOf
  <2>8. CASE n + 1 = r
    <3>1. h = n /\ \A i \in 1 .. n : e[i] = s[i]
      BY <1>7, <2>1, <2>8
    <3>2. l.head = 0
      BY <2>5, <2>8, <3>1
    <3>3. \A i \in 1 .. r : f[Slot(0, i, r)] = t[n + 1 - r + i]
      BY <1>6, <2>6, <2>8, <3>1 DEF Slot
    <3>4. \A i \in 1 .. r : l.entries[Slot(l.head, i, r)] = t[Len(t) - r + i]
      BY <1>6, <2>2, <3>2, <3>3
    <3> QED
      BY <1>6, <1>8, <2>2, <2>3, <2>8, <3>2, <3>4 DEF RingOf
  <2>9. CASE n >= r
    <3>1. \A i \in 1 .. r : e[Slot(h, i, r)] = s[n - r + i]
      BY <1>7, <2>9
    <3>2. PICK g \in Nat : g = l.head /\ g = (IF h + 1 < r THEN h + 1 ELSE 0)
      BY <2>5
    <3>3. ASSUME NEW i \in 1 .. r
          PROVE  f[Slot(g, i, r)] = t[n + 1 - r + i]
      <4>1. CASE i = r
        <5>1. Slot(g, i, r) = h + 1
          BY <2>4, <3>2, <4>1 DEF Slot
        <5> QED
          BY <1>6, <2>6, <4>1, <5>1
      <4>2. CASE i < r
        <5>1. Slot(g, i, r) = Slot(h, i + 1, r) /\ Slot(g, i, r) # h + 1 /\ Slot(g, i, r) \in 1 .. r
          BY <2>4, <3>2, <4>2 DEF Slot
        <5>2. e[Slot(h, i + 1, r)] = s[n - r + (i + 1)]
          BY <3>1, <4>2
        <5>3. n - r + (i + 1) = n + 1 - r + i /\ n + 1 - r + i \in 1 .. n
          BY <2>9, <4>2
        <5> QED
          BY <1>6, <2>6, <5>1, <5>2, <5>3
      <4> QED
        BY <4>1, <4>2
    <3>4. g < r
      BY <2>4, <3>2
    <3>5. \A i \in 1 .. r : l.entries[Slot(l.head, i, r)] = t[Len(t) - r + i]
      BY <1>6, <2>2, <3>2, <3>3
    <3> QED
      BY <1>6, <1>8, <2>2, <2>3, <2>9, <3>2, <3>4, <3>5 DEF RingOf
  <2> QED
    BY <2>7, <2>8, <2>9
<1> QED
  BY <1>9, <1>10

\* The admin's calls leave log, summary and calls as they are, or all anew.
LEMMA ReportsAnew ==
    ASSUME TypeOK, Sane, HistoryTypeOK, Ring, Summed, RememberAdminister
    PROVE  \/ UNCHANGED <<log, summary, reported>> /\ Retention' = Retention
           \/ /\ reported' = << >> /\ summary' = None
              /\ \/ log' = None
                 \/ /\ Retention' \in Nat \ {0}
                    /\ \E a \in Callers : log' = EmptyLog(a, Retention')
<1>1. LogAnew
  BY AdministerAnew DEF RememberAdminister, Anew
<1>2. reported' = IF log = log' THEN reported ELSE << >>
  BY DEF RememberAdminister
<1>3. CASE UNCHANGED logged /\ Retention' = Retention
  BY <1>2, <1>3 DEF logged
<1>4. CASE log' = None /\ summary' = None
  BY <1>2, <1>4 DEF Ring
<1>5. ASSUME NEW a \in Callers, log' = EmptyLog(a, Retention'), Retention' \in Nat \ {0},
             summary' = None \/ (config = None /\ summary' = summary)
      PROVE  reported' = << >> /\ summary' = None
  <2>1. log = log' => reported = << >>
    <3> SUFFICES ASSUME log = log', log # None
                 PROVE  reported = << >>
      BY DEF Ring
    <3>1. log.count = 0
      BY <1>5, EmptyLogType
    <3>2. PICK r : r = Retention /\ RingOf(log, reported, r)
      BY DEF Ring
    <3>3. Len(reported) \in Nat /\ Min(Len(reported), r) = 0 /\ r > 0
      BY <3>1, <3>2 DEF RingOf, HistoryTypeOK
    <3>4. r \in Nat
      BY <3>2, RetentionType DEF TypeOK, SettingsOK
    <3>5. Len(reported) = 0
      BY <3>3, <3>4 DEF Min
    <3> QED
      BY <3>5 DEF HistoryTypeOK
  <2>2. config = None => summary = None
    <3> SUFFICES ASSUME config = None, log # None
                 PROVE  FALSE
      BY DEF Ring, Summed
    <3>1. RingOf(log, reported, 0)
      BY DEF Ring, Retention
    <3> QED
      BY <3>1 DEF RingOf
  <2> QED
    BY <1>2, <1>5, <2>1, <2>2
<1> QED
  BY <1>1, <1>3, <1>4, <1>5 DEF LogAnew

LEMMA EmptyRing ==
    ASSUME NEW a \in Callers, NEW r \in Nat \ {0}, NEW l, l = EmptyLog(a, r)
    PROVE  RingOf(l, << >>, r)
<1>1. Len(l.entries) = r /\ l.head = 0 /\ l.count = 0
  BY EmptyLogType
<1>2. Len(<< >>) = 0
  OBVIOUS
<1>3. Min(0, r) = 0
  BY DEF Min
<1> QED
  BY <1>1, <1>2, <1>3 DEF RingOf

LEMMA RingKept ==
    ASSUME TypeOK, Sane, Clocks, HistoryTypeOK, Ring, Summed, HistoryNext
    PROVE  Ring'
<1>1. CASE RememberAdminister
  <2>1. CASE UNCHANGED <<log, summary, reported>> /\ Retention' = Retention
    BY <2>1 DEF Ring
  <2>2. CASE reported' = << >> /\ log' = None
    BY <2>2 DEF Ring
  <2>3. ASSUME NEW a \in Callers, NEW r \in Nat \ {0}, r = Retention',
               reported' = << >>, log' = EmptyLog(a, Retention')
        PROVE  Ring'
    BY <2>3, EmptyRing DEF Ring
  <2> QED
    BY <1>1, <2>1, <2>2, <2>3, ReportsAnew
<1>2. CASE UNCHANGED <<log, reported, config>>
  BY <1>2 DEF Ring, Retention
<1>3. CASE Tick /\ UNCHANGED history
  BY <1>2, <1>3 DEF Tick, history, settings, logged
<1>4. ASSUME NEW c \in Callers, RememberPreCall(c)
      PROVE  Ring'
  BY <1>2, <1>4 DEF RememberPreCall, PreCall, settings, logged
<1>5. ASSUME NEW c \in Callers, NEW success \in BOOLEAN, RememberPostCall(c, success)
      PROVE  Ring'
  <2>1. PICK call : call = Call(c, success)
    OBVIOUS
  <2>2. CASE UNCHANGED <<log, summary, reported>>
    BY <1>5, <2>2, Logged DEF Ring
  <2>3. CASE ~UNCHANGED <<log, summary, reported>>
    <3>1. /\ Retention' = Retention /\ Retention \in Nat \ {0} /\ Retention = config.retention
          /\ call \in Calls /\ log' = AppendLog(call) /\ reported' = Append(reported, call)
      BY <1>5, <2>1, <2>3, Logged
    <3>2. PICK r \in Nat \ {0} : r = config.retention
      BY <3>1
    <3>3. PICK o : o = OldLog
      OBVIOUS
    <3>4. LogOK
      BY DEF TypeOK, LogOK
    <3>5. PICK l : l = AppendLog(call)
      OBVIOUS
    <3>6. /\ o \in Logs /\ l \in Logs
          /\ l.count = Min(o.count + 1, r)
          /\ Len(o.entries) < r => l.entries = Append(o.entries, call) /\ l.head = o.head
          /\ ~(Len(o.entries) < r) =>
                l.entries = [o.entries EXCEPT ![o.head + 1] = call] /\ l.head = (o.head + 1) % r
      BY <3>1, <3>2, <3>3, <3>4, <3>5, Appended
    <3>7. PICK s \in Seq(Calls) : s = reported
      BY DEF HistoryTypeOK
    <3>8. RingOf(o, s, r) \/ (o = [entries |-> << >>, head |-> 0, count |-> 0] /\ s = << >>)
      BY <3>1, <3>2, <3>3, <3>7 DEF Ring, OldLog
    <3>9. RingOf(l, Append(s, call), r)
      BY <3>1, <3>6, <3>8, RingAppends
    <3>10. l # None
      BY <3>6, MiddlewareNone
    <3> QED
      BY <3>1, <3>2, <3>5, <3>7, <3>9, <3>10 DEF Ring
  <2> QED
    BY <2>2, <2>3
<1> QED
  BY <1>1, <1>3, <1>4, <1>5 DEF HistoryNext

LEMMA CallTypes ==
    ASSUME NEW s \in Seq(Calls), NEW n, n = Len(s)
    PROVE  \A i \in 1 .. n : s[i].success \in BOOLEAN /\ s[i].time \in Nat
<1> SUFFICES ASSUME NEW i \in 1 .. n
             PROVE  s[i].success \in BOOLEAN /\ s[i].time \in Nat
  OBVIOUS
<1>1. s[i] \in Calls
  OBVIOUS
<1> QED
  BY <1>1 DEF Calls

Passed(s, n) == {i \in 1 .. n : s[i].success}
FailedOnes(s, n) == {i \in 1 .. n : ~s[i].success}

\* One more call, and one more of its kind.
LEMMA SummaryAppends ==
    ASSUME NEW s, NEW n \in Nat, NEW call, NEW t,
           t[n + 1] = call, \A i \in 1 .. n : t[i] = s[i]
    PROVE  /\ Cardinality(Passed(s, n)) \in Nat /\ Cardinality(FailedOnes(s, n)) \in Nat
           /\ call.success =>
                /\ Cardinality(Passed(t, n + 1)) = Cardinality(Passed(s, n)) + 1
                /\ Cardinality(FailedOnes(t, n + 1)) = Cardinality(FailedOnes(s, n))
           /\ ~call.success =>
                /\ Cardinality(Passed(t, n + 1)) = Cardinality(Passed(s, n))
                /\ Cardinality(FailedOnes(t, n + 1)) = Cardinality(FailedOnes(s, n)) + 1
<1>1. PICK A : A = Passed(s, n)
  OBVIOUS
<1>2. PICK B : B = FailedOnes(s, n)
  OBVIOUS
<1>3. /\ t[n + 1] = call
      /\ \A i \in 1 .. n : t[i] = s[i]
      /\ \A i \in 1 .. n + 1 : i \in 1 .. n \/ i = n + 1
  OBVIOUS
<1>4. /\ IsFiniteSet(A) /\ n + 1 \notin A /\ Cardinality(A) \in Nat
      /\ IsFiniteSet(B) /\ n + 1 \notin B /\ Cardinality(B) \in Nat
  <2>1. A \in SUBSET (1 .. n) /\ B \in SUBSET (1 .. n)
    BY <1>1, <1>2 DEF Passed, FailedOnes
  <2>2. IsFiniteSet(1 .. n)
    BY FS_Interval
  <2>3. IsFiniteSet(A) /\ IsFiniteSet(B)
    BY <2>1, <2>2, FS_Subset
  <2>4. n + 1 \notin A /\ n + 1 \notin B
    BY <2>1
  <2> QED
    BY <2>3, <2>4, FS_CardinalityType
<1>5. /\ Cardinality(A \cup {n + 1}) = Cardinality(A) + 1
      /\ Cardinality(B \cup {n + 1}) = Cardinality(B) + 1
  BY <1>4, FS_AddElement
<1>6. CASE call.success
  <2>1. Passed(t, n + 1) = A \cup {n + 1} /\ FailedOnes(t, n + 1) = B
    BY <1>1, <1>2, <1>3, <1>6 DEF Passed, FailedOnes
  <2> QED
    BY <1>1, <1>2, <1>4, <1>5, <1>6, <2>1, Zenon
<1>7. CASE ~call.success
  <2>1. Passed(t, n + 1) = A /\ FailedOnes(t, n + 1) = B \cup {n + 1}
    BY <1>1, <1>2, <1>3, <1>7 DEF Passed, FailedOnes
  <2> QED
    BY <1>1, <1>2, <1>4, <1>5, <1>7, <2>1, Zenon
<1> QED
  BY <1>6, <1>7

LEMMA SummedKept ==
    ASSUME TypeOK, Sane, Clocks, HistoryTypeOK, Ring, Summed, HistoryNext
    PROVE  Summed'
<1>1. CASE RememberAdminister
  BY <1>1, ReportsAnew DEF Summed
<1>2. CASE Tick /\ UNCHANGED history
  BY <1>2 DEF Tick, history, logged, Summed
<1>3. ASSUME NEW c \in Callers, RememberPreCall(c)
      PROVE  Summed'
  BY <1>3 DEF RememberPreCall, PreCall, logged, Summed
<1>4. ASSUME NEW c \in Callers, NEW success \in BOOLEAN, RememberPostCall(c, success)
      PROVE  Summed'
  <2>1. PICK call : call = Call(c, success)
    OBVIOUS
  <2>2. CASE UNCHANGED <<log, summary, reported>>
    BY <2>2 DEF Summed
  <2>3. CASE ~UNCHANGED <<log, summary, reported>>
    <3>1. /\ call \in Calls /\ summary' = AddToSummary(call)
          /\ reported' = Append(reported, call)
      BY <1>4, <2>1, <2>3, Logged
    <3>2. PICK s \in Seq(Calls) : s = reported
      BY DEF HistoryTypeOK
    <3>3. PICK t : t = Append(s, call)
      OBVIOUS
    <3>4. PICK n \in Nat : n = Len(s) /\ (s = << >> <=> n = 0)
      OBVIOUS
    <3>5. /\ Len(t) = n + 1 /\ t # << >> /\ t[n + 1] = call /\ t \in Seq(Calls)
      BY <3>1, <3>3, <3>4
    <3>8. PICK x : x = Cardinality(Passed(s, n))
      OBVIOUS
    <3>9. PICK y : y = Cardinality(FailedOnes(s, n))
      OBVIOUS
    <3>10. /\ x \in Nat /\ y \in Nat
           /\ Cardinality(Passed(t, n + 1)) = x + (IF call.success THEN 1 ELSE 0)
           /\ Cardinality(FailedOnes(t, n + 1)) = y + (IF call.success THEN 0 ELSE 1)
      <4>1. t[n + 1] = call /\ \A i \in 1 .. n : t[i] = s[i]
        BY <3>1, <3>2, <3>3, <3>4
      <4>2. /\ x \in Nat /\ y \in Nat
            /\ call.success => /\ Cardinality(Passed(t, n + 1)) = x + 1
                               /\ Cardinality(FailedOnes(t, n + 1)) = y
            /\ ~call.success => /\ Cardinality(Passed(t, n + 1)) = x
                                /\ Cardinality(FailedOnes(t, n + 1)) = y + 1
        BY <3>8, <3>9, <4>1, SummaryAppends
      <4> QED
        BY <4>2
    <3>11. \A i \in 1 .. n : s[i].success \in BOOLEAN /\ s[i].time \in Nat
      BY <3>4, CallTypes
    <3>14. SummaryOf(t) = [total |-> n + 1,
                           successes |-> x + (IF call.success THEN 1 ELSE 0),
                           failures |-> y + (IF call.success THEN 0 ELSE 1),
                           last |-> call.time]
      BY <3>5, <3>10 DEF SummaryOf, Passed, FailedOnes
    <3>15. AddToSummary(call) = SummaryOf(t)
      <4>1. CASE n = 0
        <5>1. summary = None
          BY <3>2, <3>4, <4>1 DEF Summed
        <5>2. Passed(s, n) = {} /\ FailedOnes(s, n) = {}
          BY <4>1 DEF Passed, FailedOnes
        <5>3. x = 0 /\ y = 0
          BY <3>8, <3>9, <5>2, FS_EmptySet, Zenon
        <5> QED
          BY <3>14, <4>1, <5>1, <5>3 DEF AddToSummary
      <4>2. CASE n # 0
        <5>1. summary = SummaryOf(s)
          BY <3>2, <3>4, <4>2 DEF Summed
        <5>2. summary # None
          <6>1. SummaryOf(s) = [total |-> n, successes |-> x, failures |-> y, last |-> s[n].time]
            BY <3>4, <3>8, <3>9 DEF SummaryOf, Passed, FailedOnes
          <6>2. SummaryOf(s) \in Summaries
            BY <3>4, <3>10, <3>11, <4>2, <6>1 DEF Summaries
          <6> QED
            BY <5>1, <6>2, MiddlewareNone
        <5>3. summary.total = n /\ summary.successes = x /\ summary.failures = y
          BY <3>4, <3>8, <3>9, <5>1 DEF SummaryOf, Passed, FailedOnes
        <5> QED
          BY <3>14, <5>2, <5>3 DEF AddToSummary
      <4> QED
        BY <4>1, <4>2
    <3> QED
      BY <3>1, <3>2, <3>3, <3>5, <3>15 DEF Summed
  <2> QED
    BY <2>2, <2>3
<1> QED
  BY <1>1, <1>2, <1>3, <1>4 DEF HistoryNext

\* The last k elements of a vector.
LEMMA LastOnes ==
    ASSUME NEW s \in Seq(Calls), NEW k \in Nat, k <= Len(s)
    PROVE  SubSeq(s, Len(s) - k + 1, Len(s)) = [i \in 1 .. k |-> s[Len(s) - k + i]]
<1>0. PICK n \in Nat : n = Len(s)
  OBVIOUS
<1>1. PICK m \in Nat : m = n - k + 1 /\ m >= 1
  <2>1. n - k + 1 \in Nat /\ n - k + 1 >= 1
    BY <1>0
  <2> QED
    BY <2>1
<1>2. PICK t : t = SubSeq(s, m, n)
  OBVIOUS
<1>3. t = [i \in 1 .. n - m + 1 |-> s[i + m - 1]]
  BY <1>0, <1>1, <1>2
<1>4. n - m + 1 = k /\ \A i \in 1 .. k : i + m - 1 = n - k + i
  BY <1>1
<1>5. t = [i \in 1 .. k |-> s[i + m - 1]]
  BY <1>3, <1>4
<1>9. t = [i \in 1 .. k |-> s[n - k + i]]
  BY <1>4, <1>5
<1> QED
  BY <1>0, <1>1, <1>2, <1>9

\* The ring read from its oldest call on, as get_call_log reads it.
LEMMA RingReads ==
    ASSUME NEW l \in Logs, NEW s \in Seq(Calls), NEW r \in Nat, RingOf(l, s, r),
           NEW k, k = Min(r, Len(s))
    PROVE  /\ l.count = k
           /\ (IF l.count < Len(l.entries) THEN SubSeq(l.entries, 1, l.count)
               ELSE [i \in 1 .. Len(l.entries) |->
                       l.entries[((l.head + i - 1) % Len(l.entries)) + 1]])
                = [i \in 1 .. k |-> s[Len(s) - k + i]]
<1>0. PICK n \in Nat : n = Len(s)
  OBVIOUS
<1>1. PICK e \in Seq(Calls) : e = l.entries
  BY DEF Logs
<1>2. PICK h \in Nat : h = l.head
  BY DEF Logs
<1>3. PICK z \in Nat : z = Len(e) /\ DOMAIN e = 1 .. z
  OBVIOUS
<1>4. n \in Nat /\ DOMAIN s = 1 .. n
  BY <1>0
<1>5. k \in Nat /\ k <= n /\ k <= r /\ k = IF n < r THEN n ELSE r
  BY <1>0, <1>4 DEF Min
<1>6. l.count = k
  BY <1>0, <1>4, <1>5 DEF RingOf, Min
<1>7. /\ r > 0 /\ z \in 1 .. r
      /\ n < r => /\ z = r \/ (z = n /\ h = 0)
                  /\ z = r => h = n
                  /\ \A i \in 1 .. n : e[i] = s[i]
      /\ n >= r => /\ z = r /\ h < r
                   /\ \A i \in 1 .. r : e[Slot(h, i, r)] = s[n - r + i]
  BY <1>0, <1>1, <1>2, <1>3 DEF RingOf
<1>10. CASE k < z
  <2>1. n < r /\ k = n
    BY <1>4, <1>5, <1>7, <1>10
  <2>2. SubSeq(e, 1, k) = [i \in 1 .. k |-> e[i]]
    BY <1>3, <1>5, <1>10
  <2>3. [i \in 1 .. k |-> e[i]] = [i \in 1 .. k |-> s[n - k + i]]
    BY <1>4, <1>7, <2>1
  <2> QED
    BY <1>0, <1>1, <1>3, <1>6, <1>10, <2>2, <2>3
<1>11. CASE ~(k < z)
  <2>1. k = z
    BY <1>4, <1>5, <1>7, <1>11
  <2>2. ASSUME NEW i \in 1 .. z
        PROVE  e[((h + i - 1) % z) + 1] = s[n - k + i]
    <3>1. CASE n < r
      <4>1. k = n /\ h = 0 /\ h + i - 1 = i - 1 /\ i - 1 \in Nat /\ i - 1 < z
        BY <1>4, <1>5, <1>7, <2>1, <3>1
      <4>2. PICK y \in Nat : y = i - 1 /\ y < z
        BY <4>1
      <4>3. z \in Nat \ {0} /\ y < 2 * z
        BY <1>7, <4>2
      <4>4. y % z = y
        BY <4>2, <4>3, Remainder
      <4> QED
        BY <1>4, <1>7, <2>1, <3>1, <4>1, <4>2, <4>4
    <3>2. CASE n >= r
      <4>1. z = r /\ h < r /\ k = r
        BY <1>4, <1>5, <1>7, <3>2
      <4>2. PICK x \in Nat : x = h + i - 1 /\ x < 2 * r
        BY <4>1
      <4>5. r \in Nat \ {0}
        BY <1>7
      <4>3. x % r = IF x < r THEN x ELSE x - r
        BY <4>2, <4>5, Remainder
      <4>4. (x % r) + 1 = Slot(h, i, r)
        BY <4>1, <4>2, <4>3 DEF Slot
      <4> QED
        BY <1>7, <3>2, <4>1, <4>2, <4>4
    <3> QED
      BY <1>4, <3>1, <3>2
  <2>3. [i \in 1 .. z |-> e[((h + i - 1) % z) + 1]] = [i \in 1 .. k |-> s[n - k + i]]
    BY <2>1, <2>2
  <2> QED
    BY <1>0, <1>1, <1>2, <1>3, <1>6, <1>11, <2>3
<1> QED
  BY <1>6, <1>10, <1>11

\* The last k of the reported calls, as the readings of the log give them.
TailIs(k) ==
    /\ CallLogLength = k
    /\ ReadLog = [i \in 1 .. k |-> reported[Len(reported) - k + i]]

LEMMA TailIsRead ==
    ASSUME TypeOK, HistoryTypeOK, Ring
    PROVE  \E k \in Nat : k = Min(Retention, Len(reported)) /\ k <= Len(reported) /\ TailIs(k)
<1>1. PICK s \in Seq(Calls) : s = reported
  BY DEF HistoryTypeOK
<1>2. PICK n \in Nat : n = Len(s)
  OBVIOUS
<1>3. PICK r \in Nat : r = Retention
  BY MiddlewareNumbers DEF TypeOK, RouteConfigs, Retention
<1>4. PICK k \in Nat : k = Min(r, n) /\ k <= n
  BY DEF Min
<1>5. CASE log = None
  <2>1. s = << >> /\ n = 0 /\ k = 0
    BY <1>1, <1>2, <1>4, <1>5 DEF Ring, Min
  <2>2. ReadLog = << >> /\ CallLogLength = 0
    BY <1>5 DEF ReadLog, CallLogLength
  <2>3. << >> = [i \in 1 .. 0 |-> s[n - k + i]]
    OBVIOUS
  <2> QED
    BY <1>1, <1>2, <1>3, <1>4, <2>1, <2>2, <2>3 DEF TailIs
<1>6. CASE log # None
  <2>1. PICK l \in Logs : l = log
    BY <1>6 DEF TypeOK
  <2>2. RingOf(l, s, r)
    BY <1>1, <1>3, <1>6, <2>1 DEF Ring
  <2>3. k = Min(r, Len(s))
    BY <1>2, <1>4
  <2>4. /\ l.count = k
        /\ (IF l.count < Len(l.entries) THEN SubSeq(l.entries, 1, l.count)
            ELSE [i \in 1 .. Len(l.entries) |->
                    l.entries[((l.head + i - 1) % Len(l.entries)) + 1]])
             = [i \in 1 .. k |-> s[Len(s) - k + i]]
    BY <2>2, <2>3, RingReads
  <2> QED
    BY <1>1, <1>2, <1>3, <1>4, <1>6, <2>1, <2>4 DEF TailIs, ReadLog, CallLogLength
<1> QED
  BY <1>5, <1>6

\* A filtered reading and the one with the opposite filter share out the calls.
LEMMA FiltersShareOut ==
    ASSUME NEW q \in Seq(Calls)
    PROVE  Len(Kept(q, {i \in DOMAIN q : q[i].success = TRUE}))
             + Len(Kept(q, {i \in DOMAIN q : q[i].success = FALSE})) = Len(q)
<1>1. PICK n \in Nat : n = Len(q) /\ DOMAIN q = 1 .. n
  OBVIOUS
<1>2. PICK A : A = {i \in DOMAIN q : q[i].success = TRUE}
  OBVIOUS
<1>3. PICK B : B = {i \in DOMAIN q : q[i].success = FALSE}
  OBVIOUS
<1>4. \A i \in 1 .. n : q[i].success \in BOOLEAN
  BY <1>1, CallTypes
<1>5. A \in SUBSET (1 .. n) /\ B \in SUBSET (1 .. n)
  BY <1>1, <1>2, <1>3
<1>6. A \cup B = 1 .. n /\ A \cap B = {}
  BY <1>1, <1>2, <1>3, <1>4
<1>7. IsFiniteSet(1 .. n) /\ Cardinality(1 .. n) = n
  BY FS_Interval
<1>8. IsFiniteSet(A) /\ IsFiniteSet(B) /\ IsFiniteSet({})
  BY <1>5, <1>7, FS_Subset, FS_EmptySet
<1>9. Cardinality(A) + Cardinality(B) = n
  <2>1. (A \cup B) \cap {} = {}
    OBVIOUS
  <2>2. Cardinality(A \cup B) = Cardinality(A) + Cardinality(B)
    BY <1>6, <1>8, <2>1, DisjointCardinality
  <2> QED
    BY <1>6, <1>7, <2>2
<1>10. Len(Kept(q, A)) = Cardinality(A) /\ Len(Kept(q, B)) = Cardinality(B)
  BY <1>1, <1>5, KeptLen
<1> QED
  BY <1>1, <1>2, <1>3, <1>9, <1>10

\* Ring and summary together are the promise of the log's readings.
LEMMA TailIsEnough == TypeOK /\ HistoryTypeOK /\ Ring /\ Summed => LogIsTail
<1> SUFFICES ASSUME TypeOK, HistoryTypeOK, Ring, Summed
             PROVE  LogIsTail
  OBVIOUS
<1>1. PICK s \in Seq(Calls) : s = reported
  BY DEF HistoryTypeOK
<1>2. PICK n \in Nat : n = Len(s)
  OBVIOUS
<1>3. PICK k \in Nat : k = Min(Retention, n) /\ k <= n /\ TailIs(k)
  BY <1>1, <1>2, TailIsRead
<1>4. k = IF config = None THEN 0 ELSE Min(config.retention, n)
  BY <1>2, <1>3 DEF Retention, Min
<1>5. SubSeq(s, n - k + 1, n) = [i \in 1 .. k |-> s[n - k + i]]
  BY <1>2, <1>3, LastOnes
<1>6. PICK q : q = ReadLog
  OBVIOUS
<1>7. q = [i \in 1 .. k |-> s[n - k + i]] /\ CallLogLength = k
  BY <1>1, <1>2, <1>3, <1>6 DEF TailIs
<1>8. q \in Seq(Calls) /\ Len(q) = k
  <2>1. \A i \in 1 .. k : n - k + i \in 1 .. n
    BY <1>3
  <2>2. \A i \in 1 .. n : s[i] \in Calls
    BY <1>2
  <2>3. \A i \in 1 .. k : s[n - k + i] \in Calls
    BY <2>1, <2>2
  <2> QED
    BY <1>7, <2>3
<1>9. Len(CallLogFiltered(TRUE)) + Len(CallLogFiltered(FALSE)) = k
  BY <1>6, <1>8, FiltersShareOut DEF CallLogFiltered
<1>10. IF n = 0 THEN summary = None
       ELSE summary = [total |-> n,
                       successes |-> Cardinality({i \in 1 .. n : s[i].success}),
                       failures |-> Cardinality({i \in 1 .. n : ~s[i].success}),
                       last |-> s[n].time]
  BY <1>1, <1>2 DEF Summed, SummaryOf
<1> QED
  BY <1>1, <1>2, <1>4, <1>5, <1>6, <1>7, <1>9, <1>10 DEF LogIsTail

-----------------------------------------------------------------------------
(* The views that fold over the callers: how a fold over a finite function *)
(* of naturals relates to each of its values.                              *)

Picked(s) == CHOOSE x \in s : TRUE

\* One step of a fold: h gives the smaller sets, op combines.
Folded(f, base, op, h, s) ==
    IF s = {} THEN base ELSE op[<<f[Picked(s)], h[s \ {Picked(s)}]>>]

LEMMA PickedOut ==
    ASSUME NEW S, IsFiniteSet(S), NEW s \in SUBSET S, s # {}
    PROVE  /\ Picked(s) \in s /\ s \ {Picked(s)} \in SUBSET S
           /\ Cardinality(s) \in Nat /\ Cardinality(s \ {Picked(s)}) = Cardinality(s) - 1
<1>1. Picked(s) \in s
  BY DEF Picked
<1>2. IsFiniteSet(s)
  BY FS_Subset
<1>3. Cardinality(s) \in Nat /\ Cardinality(s \ {Picked(s)}) = Cardinality(s) - 1
  BY <1>1, <1>2, FS_CardinalityType, FS_RemoveElement
<1> QED
  BY <1>1, <1>3

HasFold(S, f, base, op) ==
    \E h \in [SUBSET S -> Nat] : \A s \in SUBSET S : h[s] = Folded(f, base, op, h, s)

LEMMA FoldExists ==
    ASSUME NEW S, IsFiniteSet(S), NEW f \in [S -> Nat], NEW base \in Nat,
           NEW op \in [Nat \X Nat -> Nat]
    PROVE  HasFold(S, f, base, op)
<1> DEFINE Upto(h, n) ==
              \A s \in SUBSET S : Cardinality(s) <= n => h[s] = Folded(f, base, op, h, s)
           M == {n \in Nat : \E h \in [SUBSET S -> Nat] : Upto(h, n)}
<1>1. \A s \in SUBSET S : IsFiniteSet(s) /\ Cardinality(s) \in Nat
  BY FS_Subset, FS_CardinalityType
<1>2. 0 \in M
  <2>1. PICK h : h = [s \in SUBSET S |-> base]
    OBVIOUS
  <2>2. \A s \in SUBSET S : Cardinality(s) <= 0 => s = {}
    BY <1>1, FS_EmptySet
  <2>3. h \in [SUBSET S -> Nat] /\ Upto(h, 0)
    BY <2>1, <2>2 DEF Folded
  <2> QED
    BY <2>3
<1>3. ASSUME NEW n \in M
      PROVE  n + 1 \in M
  <2>1. n \in Nat
    OBVIOUS
  <2>2. PICK h \in [SUBSET S -> Nat] : Upto(h, n)
    OBVIOUS
  <2>3. PICK g : g = [s \in SUBSET S |->
                        IF Cardinality(s) <= n THEN h[s] ELSE Folded(f, base, op, h, s)]
    OBVIOUS
  <2>4. \A s \in SUBSET S : g[s] = Folded(f, base, op, h, s)
    BY <2>2, <2>3
  <2>5. ASSUME NEW s \in SUBSET S
        PROVE  Folded(f, base, op, h, s) \in Nat
    <3>1. CASE s = {}
      BY <3>1 DEF Folded
    <3>2. CASE s # {}
      <4>1. Picked(s) \in S /\ s \ {Picked(s)} \in SUBSET S
        BY <3>2, PickedOut
      <4>2. f[Picked(s)] \in Nat /\ h[s \ {Picked(s)}] \in Nat
        BY <4>1
      <4> QED
        BY <3>2, <4>2 DEF Folded
    <3> QED
      BY <3>1, <3>2
  <2>6. g \in [SUBSET S -> Nat]
    <3> HIDE DEF Upto
    <3> QED
      BY <2>3, <2>5
  <2>7. ASSUME NEW s \in SUBSET S, Cardinality(s) <= n + 1
        PROVE  g[s] = Folded(f, base, op, g, s)
    <3>1. CASE s = {}
      BY <2>4, <3>1 DEF Folded
    <3>2. CASE s # {}
      <4>1. PICK r \in SUBSET S : r = s \ {Picked(s)}
        BY <3>2, PickedOut
      <4>2. Cardinality(r) <= n
        BY <2>1, <2>7, <3>2, <4>1, PickedOut
      <4>3. g[r] = h[r]
        BY <2>3, <4>2
      <4> QED
        BY <2>4, <3>2, <4>1, <4>3 DEF Folded
    <3> QED
      BY <3>1, <3>2
  <2> QED
    BY <2>1, <2>6, <2>7
<1>4. M = Nat
  <2>1. M \in SUBSET Nat
    OBVIOUS
  <2> HIDE DEF M
  <2> QED
    BY <1>2, <1>3, <2>1, Induction
<1>5. Cardinality(S) \in Nat
  BY <1>1
<1>6. PICK h \in [SUBSET S -> Nat] : Upto(h, Cardinality(S))
  BY <1>4, <1>5
<1>7. \A s \in SUBSET S : Cardinality(s) <= Cardinality(S)
  BY FS_Subset
<1> QED
  BY <1>6, <1>7 DEF HasFold

\* A sum of naturals is at least each of them.
LEMMA SumCovers ==
    ASSUME NEW S, IsFiniteSet(S), NEW f \in [S -> Nat]
    PROVE  /\ FoldFunction(+, 0, f) \in Nat
           /\ \A c \in S : f[c] <= FoldFunction(+, 0, f)
<1> DEFINE Step(h) == [s \in SUBSET S |->
                         IF s = {} THEN 0
                         ELSE f[CHOOSE x \in s : TRUE] + h[s \ {CHOOSE x \in s : TRUE}]]
<1>1. \A s \in SUBSET S : s # {} => Picked(s) \in S /\ s \ {Picked(s)} \in SUBSET S
  BY PickedOut
<1>2. \E h : h = Step(h)
  <2>1. PICK op : op = [p \in Nat \X Nat |-> p[1] + p[2]]
    OBVIOUS
  <2>2. op \in [Nat \X Nat -> Nat] /\ \A x \in Nat, y \in Nat : op[<<x, y>>] = x + y
    BY <2>1
  <2>3. PICK h \in [SUBSET S -> Nat] : \A s \in SUBSET S : h[s] = Folded(f, 0, op, h, s)
    <3>1. 0 \in Nat /\ op \in [Nat \X Nat -> Nat]
      BY <2>2
    <3>2. HasFold(S, f, 0, op)
      BY <3>1, FoldExists, Zenon
    <3> QED
      BY <3>2 DEF HasFold
  <2>4. \A s \in SUBSET S :
           h[s] = IF s = {} THEN 0 ELSE f[Picked(s)] + h[s \ {Picked(s)}]
    BY <1>1, <2>2, <2>3 DEF Folded
  <2>5. h = Step(h)
    BY <2>4 DEF Picked
  <2> QED
    BY <2>5
<1>3. PICK iter : iter = CHOOSE h : h = Step(h)
  OBVIOUS
<1>4. iter = Step(iter)
  <2> HIDE DEF Step
  <2> QED
    BY <1>2, <1>3
<1>5. FoldFunction(+, 0, f) = iter[S]
  <2>1. DOMAIN f = S
    OBVIOUS
  <2> QED
    BY <1>3, <2>1, Zenon DEF FoldFunction, FoldFunctionOnSet, MapThenFoldSet
<1>6. \A s \in SUBSET S : iter[s] = IF s = {} THEN 0 ELSE f[Picked(s)] + iter[s \ {Picked(s)}]
  BY <1>4 DEF Picked
<1> HIDE DEF Step
<1> DEFINE M == {n \in Nat : \A s \in SUBSET S : Cardinality(s) <= n =>
                                iter[s] \in Nat /\ \A c \in s : f[c] <= iter[s]}
<1>7. 0 \in M
  <2>1. \A s \in SUBSET S : Cardinality(s) <= 0 => s = {}
    BY FS_Subset, FS_CardinalityType, FS_EmptySet
  <2> QED
    BY <1>6, <2>1
<1>8. ASSUME NEW n \in M
      PROVE  n + 1 \in M
  <2>1. ASSUME NEW s \in SUBSET S, Cardinality(s) <= n + 1
        PROVE  iter[s] \in Nat /\ \A c \in s : f[c] <= iter[s]
    <3>1. CASE s = {}
      <4>1. iter[s] = 0
        BY <1>6, <3>1
      <4> QED
        BY <3>1, <4>1
    <3>2. CASE s # {}
      <4>1. PICK p \in s : p = Picked(s)
        BY <3>2, PickedOut
      <4>2. PICK r \in SUBSET S : r = s \ {p}
        OBVIOUS
      <4>3. Cardinality(r) <= n
        BY <2>1, <3>2, <4>1, <4>2, PickedOut
      <4>4. iter[r] \in Nat /\ \A c \in r : f[c] <= iter[r]
        BY <4>3
      <4>5. iter[s] = f[p] + iter[r]
        BY <1>6, <3>2, <4>1, <4>2
      <4>6. \A c \in s : f[c] \in Nat /\ (c = p \/ c \in r)
        BY <4>2
      <4> HIDE DEF M
      <4> QED
        BY <4>4, <4>5, <4>6
    <3> QED
      BY <3>1, <3>2
  <2> QED
    BY <2>1
<1>9. M = Nat
  <2>1. M \in SUBSET Nat
    OBVIOUS
  <2> HIDE DEF M
  <2> QED
    BY <1>7, <1>8, <2>1, Induction
<1>10. Cardinality(S) \in Nat
  BY FS_CardinalityType
<1>11. iter[S] \in Nat /\ \A c \in S : f[c] <= iter[S]
  <2>1. Cardinality(S) \in M
    BY <1>9, <1>10
  <2> QED
    BY <1>10, <2>1
<1> QED
  BY <1>5, <1>11, Zenon
\* The least of some naturals and t is at most each of them.
LEMMA MinCovers ==
    ASSUME NEW S, IsFiniteSet(S), NEW f \in [S -> Nat], NEW t \in Nat
    PROVE  /\ FoldFunction(Min, t, f) \in Nat
           /\ \A c \in S : FoldFunction(Min, t, f) <= f[c]
<1> DEFINE Step(h) == [s \in SUBSET S |->
                         IF s = {} THEN t
                         ELSE Min(f[CHOOSE x \in s : TRUE], h[s \ {CHOOSE x \in s : TRUE}])]
<1>1. \A s \in SUBSET S : s # {} => Picked(s) \in S /\ s \ {Picked(s)} \in SUBSET S
  BY PickedOut
<1>2. \E h : h = Step(h)
  <2>1. PICK op : op = [p \in Nat \X Nat |-> Min(p[1], p[2])]
    OBVIOUS
  <2>2. op \in [Nat \X Nat -> Nat] /\ \A x \in Nat, y \in Nat : op[<<x, y>>] = Min(x, y)
    BY <2>1 DEF Min
  <2>3. PICK h \in [SUBSET S -> Nat] : \A s \in SUBSET S : h[s] = Folded(f, t, op, h, s)
    <3>1. t \in Nat /\ op \in [Nat \X Nat -> Nat]
      BY <2>2
    <3>2. HasFold(S, f, t, op)
      BY <3>1, FoldExists, Zenon
    <3> QED
      BY <3>2 DEF HasFold
  <2>4. \A s \in SUBSET S :
           h[s] = IF s = {} THEN t ELSE Min(f[Picked(s)], h[s \ {Picked(s)}])
    BY <1>1, <2>2, <2>3 DEF Folded
  <2>5. h = Step(h)
    BY <2>4 DEF Picked
  <2> QED
    BY <2>5
<1>3. PICK iter : iter = CHOOSE h : h = Step(h)
  OBVIOUS
<1>4. iter = Step(iter)
  <2> HIDE DEF Step
  <2> QED
    BY <1>2, <1>3
<1>5. FoldFunction(Min, t, f) = iter[S]
  <2>1. DOMAIN f = S
    OBVIOUS
  <2> QED
    BY <1>3, <2>1, Zenon DEF FoldFunction, FoldFunctionOnSet, MapThenFoldSet
<1>6. \A s \in SUBSET S : iter[s] = IF s = {} THEN t ELSE Min(f[Picked(s)], iter[s \ {Picked(s)}])
  BY <1>4 DEF Picked
<1> HIDE DEF Step
<1> DEFINE M == {n \in Nat : \A s \in SUBSET S : Cardinality(s) <= n =>
                                iter[s] \in Nat /\ \A c \in s : iter[s] <= f[c]}
<1>7. 0 \in M
  <2>1. \A s \in SUBSET S : Cardinality(s) <= 0 => s = {}
    BY FS_Subset, FS_CardinalityType, FS_EmptySet
  <2> QED
    BY <1>6, <2>1
<1>8. ASSUME NEW n \in M
      PROVE  n + 1 \in M
  <2>1. ASSUME NEW s \in SUBSET S, Cardinality(s) <= n + 1
        PROVE  iter[s] \in Nat /\ \A c \in s : iter[s] <= f[c]
    <3>1. CASE s = {}
      <4>1. iter[s] = t
        BY <1>6, <3>1
      <4> QED
        BY <3>1, <4>1
    <3>2. CASE s # {}
      <4>1. PICK p \in s : p = Picked(s)
        BY <3>2, PickedOut
      <4>2. PICK r \in SUBSET S : r = s \ {p}
        OBVIOUS
      <4>3. Cardinality(r) <= n
        BY <2>1, <3>2, <4>1, <4>2, PickedOut
      <4>4. iter[r] \in Nat /\ \A c \in r : iter[r] <= f[c]
        BY <4>3
      <4>5. iter[s] = Min(f[p], iter[r])
        BY <1>6, <3>2, <4>1, <4>2
      <4>6. \A c \in s : f[c] \in Nat /\ (c = p \/ c \in r)
        BY <4>2
      <4> HIDE DEF M
      <4> QED
        BY <4>4, <4>5, <4>6 DEF Min
    <3> QED
      BY <3>1, <3>2
  <2> QED
    BY <2>1
<1>9. M = Nat
  <2>1. M \in SUBSET Nat
    OBVIOUS
  <2> HIDE DEF M
  <2> QED
    BY <1>7, <1>8, <2>1, Induction
<1>10. Cardinality(S) \in Nat
  BY FS_CardinalityType
<1>11. iter[S] \in Nat /\ \A c \in S : iter[S] <= f[c]
  <2>1. Cardinality(S) \in M
    BY <1>9, <1>10
  <2> QED
    BY <1>10, <2>1
<1> QED
  BY <1>5, <1>11, Zenon
LEMMA FiniteKept ==
    ASSUME TypeOK, Sane, EntriesFinite, HistoryNext
    PROVE  EntriesFinite'
<1>1. IsFiniteSet(DOMAIN rates)
  BY DEF EntriesFinite
<1>2. CASE rates' = rates
  BY <1>1, <1>2 DEF EntriesFinite
<1>3. ASSUME NEW c, DOMAIN rates' \subseteq DOMAIN rates \cup {c}
      PROVE  EntriesFinite'
  <2>1. IsFiniteSet(DOMAIN rates \cup {c})
    BY <1>1, FS_AddElement
  <2>2. IsFiniteSet(DOMAIN rates')
    BY <1>3, <2>1, FS_Subset
  <2> QED
    BY <2>2 DEF EntriesFinite
<1>4. CASE Administer
  <2>1. rates' = rates \/ \E b \in Callers : rates' = Delete(rates, {b})
    BY <1>4, AdministerAnew DEF Anew
  <2>2. ASSUME NEW b \in Callers, rates' = Delete(rates, {b})
        PROVE  DOMAIN rates' \subseteq DOMAIN rates \cup {b}
    BY <2>2 DEF Delete
  <2> QED
    BY <1>2, <1>3, <2>1, <2>2
<1>5. ASSUME NEW c \in Callers, PreCall(c)
      PROVE  EntriesFinite'
  <2>1. DOMAIN Pruned \subseteq DOMAIN rates
    BY PruneLeaves
  <2>2. CASE config = None
    BY <1>2, <1>5, <2>2 DEF PreCall, callState
  <2>3. CASE config # None /\ LimitOf(c) = None
    <3>1. rates' = Pruned
      BY <1>5, <2>3 DEF PreCall
    <3> QED
      BY <1>3, <2>1, <3>1
  <2>4. CASE config # None /\ LimitOf(c) # None
    <3>1. rates' = Put(Pruned, c, CheckAndIncrement(c, LimitOf(c)))
      BY <1>5, <2>4 DEF PreCall
    <3>2. DOMAIN rates' = DOMAIN Pruned \cup {c}
      BY <3>1 DEF Put
    <3> QED
      BY <1>3, <2>1, <3>2
  <2> QED
    BY <2>2, <2>3, <2>4
<1>6. CASE Tick
  BY <1>2, <1>6 DEF Tick, callState
<1>7. ASSUME NEW c \in Callers, NEW success \in BOOLEAN, PostCall(c, success)
      PROVE  EntriesFinite'
  BY <1>2, <1>7 DEF PostCall
<1> QED
  BY <1>4, <1>5, <1>6, <1>7
     DEF HistoryNext, RememberAdminister, RememberPreCall, RememberPostCall

\* What the views show of a caller's entry.
LEMMA WindowTyped ==
    ASSUME TypeOK, NEW c \in DOMAIN rates, NEW w
    PROVE  WindowOf(c, rates, w).calls \in Nat /\ WindowOf(c, rates, w).start \in Nat
<1>1. PICK r \in Entries : r = rates[c] /\ r.start \in Nat /\ r.calls \in Nat
  BY EntriesTyped DEF EntryTypes
<1>2. now \in Nat
  BY MiddlewareNumbers DEF TypeOK
<1>3. PICK e : e = [r EXCEPT !.calls = 0, !.start = now]
  OBVIOUS
<1>4. e.calls = 0 /\ e.start = now
  BY <1>3 DEF Entries
<1>5. PICK v : v = WindowOf(c, rates, w)
  OBVIOUS
<1>6. v = r \/ v = e
  BY <1>1, <1>3, <1>5 DEF WindowOf
<1>7. v.calls \in Nat /\ v.start \in Nat
  BY <1>1, <1>2, <1>4, <1>6
<1> QED
  BY <1>5, <1>7

\* Pruning takes no window that still counts.
LEMMA PruneUnseen ==
    ASSUME TypeOK, Sane, NEW c \in Callers, config # None, LimitOf(c) # None
    PROVE  RateLimitState(c).calls = WindowOf(c, Pruned, LimitOf(c).window).calls
<1>1. PICK w \in Nat : w = LimitOf(c).window /\ w = EffectiveWindow(c)
  BY Limited
<1>2. CASE c \in DOMAIN Pruned
  <2>1. c \in DOMAIN rates /\ Pruned[c] = rates[c]
    BY <1>2, PruneLeaves
  <2> QED
    BY <1>1, <1>2, <2>1 DEF RateLimitState, WindowOf
<1>3. CASE c \notin DOMAIN Pruned
  <2>1. WindowOf(c, Pruned, w).calls = 0
    BY <1>3 DEF WindowOf
  <2>2. CASE c \notin DOMAIN rates
    BY <1>1, <2>1, <2>2 DEF RateLimitState
  <2>3. CASE c \in DOMAIN rates
    <3>1. Stale(c)
      BY <1>3, <2>3, PruneLeaves
    <3>2. PICK r \in Entries : r = rates[c] /\ r.start \in Nat
      BY <2>3, EntriesTyped DEF EntryTypes
    <3>3. now >= r.start + w /\ r.start + w \in Nat
      <4>1. now >= rates[c].start + LimitOf(c).window
        BY <2>3, <3>1, StaleIsOver
      <4>2. r.start + w \in Nat
        BY <3>2
      <4> QED
        BY <1>1, <3>2, <4>1, <4>2
    <3>4. WindowElapsed(r.start, w)
      BY <3>3, Saturates DEF WindowElapsed
    <3>5. WindowOf(c, rates, w) = [r EXCEPT !.calls = 0, !.start = now]
      BY <2>3, <3>2, <3>4 DEF WindowOf
    <3>6. WindowOf(c, rates, w).calls = 0
      BY <3>5 DEF Entries
    <3> QED
      BY <1>1, <2>1, <2>3, <3>6 DEF RateLimitState
  <2> QED
    BY <2>2, <2>3
<1> QED
  BY <1>2, <1>3

LEMMA ViewsAgree == TypeOK /\ Sane /\ EntriesFinite => ViewPredictsPreCall
<1> SUFFICES ASSUME TypeOK, Sane, EntriesFinite, config # None,
                    NEW c \in Callers, LimitOf(c) # None
             PROVE  /\ RateLimitState(c).calls >= LimitOf(c).calls <=> Exceeded(c, LimitOf(c))
                    /\ Exceeded(c, LimitOf(c)) =>
                         /\ RouteRateLimitStats.calls >= LimitOf(c).calls
                         /\ RouteRateLimitStats.start <= RateLimitState(c).start
  BY DEF ViewPredictsPreCall
<1>1. PICK m \in Nat \ {0} : m = LimitOf(c).calls
  BY Limited
<1>2. RateLimitState(c).calls >= m <=> Exceeded(c, LimitOf(c))
  BY <1>1, PruneUnseen DEF Exceeded
<1>3. ASSUME Exceeded(c, LimitOf(c))
      PROVE  /\ RouteRateLimitStats.calls >= m
             /\ RouteRateLimitStats.start <= RateLimitState(c).start
  <2>1. c \in DOMAIN rates
    BY <1>1, <1>2, <1>3 DEF RateLimitState
  <2>2. PICK v : v = WindowOf(c, rates, EffectiveWindow(c))
    OBVIOUS
  <2>3. RateLimitState(c) = v /\ v.calls \in Nat /\ v.start \in Nat
    BY <2>1, <2>2, WindowTyped DEF RateLimitState
  <2>4. PICK f : f = [d \in DOMAIN rates |-> WindowOf(d, rates, EffectiveWindow(d)).calls]
    OBVIOUS
  <2>5. PICK g : g = [d \in DOMAIN rates |-> WindowOf(d, rates, EffectiveWindow(d)).start]
    OBVIOUS
  <2>6. f \in [DOMAIN rates -> Nat] /\ g \in [DOMAIN rates -> Nat] /\ f[c] = v.calls /\ g[c] = v.start
    BY <2>1, <2>2, <2>4, <2>5, WindowTyped
  <2>7. IsFiniteSet(DOMAIN rates) /\ now \in Nat
    BY MiddlewareNumbers DEF EntriesFinite, TypeOK
  <2>8. /\ RouteRateLimitStats.calls = FoldFunction(+, 0, f)
        /\ RouteRateLimitStats.start = FoldFunction(Min, now, g)
    BY <2>4, <2>5 DEF RouteRateLimitStats
  <2>9. /\ FoldFunction(+, 0, f) \in Nat
        /\ \A d \in DOMAIN rates : f[d] <= FoldFunction(+, 0, f)
    BY <2>6, <2>7, SumCovers
  <2>10. \A d \in DOMAIN rates : FoldFunction(Min, now, g) <= g[d]
    BY <2>6, <2>7, MinCovers
  <2>11. RouteRateLimitStats.start <= RateLimitState(c).start
    BY <2>1, <2>3, <2>6, <2>8, <2>10
  <2>12. f[c] <= RouteRateLimitStats.calls /\ RouteRateLimitStats.calls \in Nat
    BY <2>1, <2>8, <2>9
  <2>13. m <= f[c] /\ f[c] \in Nat
    BY <1>2, <1>3, <2>3, <2>6
  <2>14. RouteRateLimitStats.calls >= m
    BY <2>12, <2>13
  <2> QED
    BY <2>11, <2>14
<1> QED
  BY <1>1, <1>2, <1>3

-----------------------------------------------------------------------------
(* The theorems.                                                           *)

LEMMA InvKept == MiddlewareInv /\ [HistoryNext]_historyVars => MiddlewareInv'
<1> SUFFICES ASSUME MiddlewareInv, [HistoryNext]_historyVars
             PROVE  MiddlewareInv'
  OBVIOUS
<1>1. CASE HistoryNext
  <2>1. TypeOK' /\ Sane' /\ Clocks' /\ HistoryTypeOK'
    BY <1>1, TypesKept DEF MiddlewareInv
  <2>2. Counted' /\ OpenedFirst'
    BY <1>1, CountKept, OpeningKept DEF MiddlewareInv
  <2>3. Held'
    BY <1>1, HeldKept DEF MiddlewareInv
  <2>4. Ring' /\ Summed'
    BY <1>1, RingKept, SummedKept DEF MiddlewareInv
  <2>5. EntriesFinite'
    BY <1>1, FiniteKept DEF MiddlewareInv
  <2> QED
    BY <2>1, <2>2, <2>3, <2>4, <2>5 DEF MiddlewareInv
<1>2. CASE UNCHANGED historyVars
  <2>1. UNCHANGED vars /\ UNCHANGED history
    BY <1>2 DEF historyVars
  <2>2. /\ UNCHANGED now /\ UNCHANGED total
        /\ UNCHANGED <<admin, enabled, config, strategy, override>>
        /\ UNCHANGED <<rates, breaker, pruned>>
        /\ UNCHANGED <<log, summary>>
    BY <2>1 DEF vars, settings, callState, logged
  <2>3. UNCHANGED <<admitted, reported, streak, opened>>
    BY <2>1 DEF history
  <2>4. TypeOK'
    BY <2>2 DEF MiddlewareInv, TypeOK
  <2>5. Sane' /\ Clocks' /\ OpenedFirst'
    BY <2>2, <2>3 DEF MiddlewareInv, Sane, Clocks, OpenedFirst
  <2>6. HistoryTypeOK' /\ Counted'
    BY <2>2, <2>3 DEF MiddlewareInv, HistoryTypeOK, Counted, Closed
  <2>7. Held'
    BY <2>2, <2>3 DEF MiddlewareInv, Held, HeldTo, LimitOf
  <2>8. Ring'
    BY <2>2, <2>3 DEF MiddlewareInv, Ring, Retention
  <2>9. Summed'
    BY <2>2, <2>3 DEF MiddlewareInv, Summed
  <2>10. EntriesFinite'
    BY <2>2 DEF MiddlewareInv, EntriesFinite
  <2> QED
    BY <2>4, <2>5, <2>6, <2>7, <2>8, <2>9, <2>10 DEF MiddlewareInv
<1> QED
  BY <1>1, <1>2

LEMMA InvHolds == HistorySpec => []MiddlewareInv
<1>1. HistoryInit => MiddlewareInv
  BY Started
<1>2. MiddlewareInv /\ [HistoryNext]_historyVars => MiddlewareInv'
  BY InvKept
<1> QED
  BY <1>1, <1>2, PTL DEF HistorySpec

\* A caller held to a limit is let through fewer than twice that often in any
\* stretch as long as its window, through pruning and every change of the
\* settings by the admin (check_rate_limit, prune_stale_rate_limits).
THEOREM LimitsHold == HistorySpec => []LimitHolds
<1>1. MiddlewareInv => LimitHolds
  BY HeldIsEnough DEF MiddlewareInv
<1> QED
  BY <1>1, InvHolds, PTL

\* The ring buffer answers the last calls reported, oldest first, and the
\* summary counts them all (append_call_log, get_call_log, issues #812, #1193).
THEOREM LogStaysTail == HistorySpec => []LogIsTail
<1>1. MiddlewareInv => LogIsTail
  BY TailIsEnough DEF MiddlewareInv
<1> QED
  BY <1>1, InvHolds, PTL

\* The views tell of a caller what the next call will find, though pruning and
\* saturation are computed apart, and the totals of the route, folds over its
\* callers, cover each of them (get_rate_limit_state, get_route_rate_limit_stats,
\* issues #1196, #1317).
THEOREM ViewsPredict == HistorySpec => []ViewPredictsPreCall
<1>1. MiddlewareInv => ViewPredictsPreCall
  BY ViewsAgree DEF MiddlewareInv
<1> QED
  BY <1>1, InvHolds, PTL

\* A closed circuit opens exactly when the failures in a row reach the
\* threshold (handle_failure).
THEOREM CircuitTrips == HistorySpec => TripsAtThreshold
<1>1. ASSUME MiddlewareInv, [HistoryNext]_historyVars
      PROVE  [Closed /\ streak' = streak + 1 =>
                (breaker'.open <=> streak' >= config.threshold)]_historyVars
  BY <1>1, Trips DEF MiddlewareInv
<1> QED
  BY <1>1, InvHolds, PTL DEF HistorySpec, TripsAtThreshold

\* No call passes an open circuit before the recovery window, counted from the
\* opening, is over (check_circuit_breaker, get_circuit_breaker_state).
THEOREM CircuitBlocks == HistorySpec => OpenBlocks
<1>1. ASSUME MiddlewareInv, [HistoryNext]_historyVars
      PROVE  [total' = total + 1 /\ config # None /\ config.threshold > 0 =>
                /\ breaker.open =>
                     config.recovery > 0 /\ now >= Saturating(opened + config.recovery)
                /\ breaker' = BreakerView]_historyVars
  BY <1>1, Blocks DEF MiddlewareInv
<1> QED
  BY <1>1, InvHolds, PTL DEF HistorySpec, OpenBlocks

=============================================================================
