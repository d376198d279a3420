---------------------------- MODULE VectorLemmas ----------------------------
(***************************************************************************)
(* Facts about the operators of Vectors, for every sequence and set, and   *)
(* induction on the naturals stated for sets, for proofs about recursion.  *)
(***************************************************************************)
EXTENDS Vectors, TLAPS, FiniteSetTheorems, WellFoundedInduction

\* Kept keeps a subsequence: its k-th element is the element of s at f[k], f
\* is increasing, and f reaches every position of I.
LEMMA KeptEmbeds ==
    ASSUME NEW S, NEW s \in Seq(S), NEW I \in SUBSET (1 .. Len(s))
    PROVE  /\ Kept(s, I) \in Seq(S)
           /\ \E f \in [1 .. Len(Kept(s, I)) -> 1 .. Len(s)] :
                /\ \A k \in 1 .. Len(Kept(s, I)) : Kept(s, I)[k] = s[f[k]] /\ f[k] \in I
                /\ \A j, k \in 1 .. Len(Kept(s, I)) : j < k => f[j] < f[k]
                /\ \A i \in I : \E k \in 1 .. Len(Kept(s, I)) : f[k] = i
<1> DEFINE upto(i) == {j \in I : j <= i}
           n == Cardinality(I)
           r == [i \in I |-> Cardinality(upto(i))]
           pick(k) == CHOOSE i \in I : Cardinality(upto(i)) = k
           f == [k \in 1 .. n |-> pick(k)]
           t == [k \in 1 .. n |-> s[CHOOSE i \in I : Cardinality(upto(i)) = k]]
<1>0. Len(s) \in Nat /\ \A i \in I : i \in 1 .. Len(s) /\ i \in Int
  <2>1. Len(s) \in Nat
    OBVIOUS
  <2> QED
    BY <2>1
<1>1. Kept(s, I) = t
  BY DEF Kept
<1>2. IsFiniteSet(I) /\ n \in Nat
  <2>1. IsFiniteSet(1 .. Len(s))
    BY <1>0, FS_Interval
  <2>2. IsFiniteSet(I)
    BY <2>1, FS_Subset
  <2> QED
    BY <2>2, FS_CardinalityType
<1>3. \A i \in I : /\ IsFiniteSet(upto(i))
                     /\ Cardinality(upto(i)) \in 1 .. n
                     /\ Cardinality(upto(i)) \in Int
  <2> SUFFICES ASSUME NEW i \in I
               PROVE  /\ IsFiniteSet(upto(i))
                      /\ Cardinality(upto(i)) \in 1 .. n
                      /\ Cardinality(upto(i)) \in Int
    OBVIOUS
  <2>1. upto(i) \in SUBSET I /\ i \in upto(i)
    BY <1>0
  <2>2. IsFiniteSet(upto(i)) /\ Cardinality(upto(i)) <= n
    BY <1>2, <2>1, FS_Subset
  <2>3. Cardinality(upto(i)) \in Nat
    BY <2>2, FS_CardinalityType
  <2>4. Cardinality(upto(i)) # 0
    BY <2>1, <2>2, FS_EmptySet
  <2> QED
    BY <1>2, <2>2, <2>3, <2>4
<1>4. \A i, j \in I : i < j => Cardinality(upto(i)) < Cardinality(upto(j))
  <2> SUFFICES ASSUME NEW i \in I, NEW j \in I, i < j
               PROVE  Cardinality(upto(i)) < Cardinality(upto(j))
    OBVIOUS
  <2>1. upto(i) \in SUBSET upto(j) /\ j \in upto(j) /\ j \notin upto(i)
    <3>1. i \in Int /\ j \in Int /\ \A k \in I : k \in Int
      BY <1>0
    <3>2. \A k \in I : k <= i => k <= j
      BY <3>1
    <3>3. j <= j /\ ~(j <= i)
      BY <3>1
    <3> QED
      BY <3>2, <3>3
  <2>2. IsFiniteSet(upto(j))
    BY <1>3
  <2>3. /\ Cardinality(upto(i)) <= Cardinality(upto(j))
        /\ Cardinality(upto(j)) = Cardinality(upto(i)) => upto(j) = upto(i)
    BY <2>1, <2>2, FS_Subset
  <2>4. Cardinality(upto(i)) # Cardinality(upto(j))
    BY <2>1, <2>3
  <2>5. Cardinality(upto(i)) \in Int /\ Cardinality(upto(j)) \in Int
    BY <1>3
  <2> QED
    BY <2>3, <2>4, <2>5
<1>5. r \in Surjection(I, 1 .. n)
  <2>1. r \in [I -> 1 .. n]
    BY <1>3
  <2>2. \A i, j \in I : r[i] = r[j] => i = j
    <3> SUFFICES ASSUME NEW i \in I, NEW j \in I, r[i] = r[j], i # j
                 PROVE  FALSE
      OBVIOUS
    <3>1. i < j \/ j < i
      BY <1>0
    <3>2. r[i] < r[j] \/ r[j] < r[i]
      BY <3>1, <1>4
    <3>3. r[i] \in Int /\ r[j] \in Int
      BY <1>3
    <3> QED
      BY <3>2, <3>3
  <2>3. r \in Injection(I, 1 .. n)
    BY <2>1, <2>2 DEF Injection, IsInjective
  <2>4. IsFiniteSet(1 .. n) /\ Cardinality(1 .. n) = n
    BY <1>2, FS_Interval
  <2> QED
    BY <2>3, <2>4, FS_Injection
<1>6. /\ \A k \in 1 .. n : f[k] \in I /\ r[f[k]] = k
      /\ \A k \in 1 .. n : t[k] = s[f[k]]
  <2>1. ASSUME NEW k \in 1 .. n
        PROVE  f[k] \in I /\ r[f[k]] = k
    <3>1. PICK i \in I : r[i] = k
      BY <1>5 DEF Surjection
    <3>2. Cardinality(upto(i)) = k
      BY <3>1
    <3>3. f[k] = CHOOSE j \in I : Cardinality(upto(j)) = k
      OBVIOUS
    <3>4. f[k] \in I /\ Cardinality(upto(f[k])) = k
      <4> HIDE DEF f, r, n, upto
      <4> QED
        BY <3>2, <3>3
    <3>5. r[f[k]] = Cardinality(upto(f[k]))
      <4> HIDE DEF f, upto
      <4> QED
        BY <3>4
    <3> QED
      BY <3>4, <3>5
  <2> QED
    BY <2>1
<1>7. /\ t \in [1 .. n -> {s[i] : i \in I}]
      /\ r \in [I -> 1 .. n]
      /\ \A i, j \in I : i < j => r[i] < r[j]
      /\ DOMAIN f = 1 .. n /\ f = [k \in 1 .. n |-> f[k]]
  <2>1. r \in [I -> 1 .. n]
    BY <1>3
  <2>2. \A i, j \in I : i < j => r[i] < r[j]
    BY <1>4
  <2>3. DOMAIN f = 1 .. n /\ f = [k \in 1 .. n |-> f[k]]
    <3> HIDE DEF pick
    <3> QED
      OBVIOUS
  <2>4. DOMAIN t = 1 .. n /\ t = [k \in 1 .. n |-> t[k]]
    OBVIOUS
  <2>5. t \in [1 .. n -> {s[i] : i \in I}]
    <3> HIDE DEF t, f, n, r
    <3> QED
      BY <1>6, <2>4
  <2> QED
    BY <2>1, <2>2, <2>3, <2>5
<1>8. \A i \in I : i \in 1 .. Len(s) /\ i \in Int
  BY <1>0
<1> HIDE DEF t, f, r, n
<1>9. t \in Seq(S) /\ Len(t) = n
  <2>1. t \in [1 .. n -> S]
    BY <1>7, <1>8
  <2> QED
    BY <1>2, <2>1
<1>10. f \in [1 .. n -> 1 .. Len(s)]
  BY <1>6, <1>7, <1>8
<1>11. \A j, k \in 1 .. n : j < k => f[j] < f[k]
  <2> SUFFICES ASSUME NEW j \in 1 .. n, NEW k \in 1 .. n, j < k
               PROVE  f[j] < f[k]
    OBVIOUS
  <2>1. f[j] \in I /\ f[k] \in I /\ r[f[j]] = j /\ r[f[k]] = k
    BY <1>6
  <2>2. f[j] \in Int /\ f[k] \in Int
    BY <1>0, <1>8, <2>1
  <2>3. f[j] # f[k]
    BY <1>2, <2>1
  <2>4. ~(f[k] < f[j])
    BY <1>2, <1>7, <2>1
  <2> QED
    BY <2>2, <2>3, <2>4
<1>12. \A i \in I : \E k \in 1 .. n : f[k] = i
  <2> SUFFICES ASSUME NEW i \in I
               PROVE  f[r[i]] = i /\ r[i] \in 1 .. n
    BY <1>8
  <2>1. r[i] \in 1 .. n
    BY <1>7
  <2>2. f[r[i]] \in I /\ r[f[r[i]]] = r[i]
    BY <2>1, <1>6
  <2>3. ~(f[r[i]] < i) /\ ~(i < f[r[i]])
    BY <1>2, <1>7, <2>1, <2>2
  <2>4. i \in Int /\ f[r[i]] \in Int
    BY <1>0, <1>8, <2>2
  <2> QED
    BY <2>1, <2>3, <2>4
<1>13. Kept(s, I) \in Seq(S)
  BY <1>1, <1>9
<1>14. /\ f \in [1 .. Len(t) -> 1 .. Len(s)]
       /\ \A k \in 1 .. Len(t) : t[k] = s[f[k]] /\ f[k] \in I
       /\ \A j, k \in 1 .. Len(t) : j < k => f[j] < f[k]
       /\ \A i \in I : \E k \in 1 .. Len(t) : f[k] = i
  BY <1>6, <1>9, <1>10, <1>11, <1>12
<1> QED
  BY <1>1, <1>13, <1>14

LEMMA KeptLen ==
    ASSUME NEW S, NEW s \in Seq(S), NEW I \in SUBSET (1 .. Len(s))
    PROVE  Len(Kept(s, I)) = Cardinality(I) /\ Len(Kept(s, I)) <= Len(s)
<1>1. IsFiniteSet(1 .. Len(s)) /\ Cardinality(1 .. Len(s)) = Len(s)
  <2>1. PICK n \in Nat : n = Len(s)
    OBVIOUS
  <2>2. IsFiniteSet(1 .. n) /\ Cardinality(1 .. n) = n
    BY FS_Interval
  <2> QED
    BY <2>1, <2>2
<1>2. Cardinality(I) <= Len(s) /\ Cardinality(I) \in Nat
  BY <1>1, FS_Subset, FS_CardinalityType
<1>3. DOMAIN Kept(s, I) = 1 .. Cardinality(I)
  BY DEF Kept
<1>4. DOMAIN Kept(s, I) = 1 .. Len(Kept(s, I)) /\ Len(Kept(s, I)) \in Nat
  <2>1. Kept(s, I) \in Seq(S)
    BY KeptEmbeds
  <2> QED
    BY <2>1
<1> QED
  BY <1>2, <1>3, <1>4

\* Without keeps the positions whose element is not in R.
LEMMA WithoutEmbeds ==
    ASSUME NEW S, NEW s \in Seq(S), NEW R
    PROVE  /\ Without(s, R) \in Seq(S)
           /\ \E f \in [1 .. Len(Without(s, R)) -> 1 .. Len(s)] :
                /\ \A k \in 1 .. Len(Without(s, R)) :
                      Without(s, R)[k] = s[f[k]] /\ s[f[k]] \notin R
                /\ \A j, k \in 1 .. Len(Without(s, R)) : j < k => f[j] < f[k]
                /\ \A i \in 1 .. Len(s) : s[i] \notin R =>
                      \E k \in 1 .. Len(Without(s, R)) : f[k] = i
<1>1. PICK I \in SUBSET (1 .. Len(s)) : I = {i \in 1 .. Len(s) : s[i] \notin R}
  OBVIOUS
<1>2. PICK w : w = Kept(s, I)
  OBVIOUS
<1>3. \A i : i \in I <=> i \in 1 .. Len(s) /\ s[i] \notin R
  BY <1>1
<1>4. w = Kept(s, I) /\ Without(s, R) = w
  BY <1>1, <1>2 DEF Without
<1>5. /\ w \in Seq(S)
      /\ \E f \in [1 .. Len(w) -> 1 .. Len(s)] :
           /\ \A k \in 1 .. Len(w) : w[k] = s[f[k]] /\ f[k] \in I
           /\ \A j, k \in 1 .. Len(w) : j < k => f[j] < f[k]
           /\ \A i \in I : \E k \in 1 .. Len(w) : f[k] = i
  BY <1>4, KeptEmbeds
<1>6. /\ w \in Seq(S)
      /\ \E f \in [1 .. Len(w) -> 1 .. Len(s)] :
           /\ \A k \in 1 .. Len(w) : w[k] = s[f[k]] /\ s[f[k]] \notin R
           /\ \A j, k \in 1 .. Len(w) : j < k => f[j] < f[k]
           /\ \A i \in 1 .. Len(s) : s[i] \notin R => \E k \in 1 .. Len(w) : f[k] = i
  BY <1>3, <1>5
<1> QED
  BY <1>4, <1>6

\* Without removes the elements of R and nothing else, and a vector without
\* duplicates stays so.
LEMMA WithoutElements ==
    ASSUME NEW S, NEW s \in Seq(S), NEW R
    PROVE  /\ Without(s, R) \in Seq(S)
           /\ Range(Without(s, R)) = Range(s) \ R
           /\ IsInjective(s) => IsInjective(Without(s, R))
<1> DEFINE t == Without(s, R)
<1>1. t \in Seq(S)
  BY WithoutEmbeds
<1>2. PICK f \in [1 .. Len(t) -> 1 .. Len(s)] :
        /\ \A k \in 1 .. Len(t) : t[k] = s[f[k]] /\ s[f[k]] \notin R
        /\ \A j, k \in 1 .. Len(t) : j < k => f[j] < f[k]
        /\ \A i \in 1 .. Len(s) : s[i] \notin R => \E k \in 1 .. Len(t) : f[k] = i
  BY WithoutEmbeds
<1> HIDE DEF t
<1>3. /\ DOMAIN s = 1 .. Len(s) /\ DOMAIN t = 1 .. Len(t)
      /\ Len(s) \in Nat /\ Len(t) \in Nat
  BY <1>1
<1>4. Range(t) = Range(s) \ R
  <2>1. ASSUME NEW x \in Range(t)
        PROVE  x \in Range(s) \ R
    BY <1>2, <1>3, <2>1 DEF Range
  <2>2. ASSUME NEW x \in Range(s) \ R
        PROVE  x \in Range(t)
    <3>1. PICK i \in 1 .. Len(s) : s[i] = x
      BY <1>3 DEF Range
    <3>2. PICK k \in 1 .. Len(t) : f[k] = i
      BY <1>2, <3>1
    <3> QED
      BY <1>2, <1>3, <3>1, <3>2 DEF Range
  <2> QED
    BY <2>1, <2>2
<1>5. IsInjective(s) => IsInjective(t)
  <2> SUFFICES ASSUME IsInjective(s), NEW j \in 1 .. Len(t), NEW k \in 1 .. Len(t), t[j] = t[k]
               PROVE  j = k
    BY <1>3 DEF IsInjective
  <2>1. f[j] = f[k]
    BY <1>2, <1>3 DEF IsInjective
  <2>2. ~(j < k) /\ ~(k < j)
    BY <1>2, <1>3, <2>1
  <2> QED
    BY <1>3, <2>2
<1> QED
  BY <1>1, <1>4, <1>5 DEF t

\* Two elements that remain stand in the order they had.
LEMMA WithoutOrder ==
    ASSUME NEW S, NEW s \in Seq(S), NEW R,
           NEW j \in DOMAIN Without(s, R), NEW k \in DOMAIN Without(s, R)
    PROVE  \E a, b \in DOMAIN s : /\ Without(s, R)[j] = s[a]
                                  /\ Without(s, R)[k] = s[b]
                                  /\ a < b => j < k
<1> DEFINE t == Without(s, R)
<1>1. PICK f \in [1 .. Len(t) -> 1 .. Len(s)] :
        /\ \A i \in 1 .. Len(t) : t[i] = s[f[i]]
        /\ \A h, i \in 1 .. Len(t) : h < i => f[h] < f[i]
  BY WithoutEmbeds
<1>2. t \in Seq(S)
  BY WithoutEmbeds
<1> HIDE DEF t
<1>3. /\ DOMAIN s = 1 .. Len(s) /\ DOMAIN t = 1 .. Len(t)
      /\ Len(s) \in Nat /\ Len(t) \in Nat
  BY <1>2
<1>4. j \in 1 .. Len(t) /\ k \in 1 .. Len(t)
  BY <1>3 DEF t
<1>5. f[j] \in DOMAIN s /\ f[k] \in DOMAIN s /\ t[j] = s[f[j]] /\ t[k] = s[f[k]]
  BY <1>1, <1>3, <1>4
<1>6. f[j] < f[k] => j < k
  <2> SUFFICES ASSUME f[j] < f[k], ~(j < k)
               PROVE  FALSE
    OBVIOUS
  <2>1. f[j] \in Int /\ f[k] \in Int /\ j \in Int /\ k \in Int
    BY <1>3, <1>4, <1>5
  <2>2. j = k \/ k < j
    BY <2>1
  <2> QED
    BY <1>1, <1>4, <2>1, <2>2
<1> QED
  BY <1>5, <1>6 DEF t

\* Without never lengthens a vector.
LEMMA WithoutLen ==
    ASSUME NEW S, NEW s \in Seq(S), NEW R
    PROVE  Len(Without(s, R)) <= Len(s)
<1> DEFINE kept == {i \in 1 .. Len(s) : s[i] \notin R}
<1>1. kept \in SUBSET (1 .. Len(s)) /\ Without(s, R) = Kept(s, kept)
  BY DEF Without
<1> HIDE DEF kept
<1> QED
  BY <1>1, KeptLen

\* Pushing a new element onto a vector.
LEMMA AppendElements ==
    ASSUME NEW S, NEW s \in Seq(S), NEW x \in S
    PROVE  /\ Append(s, x) \in Seq(S)
           /\ Len(Append(s, x)) = Len(s) + 1
           /\ Range(Append(s, x)) = Range(s) \cup {x}
           /\ IsInjective(s) /\ x \notin Range(s) => IsInjective(Append(s, x))
<1> DEFINE t == Append(s, x)
<1>1. /\ t \in Seq(S) /\ Len(t) = Len(s) + 1 /\ Len(s) \in Nat
      /\ DOMAIN s = 1 .. Len(s) /\ DOMAIN t = 1 .. Len(s) + 1
      /\ \A i \in 1 .. Len(s) : t[i] = s[i]
      /\ t[Len(s) + 1] = x
  OBVIOUS
<1> HIDE DEF t
<1>2. \A i \in DOMAIN t : i \in DOMAIN s \/ i = Len(s) + 1
  BY <1>1
<1>3. Range(t) = Range(s) \cup {x}
  BY <1>1, <1>2 DEF Range
<1>4. IsInjective(s) /\ x \notin Range(s) => IsInjective(t)
  BY <1>1, <1>2 DEF Range, IsInjective
<1> QED
  BY <1>1, <1>3, <1>4 DEF t

\* Vectors put one after the other.
LEMMA ConcatElements ==
    ASSUME NEW S, NEW s \in Seq(S), NEW t \in Seq(S)
    PROVE  /\ s \o t \in Seq(S)
           /\ Range(s \o t) = Range(s) \cup Range(t)
           /\ IsInjective(s) /\ IsInjective(t) /\ Range(s) \cap Range(t) = {}
                 => IsInjective(s \o t)
<1>1. PICK m \in Nat, n \in Nat : /\ m = Len(s) /\ n = Len(t)
                                 /\ DOMAIN s = 1 .. m /\ DOMAIN t = 1 .. n
  OBVIOUS
<1>2. PICK u : u = s \o t
  OBVIOUS
<1>3. /\ u \in Seq(S) /\ DOMAIN u = 1 .. m + n
      /\ \A i \in 1 .. m : u[i] = s[i]
      /\ \A i \in 1 .. n : u[m + i] = t[i]
  BY <1>1, <1>2
<1>4. \A i \in 1 .. m + n : i \in 1 .. m \/ (i - m \in 1 .. n /\ u[i] = t[i - m])
  <2> SUFFICES ASSUME NEW i \in 1 .. m + n, i \notin 1 .. m
               PROVE  i - m \in 1 .. n /\ u[i] = t[i - m]
    OBVIOUS
  <2>1. i - m \in 1 .. n /\ m + (i - m) = i
    OBVIOUS
  <2> QED
    BY <1>3, <2>1
<1>5. Range(u) = Range(s) \cup Range(t)
  <2>1. ASSUME NEW x \in Range(u)
        PROVE  x \in Range(s) \cup Range(t)
    <3>1. PICK i \in 1 .. m + n : u[i] = x
      BY <1>3 DEF Range
    <3>2. CASE i \in 1 .. m
      BY <1>1, <1>3, <3>1, <3>2 DEF Range
    <3>3. CASE i - m \in 1 .. n /\ u[i] = t[i - m]
      BY <1>1, <3>1, <3>3 DEF Range
    <3> QED
      BY <1>4, <3>2, <3>3
  <2>2. \A i \in 1 .. m : i \in 1 .. m + n
    OBVIOUS
  <2>3. \A i \in 1 .. n : m + i \in 1 .. m + n
    OBVIOUS
  <2>4. ASSUME NEW x \in Range(s)
        PROVE  x \in Range(u)
    BY <1>1, <1>3, <2>2 DEF Range
  <2>5. ASSUME NEW x \in Range(t)
        PROVE  x \in Range(u)
    <3>1. PICK i \in 1 .. n : t[i] = x
      BY <1>1 DEF Range
    <3>2. u[m + i] = x /\ m + i \in DOMAIN u
      BY <1>3, <2>3, <3>1
    <3> QED
      BY <3>2 DEF Range
  <2> QED
    BY <2>1, <2>4, <2>5
<1>6. ASSUME IsInjective(s), IsInjective(t), Range(s) \cap Range(t) = {}
      PROVE  IsInjective(u)
  <2>1. \A i \in 1 .. m, j \in 1 .. n : s[i] # t[j]
    BY <1>1, <1>6 DEF Range
  <2> SUFFICES ASSUME NEW i \in 1 .. m + n, NEW j \in 1 .. m + n, u[i] = u[j]
               PROVE  i = j
    BY <1>3 DEF IsInjective
  <2>2. CASE i \in 1 .. m /\ j \in 1 .. m
    BY <1>1, <1>3, <1>6, <2>2 DEF IsInjective
  <2>3. CASE i \in 1 .. m /\ j \notin 1 .. m
    BY <1>3, <1>4, <2>1, <2>3
  <2>4. CASE i \notin 1 .. m /\ j \in 1 .. m
    BY <1>3, <1>4, <2>1, <2>4
  <2>5. CASE i \notin 1 .. m /\ j \notin 1 .. m
    <3>1. i - m \in 1 .. n /\ j - m \in 1 .. n /\ t[i - m] = t[j - m]
      BY <1>4, <2>5
    <3>2. i - m = j - m
      BY <1>1, <1>6, <3>1 DEF IsInjective
    <3> QED
      BY <3>2
  <2> QED
    BY <2>2, <2>3, <2>4, <2>5
<1> QED
  BY <1>2, <1>3, <1>5, <1>6

\* Kept keeps the elements at the positions of I and nothing else, and no
\* element twice if those positions hold different ones.
LEMMA KeptElements ==
    ASSUME NEW S, NEW s \in Seq(S), NEW I \in SUBSET (1 .. Len(s))
    PROVE  /\ Kept(s, I) \in Seq(S)
           /\ Range(Kept(s, I)) = {s[i] : i \in I}
           /\ (\A i, j \in I : s[i] = s[j] => i = j) => IsInjective(Kept(s, I))
<1>1. PICK t : t = Kept(s, I)
  OBVIOUS
<1>2. t \in Seq(S)
  BY <1>1, KeptEmbeds
<1>3. PICK n \in Nat : n = Len(t) /\ DOMAIN t = 1 .. n
  BY <1>2
<1>4. PICK f \in [1 .. n -> 1 .. Len(s)] :
        /\ \A k \in 1 .. n : t[k] = s[f[k]] /\ f[k] \in I
        /\ \A j, k \in 1 .. n : j < k => f[j] < f[k]
        /\ \A i \in I : \E k \in 1 .. n : f[k] = i
  BY <1>1, <1>3, KeptEmbeds
<1>5. Range(t) = {s[i] : i \in I}
  <2>1. ASSUME NEW x \in Range(t)
        PROVE  x \in {s[i] : i \in I}
    <3>1. PICK k \in 1 .. n : t[k] = x
      BY <1>3 DEF Range
    <3> QED
      BY <1>4, <3>1
  <2>2. ASSUME NEW i \in I
        PROVE  s[i] \in Range(t)
    <3>1. PICK k \in 1 .. n : f[k] = i
      BY <1>4
    <3> QED
      BY <1>3, <1>4, <3>1 DEF Range
  <2> QED
    BY <2>1, <2>2
<1>6. ASSUME \A i, j \in I : s[i] = s[j] => i = j
      PROVE  IsInjective(t)
  <2> SUFFICES ASSUME NEW j \in 1 .. n, NEW k \in 1 .. n, t[j] = t[k]
               PROVE  j = k
    BY <1>3 DEF IsInjective
  <2>0. f[j] \in I /\ f[k] \in I /\ s[f[j]] = s[f[k]]
    BY <1>4
  <2>1. f[j] = f[k]
    BY <1>6, <2>0
  <2>2. Len(s) \in Nat
    OBVIOUS
  <2>3. ~(j < k) /\ ~(k < j)
    BY <1>4, <2>1, <2>2
  <2> QED
    BY <2>3
<1> QED
  BY <1>1, <1>2, <1>5, <1>6

\* A vector has finitely many elements.
LEMMA RangeFinite ==
    ASSUME NEW S, NEW s \in Seq(S)
    PROVE  IsFiniteSet(Range(s)) /\ Range(s) \subseteq S
<1>1. Len(s) \in Nat /\ DOMAIN s = 1 .. Len(s) /\ s \in [1 .. Len(s) -> S]
  OBVIOUS
<1>2. IsFiniteSet(1 .. Len(s))
  BY <1>1, FS_Interval
<1>3. s \in Surjection(1 .. Len(s), Range(s))
  BY <1>1 DEF Range, Surjection
<1>4. IsFiniteSet(Range(s))
  BY <1>2, <1>3, FS_Surjection
<1>5. Range(s) \subseteq S
  BY <1>1 DEF Range
<1> QED
  BY <1>4, <1>5

\* Every set of naturals that is not empty has a least element.
LEMMA Least ==
    ASSUME NEW T \in SUBSET Nat, T # {}
    PROVE  \E x \in T : \A y \in T : x <= y
<1>1. IsWellFoundedOn(OpToRel(<, Nat), Nat)
  BY NatLessThanWellFounded
<1>2. PICK x \in T : \A y \in T : ~(<<y, x>> \in OpToRel(<, Nat))
  BY <1>1, WFMin
<1>3. \A y \in T : ~(y < x)
  BY <1>2 DEF OpToRel
<1> QED
  BY <1>3

\* Induction: a set of naturals that has 0 and, with every number, the next.
LEMMA Induction ==
    ASSUME NEW S \in SUBSET Nat, 0 \in S, \A n \in S : n + 1 \in S
    PROVE  S = Nat
<1> SUFFICES ASSUME Nat \ S # {}
             PROVE  FALSE
  OBVIOUS
<1>1. PICK x \in Nat \ S : \A y \in Nat \ S : x <= y
  BY Least
<1>2. x - 1 \in Nat /\ x - 1 \notin Nat \ S
  BY <1>1
<1> QED
  BY <1>1, <1>2

\* A vector without duplicates is as long as its set of elements is large, and
\* taking some of them out shortens it by their number.
LEMMA VectorSize ==
    ASSUME NEW S, NEW s \in Seq(S), IsInjective(s)
    PROVE  /\ Len(s) = Cardinality(Range(s))
           /\ \A R \in SUBSET Range(s) :
                 /\ IsFiniteSet(R) /\ Cardinality(R) \in Nat /\ Cardinality(R) <= Len(s)
                 /\ Len(Without(s, R)) = Len(s) - Cardinality(R)
<1>1. \A t \in Seq(S) : IsInjective(t) =>
         Len(t) = Cardinality(Range(t)) /\ IsFiniteSet(Range(t))
  <2> SUFFICES ASSUME NEW t \in Seq(S), IsInjective(t)
               PROVE  Len(t) = Cardinality(Range(t)) /\ IsFiniteSet(Range(t))
    OBVIOUS
  <2>1. PICK n \in Nat : n = Len(t) /\ DOMAIN t = 1 .. n /\ t \in [1 .. n -> S]
    OBVIOUS
  <2>2. t \in Surjection(1 .. n, Range(t)) /\ t \in Injection(1 .. n, Range(t))
    BY <2>1 DEF Surjection, Injection, Range
  <2>3. IsFiniteSet(1 .. n) /\ Cardinality(1 .. n) = n
    BY FS_Interval
  <2>4. IsFiniteSet(Range(t)) /\ Cardinality(Range(t)) = Cardinality(1 .. n)
    BY <2>2, <2>3, FS_Surjection
  <2> QED
    BY <2>1, <2>3, <2>4
<1>2. Len(s) = Cardinality(Range(s)) /\ IsFiniteSet(Range(s))
  BY <1>1
<1>3. ASSUME NEW R \in SUBSET Range(s)
      PROVE  /\ IsFiniteSet(R) /\ Cardinality(R) \in Nat /\ Cardinality(R) <= Len(s)
             /\ Len(Without(s, R)) = Len(s) - Cardinality(R)
  <2>1. IsFiniteSet(R) /\ Cardinality(R) <= Cardinality(Range(s)) /\ Cardinality(R) \in Nat
    BY <1>2, FS_Subset, FS_CardinalityType
  <2>2. /\ Without(s, R) \in Seq(S) /\ IsInjective(Without(s, R))
        /\ Range(Without(s, R)) = Range(s) \ R
    BY WithoutElements
  <2>3. Len(Without(s, R)) = Cardinality(Range(s) \ R)
    BY <1>1, <2>2
  <2>4. Cardinality(Range(s) \ R) = Cardinality(Range(s)) - Cardinality(Range(s) \cap R)
    BY <1>2, FS_Difference
  <2>5. Range(s) \cap R = R
    OBVIOUS
  <2> QED
    BY <1>2, <2>1, <2>3, <2>4, <2>5
<1> QED
  BY <1>2, <1>3

\* Keeping every position keeps the vector.
LEMMA KeptAll ==
    ASSUME NEW S, NEW s \in Seq(S)
    PROVE  Kept(s, 1 .. Len(s)) = s
<1>0. PICK n \in Nat : n = Len(s)
  OBVIOUS
<1> DEFINE rank(i) == Cardinality({j \in 1 .. n : j <= i})
<1>1. \A k \in Nat : Cardinality(1 .. k) = k
  <2> SUFFICES ASSUME NEW k \in Nat PROVE Cardinality(1 .. k) = k
    OBVIOUS
  <2> QED
    BY FS_Interval
<1>2. \A i \in 1 .. n : rank(i) = i
  <2> SUFFICES ASSUME NEW i \in 1 .. n PROVE rank(i) = i
    OBVIOUS
  <2>1. {j \in 1 .. n : j <= i} = 1 .. i
    OBVIOUS
  <2>2. Cardinality(1 .. i) = i
    BY <1>1
  <2>3. rank(i) = Cardinality(1 .. i)
    BY <2>1, Zenon
  <2> QED
    BY <2>2, <2>3
<1>3. \A k \in 1 .. n : (CHOOSE i \in 1 .. n : rank(i) = k) = k
  BY <1>2
<1>4. Kept(s, 1 .. n) = [k \in 1 .. Cardinality(1 .. n) |-> s[CHOOSE i \in 1 .. n : rank(i) = k]]
  BY DEF Kept
<1> HIDE DEF rank
<1>5. Kept(s, 1 .. n) = [k \in 1 .. n |-> s[k]]
  BY <1>1, <1>3, <1>4
<1> QED
  BY <1>0, <1>5

\* Among keeps the elements of T and nothing else; without duplicates there are
\* as many of them as the vector has elements in T.
LEMMA AmongElements ==
    ASSUME NEW S, NEW s \in Seq(S), NEW T
    PROVE  /\ Among(s, T) \in Seq(S)
           /\ Range(Among(s, T)) = Range(s) \cap T
           /\ Range(s) \subseteq T => Among(s, T) = s
           /\ IsInjective(s) => /\ IsInjective(Among(s, T))
                               /\ Len(Among(s, T)) = Cardinality(Range(s) \cap T)
<1> DEFINE I == {i \in 1 .. Len(s) : s[i] \in T}
<1>1. Among(s, T) = Kept(s, I)
  BY DEF Among
<1>2. Among(s, T) \in Seq(S) /\ Range(Among(s, T)) = {s[i] : i \in I}
  <2>1. PICK J : J = I
    OBVIOUS
  <2>2. J \in SUBSET (1 .. Len(s))
    BY <2>1
  <2> HIDE DEF I
  <2>3. Kept(s, J) \in Seq(S) /\ Range(Kept(s, J)) = {s[i] : i \in J}
    BY <2>2, KeptElements
  <2> QED
    BY <1>1, <2>1, <2>3
<1>3. {s[i] : i \in I} = Range(s) \cap T
  <2>1. PICK n \in Nat : n = Len(s) /\ DOMAIN s = 1 .. n
    OBVIOUS
  <2>2. Range(s) = {s[i] : i \in 1 .. n}
    BY <2>1 DEF Range
  <2>3. I = {i \in 1 .. n : s[i] \in T}
    BY <2>1
  <2> QED
    BY <2>2, <2>3
<1>4. ASSUME Range(s) \subseteq T PROVE Among(s, T) = s
  <2>1. I = 1 .. Len(s)
    BY <1>4 DEF Range
  <2> QED
    BY <1>1, <2>1, KeptAll
<1>5. ASSUME IsInjective(s)
      PROVE  IsInjective(Among(s, T)) /\ Len(Among(s, T)) = Cardinality(Range(s) \cap T)
  <2>1. IsInjective(Among(s, T))
    BY <1>1, <1>5, KeptElements DEF IsInjective
  <2> QED
    BY <1>2, <1>3, <2>1, VectorSize
<1> QED
  BY <1>2, <1>3, <1>4, <1>5

\* Among positions that carry numbers there is a first one of the greatest.
LEMMA FirstGreatest ==
    ASSUME NEW n \in Nat, NEW F \in SUBSET (1 .. n), F # {},
           NEW g, \A i \in F : g[i] \in Int
    PROVE  \E i \in F : \A j \in F : g[i] > g[j] \/ (g[i] = g[j] /\ i <= j)
<1> DEFINE top(i, G) == \A j \in G : g[i] > g[j] \/ (g[i] = g[j] /\ i <= j)
           S == {m \in Nat : \A G \in SUBSET (F \cap (1 .. m)) :
                               G # {} => \E i \in G : top(i, G)}
<1>1. 0 \in S
  <2>1. F \cap (1 .. 0) = {}
    OBVIOUS
  <2> QED
    BY <2>1
<1>2. ASSUME NEW m \in S
      PROVE  m + 1 \in S
  <2> SUFFICES ASSUME NEW G \in SUBSET (F \cap (1 .. m + 1)), G # {}
               PROVE  \E i \in G : top(i, G)
    OBVIOUS
  <2>1. /\ m \in Nat /\ m + 1 \in Nat
        /\ \A i \in G : i \in Nat /\ g[i] \in Int /\ (i = m + 1 \/ i \in 1 .. m)
    OBVIOUS
  <2>2. CASE m + 1 \notin G
    <3>1. G \in SUBSET (F \cap (1 .. m))
      BY <2>1, <2>2
    <3> QED
      BY <3>1
  <2>3. CASE G = {m + 1}
    <3>1. top(m + 1, G)
      BY <2>1, <2>3
    <3> QED
      BY <2>3, <3>1
  <2>4. CASE m + 1 \in G /\ G # {m + 1}
    <3>1. G \ {m + 1} \in SUBSET (F \cap (1 .. m)) /\ G \ {m + 1} # {}
      BY <2>1, <2>4
    <3>2. PICK i \in G \ {m + 1} : top(i, G \ {m + 1})
      BY <3>1
    <3>3. /\ i \in Nat /\ i <= m /\ g[i] \in Int /\ g[m + 1] \in Int
      BY <2>1, <2>4, <3>2
    <3>4. CASE g[m + 1] > g[i]
      <4>1. \A j \in G : g[m + 1] > g[j] \/ j = m + 1
        BY <2>1, <3>2, <3>3, <3>4
      <4>2. top(m + 1, G)
        BY <2>1, <3>3, <4>1
      <4> QED
        BY <2>4, <4>2
    <3>5. CASE ~(g[m + 1] > g[i])
      <4>1. g[i] > g[m + 1] \/ (g[i] = g[m + 1] /\ i <= m + 1)
        BY <3>3, <3>5
      <4>2. top(i, G)
        BY <3>2, <4>1
      <4> QED
        BY <4>2
    <3> QED
      BY <3>4, <3>5
  <2> QED
    BY <2>2, <2>3, <2>4
<1>3. S \in SUBSET Nat
  OBVIOUS
<1>4. S = Nat
  <2> HIDE DEF S
  <2> QED
    BY <1>1, <1>2, <1>3, Induction
<1>5. F \in SUBSET (F \cap (1 .. n))
  OBVIOUS
<1> QED
  BY <1>4, <1>5

\* f is the run that starts in a: step[k] is what the k-th step makes of a state.
IsRun(f, a, step) == f[0] = a /\ \A k \in Nat : f[k + 1] = step[k + 1][f[k]]

\* A state can be stepped on for ever, which is what a recursive function on
\* the naturals needs to exist.
LEMMA Steps ==
    ASSUME NEW X, NEW a \in X, NEW step \in [Nat -> [X -> X]]
    PROVE  \E f \in [Nat -> X] : IsRun(f, a, step)
<1> DEFINE run(g, n) == /\ g \in [0 .. n -> X] /\ g[0] = a
                        /\ \A k \in 0 .. n : k + 1 \in 0 .. n => g[k + 1] = step[k + 1][g[k]]
           S == {n \in Nat : \E g : run(g, n)}
<1>1. 0 \in S
  <2>1. PICK g : g = [i \in 0 .. 0 |-> a]
    OBVIOUS
  <2>2. run(g, 0)
    BY <2>1
  <2> QED
    BY <2>2
<1>2. ASSUME NEW n \in S
      PROVE  n + 1 \in S
  <2>1. PICK g : run(g, n)
    OBVIOUS
  <2>2. n \in 0 .. n /\ n + 1 \in Nat /\ g[n] \in X /\ step[n + 1][g[n]] \in X
    BY <2>1
  <2>3. PICK h : h = [i \in 0 .. n + 1 |-> IF i = n + 1 THEN step[n + 1][g[n]] ELSE g[i]]
    OBVIOUS
  <2>4. /\ \A i \in 0 .. n : h[i] = g[i] /\ i \in 0 .. n + 1 /\ i # n + 1
        /\ h[n + 1] = step[n + 1][g[n]]
        /\ \A i \in 0 .. n + 1 : i = n + 1 \/ i \in 0 .. n
    BY <2>3
  <2>5. h \in [0 .. n + 1 -> X]
    BY <2>1, <2>2, <2>3, <2>4
  <2>6. ASSUME NEW k \in 0 .. n + 1, k + 1 \in 0 .. n + 1
        PROVE  h[k + 1] = step[k + 1][h[k]]
    <3>1. CASE k = n
      BY <2>2, <2>4, <3>1
    <3>2. CASE k # n
      <4>1. k \in 0 .. n /\ k + 1 \in 0 .. n
        BY <2>6, <3>2
      <4> QED
        BY <2>1, <2>4, <4>1
    <3> QED
      BY <3>1, <3>2
  <2>7. h[0] = a
    BY <2>1, <2>4
  <2>8. run(h, n + 1)
    BY <2>5, <2>6, <2>7
  <2> QED
    BY <2>2, <2>8
<1>3. S \in SUBSET Nat
  OBVIOUS
<1>4. S = Nat
  <2> HIDE DEF S
  <2> QED
    BY <1>1, <1>2, <1>3, Induction
<1>5. ASSUME NEW m \in Nat, NEW n \in Nat, NEW g, NEW h, run(g, m), run(h, n)
      PROVE  \A i \in Nat : i <= m /\ i <= n => g[i] = h[i]
  <2> DEFINE T == {i \in Nat : i <= m /\ i <= n => g[i] = h[i]}
  <2>1. 0 \in T
    BY <1>5
  <2>2. ASSUME NEW k \in T
        PROVE  k + 1 \in T
    <3> SUFFICES ASSUME k + 1 <= m, k + 1 <= n
                 PROVE  g[k + 1] = h[k + 1]
      OBVIOUS
    <3>1. k \in 0 .. m /\ k + 1 \in 0 .. m /\ k \in 0 .. n /\ k + 1 \in 0 .. n
      OBVIOUS
    <3>2. g[k] = h[k]
      BY <3>1
    <3> QED
      BY <1>5, <3>1, <3>2
  <2>3. T \in SUBSET Nat
    OBVIOUS
  <2>4. T = Nat
    <3> HIDE DEF T
    <3> QED
      BY <2>1, <2>2, <2>3, Induction
  <2> QED
    BY <2>4
<1> DEFINE far(n) == CHOOSE g : run(g, n)
<1>6. ASSUME NEW n \in Nat
      PROVE  run(far(n), n)
  <2>1. \E g : run(g, n)
    BY <1>4
  <2> HIDE DEF run
  <2> QED
    BY <2>1
<1>7. PICK f : f = [n \in Nat |-> far(n)[n]]
  OBVIOUS
<1>8. f \in [Nat -> X] /\ f[0] = a
  <2>1. ASSUME NEW n \in Nat
        PROVE  far(n)[n] \in X
    <3>1. run(far(n), n)
      BY <1>6
    <3> HIDE DEF far
    <3> QED
      BY <3>1
  <2>2. far(0)[0] = a
    <3>1. run(far(0), 0)
      BY <1>6
    <3> HIDE DEF far
    <3> QED
      BY <3>1
  <2> HIDE DEF far
  <2> QED
    BY <1>7, <2>1, <2>2
<1>9. ASSUME NEW k \in Nat
      PROVE  f[k + 1] = step[k + 1][f[k]]
  <2>0. k + 1 \in Nat
    OBVIOUS
  <2>1. run(far(k), k) /\ run(far(k + 1), k + 1)
    <3> HIDE DEF run, far
    <3> QED
      BY <1>6, <2>0
  <2> HIDE DEF far
  <2>2. k <= k /\ k <= k + 1 /\ k \in 0 .. k + 1 /\ k + 1 \in 0 .. k + 1 /\ k + 1 \in Nat
    OBVIOUS
  <2>3. far(k)[k] = far(k + 1)[k]
    <3>1. \A i \in Nat : i <= k /\ i <= k + 1 => far(k)[i] = far(k + 1)[i]
      <4> HIDE DEF run
      <4> QED
        BY <1>5, <2>1, <2>2
    <3> QED
      BY <2>2, <3>1
  <2>4. far(k + 1)[k + 1] = step[k + 1][far(k + 1)[k]]
    BY <2>1, <2>2
  <2> QED
    BY <1>7, <2>2, <2>3, <2>4
<1> QED
  BY <1>8, <1>9 DEF IsRun

\* Three sets with nothing in common.
LEMMA DisjointCardinality ==
    ASSUME NEW A, NEW B, NEW C, IsFiniteSet(A), IsFiniteSet(B), IsFiniteSet(C),
           A \cap B = {}, (A \cup B) \cap C = {}
    PROVE  /\ IsFiniteSet(A \cup B \cup C)
           /\ Cardinality(A \cup B) = Cardinality(A) + Cardinality(B)
           /\ Cardinality(A \cup B \cup C) = Cardinality(A) + Cardinality(B) + Cardinality(C)
<1>0. Cardinality({}) = 0
  BY FS_EmptySet
<1>1. Cardinality(A) \in Nat /\ Cardinality(B) \in Nat /\ Cardinality(C) \in Nat
  BY FS_CardinalityType
<1>2. /\ IsFiniteSet(A \cup B)
      /\ Cardinality(A \cup B) = Cardinality(A) + Cardinality(B) - Cardinality(A \cap B)
  BY FS_Union
<1>3. Cardinality(A \cup B) = Cardinality(A) + Cardinality(B)
  <2>1. Cardinality(A \cap B) = 0
    BY <1>0
  <2> QED
    BY <1>1, <1>2, <2>1
<1>4. /\ IsFiniteSet((A \cup B) \cup C)
      /\ Cardinality((A \cup B) \cup C) =
           Cardinality(A \cup B) + Cardinality(C) - Cardinality((A \cup B) \cap C)
  BY <1>2, FS_Union
<1>5. Cardinality((A \cup B) \cup C) = Cardinality(A) + Cardinality(B) + Cardinality(C)
  <2>1. Cardinality((A \cup B) \cap C) = 0
    BY <1>0
  <2> QED
    BY <1>1, <1>3, <1>4, <2>1
<1> QED
  BY <1>3, <1>4, <1>5

=============================================================================
