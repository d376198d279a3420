------------------------- MODULE RouterAccessProofs -------------------------
(***************************************************************************)
(* Proofs about RouterAccess, for every set of accounts and of roles.      *)
(*                                                                         *)
(* The invariant Inv joins the properties with two facts of their own: no  *)
(* walk up the hierarchy goes on for ever (WalksEnd), and before there is  *)
(* a super admin nobody is blacklisted (SuperAdminFree).  The counts rest  *)
(* on the records: that the members listed are finitely many and are those *)
(* with a grant is what lets a count be compared with a set.               *)
(***************************************************************************)
EXTENDS RouterAccess, VectorLemmas

-----------------------------------------------------------------------------
(* The walk up the hierarchy.                                              *)

\* g is the walk up from r, as far as n steps.
IsWalk(g, up, r, n) ==
    g = [i \in 0 .. n |-> IF i = 0 THEN r
                          ELSE IF g[i - 1] = None THEN None
                          ELSE up[g[i - 1]]]

\* What it means to be a walk, step by step.
LEMMA WalkSteps ==
    ASSUME NEW g, NEW up, NEW r, NEW n \in Nat, IsWalk(g, up, r, n)
    PROVE  /\ g[0] = r
           /\ \A i \in 0 .. n : i + 1 \in 0 .. n =>
                g[i + 1] = IF g[i] = None THEN None ELSE up[g[i]]
<1> DEFINE step(i) == IF i = 0 THEN r ELSE IF g[i - 1] = None THEN None ELSE up[g[i - 1]]
<1>1. \A i \in 0 .. n : g[i] = step(i)
  BY DEF IsWalk
<1>2. 0 \in 0 .. n
  OBVIOUS
<1>3. \A i \in 0 .. n : (i + 1) - 1 = i /\ i + 1 # 0
  OBVIOUS
<1> QED
  BY <1>1, <1>2, <1>3

\* There is a walk of every length, so the recursive function in Climb exists.
LEMMA WalkExists ==
    ASSUME NEW up, NEW r, NEW n \in Nat
    PROVE  \E g : IsWalk(g, up, r, n)
<1> DEFINE S == {k \in Nat : \E g : IsWalk(g, up, r, k)}
<1>1. 0 \in S
  <2>1. PICK g : g = [i \in 0 .. 0 |-> r]
    OBVIOUS
  <2>2. IsWalk(g, up, r, 0)
    BY <2>1 DEF IsWalk
  <2> QED
    BY <2>2
<1>2. ASSUME NEW k \in S
      PROVE  k + 1 \in S
  <2>1. PICK g : IsWalk(g, up, r, k)
    OBVIOUS
  <2>2. PICK h : h = [i \in 0 .. k + 1 |-> IF i = 0 THEN r
                                           ELSE IF g[i - 1] = None THEN None
                                           ELSE up[g[i - 1]]]
    OBVIOUS
  <2>3. \A i \in 0 .. k : h[i] = g[i]
    <3> SUFFICES ASSUME NEW i \in 0 .. k
                 PROVE  h[i] = g[i]
      OBVIOUS
    <3>1. g[i] = IF i = 0 THEN r ELSE IF g[i - 1] = None THEN None ELSE up[g[i - 1]]
      BY <2>1 DEF IsWalk
    <3>2. i \in 0 .. k + 1
      OBVIOUS
    <3>3. h[i] = IF i = 0 THEN r ELSE IF g[i - 1] = None THEN None ELSE up[g[i - 1]]
      BY <2>2, <3>2
    <3> QED
      BY <3>1, <3>3
  <2>4. \A i \in 0 .. k + 1 : i # 0 => i - 1 \in 0 .. k
    OBVIOUS
  <2>5. \A i \in 0 .. k + 1 :
          (IF i = 0 THEN r ELSE IF g[i - 1] = None THEN None ELSE up[g[i - 1]])
             = (IF i = 0 THEN r ELSE IF h[i - 1] = None THEN None ELSE up[h[i - 1]])
    BY <2>3, <2>4
  <2>6. h = [i \in 0 .. k + 1 |-> IF i = 0 THEN r
                                  ELSE IF h[i - 1] = None THEN None
                                  ELSE up[h[i - 1]]]
    BY <2>2, <2>5
  <2>7. IsWalk(h, up, r, k + 1)
    BY <2>6 DEF IsWalk
  <2> QED
    BY <2>7
<1>3. S \in SUBSET Nat
  OBVIOUS
<1>4. S = Nat
  <2> HIDE DEF S
  <2> QED
    BY <1>1, <1>2, <1>3, Induction
<1> QED
  BY <1>4

\* Walks from one role agree as far as both go.
LEMMA WalksAgree ==
    ASSUME NEW up, NEW r, NEW m \in Nat, NEW n \in Nat, NEW g, NEW h,
           IsWalk(g, up, r, m), IsWalk(h, up, r, n)
    PROVE  \A i \in Nat : i <= m /\ i <= n => g[i] = h[i]
<1> DEFINE S == {i \in Nat : i <= m /\ i <= n => g[i] = h[i]}
<1>1. 0 \in S
  BY WalkSteps
<1>2. ASSUME NEW k \in S
      PROVE  k + 1 \in S
  <2> SUFFICES ASSUME k + 1 <= m, k + 1 <= n
               PROVE  g[k + 1] = h[k + 1]
    OBVIOUS
  <2>1. k \in 0 .. m /\ k + 1 \in 0 .. m /\ k \in 0 .. n /\ k + 1 \in 0 .. n
    OBVIOUS
  <2>2. g[k] = h[k]
    BY <2>1
  <2> HIDE DEF S
  <2>3. g[k + 1] = IF g[k] = None THEN None ELSE up[g[k]]
    BY <2>1, WalkSteps
  <2>4. h[k + 1] = IF h[k] = None THEN None ELSE up[h[k]]
    BY <2>1, WalkSteps
  <2> QED
    BY <2>2, <2>3, <2>4
<1>3. S \in SUBSET Nat
  OBVIOUS
<1>4. S = Nat
  <2> HIDE DEF S
  <2> QED
    BY <1>1, <1>2, <1>3, Induction
<1> QED
  BY <1>4

\* Climb ends where the walk that defines it stands.
LEMMA ClimbIsWalk ==
    ASSUME NEW up, NEW r, NEW m \in Nat, NEW g, IsWalk(g, up, r, m), NEW n \in 0 .. m
    PROVE  Climb(up, r, n) = g[n]
<1> DEFINE at == CHOOSE f : IsWalk(f, up, r, n)
<1>1. Climb(up, r, n) = at[n]
  BY DEF Climb, IsWalk
<1>2. IsWalk(at, up, r, n)
  BY WalkExists
<1> HIDE DEF at
<1>3. n \in Nat /\ n <= m /\ n <= n
  OBVIOUS
<1>4. g[n] = at[n]
  BY <1>2, <1>3, WalksAgree
<1> QED
  BY <1>1, <1>4

\* The two equations of Climb.
LEMMA ClimbSteps ==
    ASSUME NEW up, NEW r, NEW n \in Nat
    PROVE  /\ Climb(up, r, 0) = r
           /\ Climb(up, r, n + 1) = IF Climb(up, r, n) = None THEN None
                                    ELSE up[Climb(up, r, n)]
<1>1. n + 1 \in Nat /\ 0 \in 0 .. n + 1 /\ n \in 0 .. n + 1 /\ n + 1 \in 0 .. n + 1
  OBVIOUS
<1>2. PICK g : IsWalk(g, up, r, n + 1)
  BY <1>1, WalkExists
<1>3. Climb(up, r, 0) = g[0] /\ Climb(up, r, n) = g[n] /\ Climb(up, r, n + 1) = g[n + 1]
  BY <1>1, <1>2, ClimbIsWalk
<1>4. g[0] = r /\ g[n + 1] = IF g[n] = None THEN None ELSE up[g[n]]
  BY <1>1, <1>2, WalkSteps
<1> QED
  BY <1>3, <1>4

\* A walk of m + n steps is one of n steps from where m steps lead.
LEMMA ClimbFurther ==
    ASSUME NEW up, NEW r, NEW m \in Nat, NEW n \in Nat
    PROVE  Climb(up, r, m + n) = Climb(up, Climb(up, r, m), n)
<1> DEFINE q == Climb(up, r, m)
           S == {k \in Nat : Climb(up, r, m + k) = Climb(up, q, k)}
<1>1. 0 \in S
  BY ClimbSteps, m + 0 = m
<1>2. ASSUME NEW k \in S
      PROVE  k + 1 \in S
  <2>1. Climb(up, r, m + k) = Climb(up, q, k)
    OBVIOUS
  <2>2. PICK j \in Nat : j = m + k /\ m + (k + 1) = j + 1
    OBVIOUS
  <2>3. Climb(up, r, j + 1) = IF Climb(up, r, j) = None THEN None ELSE up[Climb(up, r, j)]
    BY ClimbSteps
  <2>4. Climb(up, q, k + 1) = IF Climb(up, q, k) = None THEN None ELSE up[Climb(up, q, k)]
    BY ClimbSteps
  <2>5. Climb(up, r, m + (k + 1)) = Climb(up, q, k + 1)
    BY <2>1, <2>2, <2>3, <2>4
  <2> QED
    BY <2>5
<1>3. S \in SUBSET Nat
  OBVIOUS
<1>4. S = Nat
  <2> HIDE DEF S
  <2> QED
    BY <1>1, <1>2, <1>3, Induction
<1> QED
  BY <1>4

\* Past the top there is nothing.
LEMMA ClimbStaysOut ==
    ASSUME NEW up, NEW n \in Nat
    PROVE  Climb(up, None, n) = None
<1> DEFINE S == {k \in Nat : Climb(up, None, k) = None}
<1>1. 0 \in S
  BY ClimbSteps
<1>2. ASSUME NEW k \in S
      PROVE  k + 1 \in S
  BY ClimbSteps
<1>3. S \in SUBSET Nat
  OBVIOUS
<1>4. S = Nat
  <2> HIDE DEF S
  <2> QED
    BY <1>1, <1>2, <1>3, Induction
<1> QED
  BY <1>4

\* A walk that meets no role whose parent changes is the same after the change.
LEMMA ClimbUnchanged ==
    ASSUME NEW up, NEW down, NEW r, NEW n \in Nat,
           \A i \in Nat : i < n => \/ Climb(up, r, i) = None
                                   \/ down[Climb(up, r, i)] = up[Climb(up, r, i)]
    PROVE  Climb(down, r, n) = Climb(up, r, n)
<1> DEFINE S == {k \in Nat : k <= n => Climb(down, r, k) = Climb(up, r, k)}
<1>1. 0 \in S
  BY ClimbSteps
<1>2. ASSUME NEW k \in S
      PROVE  k + 1 \in S
  <2> SUFFICES ASSUME k + 1 <= n
               PROVE  Climb(down, r, k + 1) = Climb(up, r, k + 1)
    OBVIOUS
  <2>1. k < n /\ Climb(down, r, k) = Climb(up, r, k)
    OBVIOUS
  <2>2. Climb(up, r, k + 1) = IF Climb(up, r, k) = None THEN None ELSE up[Climb(up, r, k)]
    BY ClimbSteps
  <2>3. Climb(down, r, k + 1) = IF Climb(down, r, k) = None THEN None
                                ELSE down[Climb(down, r, k)]
    BY ClimbSteps
  <2>4. Climb(up, r, k) = None \/ down[Climb(up, r, k)] = up[Climb(up, r, k)]
    BY <2>1
  <2> QED
    BY <2>1, <2>2, <2>3, <2>4
<1>3. S \in SUBSET Nat
  OBVIOUS
<1>4. S = Nat
  <2> HIDE DEF S
  <2> QED
    BY <1>1, <1>2, <1>3, Induction
<1> QED
  BY <1>4

-----------------------------------------------------------------------------
(* The grants of a batch.                                                  *)

\* Positions can be chosen one after the other, each by a test that sees which
\* ones were chosen before it.
LEMMA ChosenInTurn ==
    ASSUME NEW n \in Nat, NEW T
    PROVE  \E D \in SUBSET (1 .. n) : \A i \in 1 .. n :
              i \in D <=> <<i, {j \in D : j < i}>> \in T
<1> DEFINE chosen(k, D) == \A i \in 1 .. k : i \in D <=> <<i, {j \in D : j < i}>> \in T
           S == {k \in Nat : \E D \in SUBSET (1 .. k) : chosen(k, D)}
<1>1. 0 \in S
  <2>1. {} \in SUBSET (1 .. 0) /\ chosen(0, {})
    OBVIOUS
  <2> QED
    BY <2>1
<1>2. ASSUME NEW k \in S
      PROVE  k + 1 \in S
  <2>1. PICK D \in SUBSET (1 .. k) : chosen(k, D)
    OBVIOUS
  <2>2. PICK E : E = IF <<k + 1, D>> \in T THEN D \cup {k + 1} ELSE D
    OBVIOUS
  <2>3. E \in SUBSET (1 .. k + 1)
    <3>1. \A i \in 1 .. k : i \in 1 .. k + 1
      OBVIOUS
    <3>2. k + 1 \in 1 .. k + 1
      OBVIOUS
    <3> QED
      BY <2>2, <3>1, <3>2
  <2>4. \A i \in 1 .. k : /\ i \in E <=> i \in D
                          /\ {j \in E : j < i} = {j \in D : j < i}
    <3> SUFFICES ASSUME NEW i \in 1 .. k
                 PROVE  /\ i \in E <=> i \in D
                        /\ {j \in E : j < i} = {j \in D : j < i}
      OBVIOUS
    <3>1. i # k + 1 /\ ~(k + 1 < i)
      OBVIOUS
    <3> QED
      BY <2>2, <3>1
  <2>5. k + 1 \notin D /\ {j \in E : j < k + 1} = D
    <3>1. \A j \in D : j < k + 1 /\ j # k + 1
      OBVIOUS
    <3>2. ~(k + 1 < k + 1)
      OBVIOUS
    <3> QED
      BY <2>2, <3>1, <3>2
  <2>6. k + 1 \in E <=> <<k + 1, {j \in E : j < k + 1}>> \in T
    BY <2>2, <2>5
  <2>7. \A i \in 1 .. k : i \in E <=> <<i, {j \in E : j < i}>> \in T
    BY <2>1, <2>4
  <2>8. \A i \in 1 .. k + 1 : i \in 1 .. k \/ i = k + 1
    OBVIOUS
  <2>9. chosen(k + 1, E)
    BY <2>6, <2>7, <2>8
  <2> QED
    BY <2>3, <2>9
<1>3. S \in SUBSET Nat
  OBVIOUS
<1>4. S = Nat
  <2> HIDE DEF S
  <2> QED
    BY <1>1, <1>2, <1>3, Induction
<1> QED
  BY <1>4

\* What is granted was grantable, and no account is granted the role twice.
LEMMA GrantedSound ==
    ASSUME NEW n \in Nat, NEW batch \in [1 .. n -> Accounts], NEW r, NEW until, NEW f
    PROVE  /\ Granted(batch, r, until, f) \in SUBSET (1 .. n)
           /\ \A i \in Granted(batch, r, until, f) : Grantable(batch[i], r, until)
           /\ \A i, j \in Granted(batch, r, until, f) : batch[i] = batch[j] => i = j
<1> DEFINE gets(i, D) == GetsGrant(batch, i, {j \in D : j < i}, r, until, f)
<1>1. PICK T : T = {x \in (1 .. n) \X SUBSET (1 .. n) :
                      GetsGrant(batch, x[1], x[2], r, until, f)}
  OBVIOUS
<1>2. PICK D \in SUBSET (1 .. n) : \A i \in 1 .. n :
         i \in D <=> <<i, {j \in D : j < i}>> \in T
  BY ChosenInTurn
<1>3. \A i \in 1 .. n : i \in D <=> gets(i, D)
  <2> SUFFICES ASSUME NEW i \in 1 .. n
               PROVE  i \in D <=> gets(i, D)
    OBVIOUS
  <2>1. PICK d : d = {j \in D : j < i}
    OBVIOUS
  <2>2. <<i, d>> \in (1 .. n) \X SUBSET (1 .. n)
    BY <2>1
  <2>3. <<i, d>> \in T <=> GetsGrant(batch, i, d, r, until, f)
    BY <1>1, <2>2
  <2> QED
    BY <1>2, <2>1, <2>3
<1>4. PICK G : G = Granted(batch, r, until, f)
  OBVIOUS
<1>5. DOMAIN batch = 1 .. n
  OBVIOUS
<1>6. G \in SUBSET (1 .. n) /\ \A i \in 1 .. n : i \in G <=> gets(i, G)
  <2> HIDE DEF gets
  <2>1. G = CHOOSE E \in SUBSET (1 .. n) : \A i \in 1 .. n : i \in E <=> gets(i, E)
    BY <1>4, <1>5 DEF Granted, gets
  <2> QED
    BY <1>3, <2>1
<1>7. \A i \in G : Grantable(batch[i], r, until) /\ \A j \in G : j < i => batch[j] # batch[i]
  <2> SUFFICES ASSUME NEW i \in G
               PROVE  /\ Grantable(batch[i], r, until)
                      /\ \A j \in G : j < i => batch[j] # batch[i]
    OBVIOUS
  <2>1. gets(i, G)
    BY <1>6
  <2> QED
    BY <2>1 DEF GetsGrant
<1>8. \A i, j \in G : batch[i] = batch[j] => i = j
  <2> SUFFICES ASSUME NEW i \in G, NEW j \in G, batch[i] = batch[j]
               PROVE  i = j
    OBVIOUS
  <2>1. ~(i < j) /\ ~(j < i)
    BY <1>7
  <2>2. i \in 1 .. n /\ j \in 1 .. n
    BY <1>6
  <2> QED
    BY <2>1, <2>2
<1> QED
  BY <1>4, <1>6, <1>7, <1>8

\* Track adds the element unless the vector has it.
LEMMA TrackElements ==
    ASSUME NEW S, NEW s \in Seq(S), NEW x \in S
    PROVE  /\ Track(s, x) \in Seq(S)
           /\ Range(Track(s, x)) = Range(s) \cup {x}
           /\ IsInjective(s) => IsInjective(Track(s, x))
           /\ Len(Track(s, x)) = IF x \in Range(s) THEN Len(s) ELSE Len(s) + 1
  BY AppendElements DEF Track

\* A is the set of accounts that GrantRoleBatch grants r until the time given,
\* and new those of them that RoleMembers does not list yet, in order.
Grants(A, new, r, until) ==
    LET woken == {a \in A : ~(<<r, a>> \in holds /\ HasRole(a, r))}
    IN  /\ A \subseteq Accounts \ blacklisted
        /\ A # {} /\ IsFiniteSet(A)
        /\ new \in Seq(Accounts)
        /\ IsInjective(new)
        /\ Range(new) = A \ Range(members[r])
        /\ until \in 0 .. Forever
        /\ CanTrack(r)
        /\ holds' = holds \cup ({r} \X A)
        /\ expiry' = [k \in DOMAIN expiry \cup ({r} \X A) |->
                        IF k \in {r} \X A THEN until ELSE expiry[k]]
        /\ members' = [members EXCEPT ![r] = @ \o new]
        /\ addressRoles' = [a \in Accounts |-> IF a \in A THEN Track(addressRoles[a], r)
                                               ELSE addressRoles[a]]
        /\ count' = [count EXCEPT ![r] = @ + Cardinality(woken)]
        /\ allRoles' = Track(allRoles, r)
        /\ UNCHANGED <<now, authority, blacklisted, parent>>

\* The effect of a batch is that of granting the role to a set of accounts.
LEMMA BatchGrants ==
    ASSUME TypeOK, NEW n \in Nat, NEW batch \in [1 .. n -> Accounts], NEW r \in Roles,
           NEW caller, NEW d \in Durations, NEW f,
           GrantRoleBatch(caller, batch, r, d, f)
    PROVE  \E A, new, until : Grants(A, new, r, until)
<1>1. PICK until : until = ExpiryOf(d)
  OBVIOUS
<1>2. PICK D : D = Granted(batch, r, until, f)
  OBVIOUS
<1>3. /\ D \in SUBSET (1 .. n) /\ D # {}
      /\ \A i \in D : Grantable(batch[i], r, until)
      /\ \A i, j \in D : batch[i] = batch[j] => i = j
  BY <1>1, <1>2, GrantedSound DEF GrantRoleBatch
<1>4. batch \in Seq(Accounts) /\ Len(batch) = n
  OBVIOUS
<1>5. PICK S : S = Kept(batch, D)
  OBVIOUS
<1>6. S \in Seq(Accounts) /\ Range(S) = {batch[i] : i \in D} /\ IsInjective(S)
  BY <1>3, <1>4, <1>5, KeptElements
<1>7. PICK A : A = Range(S)
  OBVIOUS
<1>8. A \in SUBSET Accounts /\ IsFiniteSet(A)
  BY <1>6, <1>7, RangeFinite
<1>9. PICK I : I = {i \in DOMAIN S : S[i] \notin Range(members[r])}
  OBVIOUS
<1>10. I \in SUBSET (1 .. Len(S)) /\ DOMAIN S = 1 .. Len(S)
  BY <1>6, <1>9
<1>11. PICK new : new = Kept(S, I)
  OBVIOUS
<1>12. /\ new \in Seq(Accounts) /\ Range(new) = {S[i] : i \in I}
       /\ IsInjective(new)
  <2>1. \A i, j \in I : S[i] = S[j] => i = j
    BY <1>6, <1>10 DEF IsInjective
  <2> QED
    BY <1>6, <1>10, <1>11, <2>1, KeptElements
<1>13. Range(new) = A \ Range(members[r])
  <2>1. A = {S[i] : i \in DOMAIN S}
    BY <1>7 DEF Range
  <2>2. PICK M : M = Range(members[r])
    OBVIOUS
  <2>3. {S[i] : i \in I} = {S[i] : i \in DOMAIN S} \ M
    BY <1>9, <2>2
  <2> QED
    BY <1>12, <2>1, <2>2, <2>3
<1>14. A # {} /\ \A a \in A : Grantable(a, r, until)
  BY <1>3, <1>6, <1>7
<1>15. A \subseteq Accounts \ blacklisted /\ until # None /\ CanTrack(r)
  BY <1>8, <1>14 DEF Grantable
<1>16. until \in 0 .. Forever
  BY <1>1, <1>15, AccessNumbers DEF ExpiryOf, TypeOK
<1>17. /\ Activate(r, S, until)
       /\ allRoles' = Track(allRoles, r)
       /\ UNCHANGED <<now, authority, blacklisted, parent>>
  BY <1>1, <1>2, <1>5 DEF GrantRoleBatch
<1>18. /\ holds' = holds \cup ({r} \X A)
       /\ expiry' = [k \in DOMAIN expiry \cup ({r} \X A) |->
                       IF k \in {r} \X A THEN until ELSE expiry[k]]
       /\ members' = [members EXCEPT ![r] = @ \o new]
       /\ addressRoles' = [a \in Accounts |-> IF a \in A THEN Track(addressRoles[a], r)
                                              ELSE addressRoles[a]]
       /\ count' = [count EXCEPT ![r] = @ + Cardinality({a \in A : ~(<<r, a>> \in holds /\ HasRole(a, r))})]
  BY <1>7, <1>9, <1>11, <1>17 DEF Activate
<1>19. Grants(A, new, r, until)
  BY <1>8, <1>12, <1>13, <1>14, <1>15, <1>16, <1>17, <1>18 DEF Grants
<1> QED
  BY <1>19

-----------------------------------------------------------------------------
(* Types.                                                                  *)

\* The difference of counts saturates at 0.
LEMMA FewerType == ASSUME NEW n \in Nat PROVE Fewer(n) \in Nat
  BY DEF Fewer

\* Granting a role keeps the types.
LEMMA GrantsType ==
    ASSUME TypeOK, NEW A, NEW new, NEW until, NEW r \in Roles, Grants(A, new, r, until)
    PROVE  TypeOK'
<1> USE DEF TypeOK
<1>1. /\ now' \in 0 .. MaxTime
      /\ superAdmin' \in Accounts \cup {None}
      /\ roleAdmin' \in [Roles -> Accounts \cup {None}]
      /\ blacklisted' \subseteq Accounts
      /\ parent' \in [Roles -> Roles \cup {None}]
      /\ limits' \in [roles : Nat, grants : Nat]
  BY DEF Grants, authority
<1>2. A \subseteq Accounts /\ holds' \subseteq Roles \X Accounts
  BY DEF Grants
<1>3. DOMAIN expiry' \subseteq Roles \X Accounts /\ expiry' \in [DOMAIN expiry' -> 0 .. Forever]
  BY <1>2 DEF Grants
<1>4. members' \in [Roles -> Seq(Accounts)]
  <2>1. new \in Seq(Accounts) /\ members[r] \in Seq(Accounts)
    BY DEF Grants
  <2>2. members[r] \o new \in Seq(Accounts)
    BY <2>1
  <2>3. members' = [members EXCEPT ![r] = members[r] \o new]
    BY DEF Grants
  <2> QED
    BY <2>2, <2>3
<1>5. addressRoles' \in [Accounts -> Seq(Roles)]
  <2>1. \A a \in Accounts : Track(addressRoles[a], r) \in Seq(Roles)
    BY TrackElements
  <2>2. addressRoles' = [a \in Accounts |-> IF a \in A THEN Track(addressRoles[a], r)
                                            ELSE addressRoles[a]]
    BY DEF Grants
  <2> QED
    BY <2>1, <2>2
<1>6. count' \in [Roles -> Nat]
  <2>1. PICK W : W = {a \in A : ~(<<r, a>> \in holds /\ HasRole(a, r))}
    OBVIOUS
  <2>2. Cardinality(W) \in Nat
    BY <2>1, FS_Subset, FS_CardinalityType DEF Grants
  <2>3. count' = [count EXCEPT ![r] = count[r] + Cardinality(W)]
    BY <2>1 DEF Grants
  <2> QED
    BY <2>2, <2>3
<1>7. allRoles' \in Seq(Roles)
  BY TrackElements DEF Grants
<1> QED
  BY <1>1, <1>2, <1>3, <1>4, <1>5, <1>6, <1>7

\* What deactivate_role_grant does to the types of the records.
LEMMA DeactivateType ==
    ASSUME TypeOK, NEW r \in Roles, NEW a \in Accounts, Deactivate(r, a)
    PROVE  /\ holds' \subseteq Roles \X Accounts
           /\ DOMAIN expiry' \subseteq Roles \X Accounts
           /\ expiry' \in [DOMAIN expiry' -> 0 .. Forever]
           /\ members' \in [Roles -> Seq(Accounts)]
           /\ addressRoles' \in [Accounts -> Seq(Roles)]
           /\ count' \in [Roles -> Nat]
<1> USE DEF TypeOK
<1>1. holds' \subseteq Roles \X Accounts
  BY DEF Deactivate
<1>2. DOMAIN expiry' \subseteq Roles \X Accounts /\ expiry' \in [DOMAIN expiry' -> 0 .. Forever]
  BY DEF Deactivate, Delete
<1>3. members' \in [Roles -> Seq(Accounts)]
  <2>1. Without(members[r], {a}) \in Seq(Accounts)
    BY WithoutElements
  <2> QED
    BY <2>1 DEF Deactivate
<1>4. addressRoles' \in [Accounts -> Seq(Roles)]
  <2>1. Without(addressRoles[a], {r}) \in Seq(Roles)
    BY WithoutElements
  <2> QED
    BY <2>1 DEF Deactivate
<1>5. count' \in [Roles -> Nat]
  <2>1. Fewer(count[r]) \in Nat
    BY FewerType
  <2> QED
    BY <2>1 DEF Deactivate
<1> QED
  BY <1>1, <1>2, <1>3, <1>4, <1>5

\* Transferring a grant keeps the types.
LEMMA TransferType ==
    ASSUME TypeOK, NEW r \in Roles, NEW a \in Accounts, NEW b \in Accounts, NEW caller,
           TransferRoleMembership(caller, r, a, b)
    PROVE  TypeOK'
<1> USE DEF TypeOK
<1>1. /\ now' \in 0 .. MaxTime
      /\ superAdmin' \in Accounts \cup {None}
      /\ roleAdmin' \in [Roles -> Accounts \cup {None}]
      /\ blacklisted' \subseteq Accounts
      /\ parent' \in [Roles -> Roles \cup {None}]
      /\ limits' \in [roles : Nat, grants : Nat]
  BY DEF TransferRoleMembership, authority
<1>2. holds' \subseteq Roles \X Accounts
  BY DEF TransferRoleMembership
<1>3. DOMAIN expiry' \subseteq Roles \X Accounts /\ expiry' \in [DOMAIN expiry' -> 0 .. Forever]
  <2>1. expiry[<<r, a>>] \in 0 .. Forever
    BY DEF TransferRoleMembership
  <2>2. PICK e : e = Delete(expiry, {<<r, a>>})
    OBVIOUS
  <2>3. DOMAIN e \subseteq Roles \X Accounts /\ e \in [DOMAIN e -> 0 .. Forever]
    BY <2>2 DEF Delete
  <2>4. expiry' = Put(e, <<r, b>>, expiry[<<r, a>>])
    BY <2>2 DEF TransferRoleMembership
  <2> QED
    BY <2>1, <2>3, <2>4 DEF Put
<1>4. members' \in [Roles -> Seq(Accounts)]
  <2>1. PICK m : m = Without(members[r], {a})
    OBVIOUS
  <2>2. m \in Seq(Accounts)
    BY <2>1, WithoutElements
  <2>3. Track(m, b) \in Seq(Accounts)
    BY <2>2, TrackElements
  <2> QED
    BY <2>1, <2>3 DEF TransferRoleMembership
<1>5. addressRoles' \in [Accounts -> Seq(Roles)]
  <2>1. Without(addressRoles[a], {r}) \in Seq(Roles)
    BY WithoutElements
  <2>2. PICK f : f = [addressRoles EXCEPT ![a] = Without(@, {r})]
    OBVIOUS
  <2>3. f \in [Accounts -> Seq(Roles)]
    BY <2>1, <2>2
  <2>4. Track(f[b], r) \in Seq(Roles)
    BY <2>3, TrackElements
  <2>5. addressRoles' = [f EXCEPT ![b] = Track(f[b], r)]
    BY <2>2 DEF TransferRoleMembership
  <2> QED
    BY <2>3, <2>4, <2>5
<1>6. count' \in [Roles -> Nat]
  BY FewerType DEF TransferRoleMembership
<1>7. allRoles' \in Seq(Roles)
  BY TrackElements DEF TransferRoleMembership
<1> QED
  BY <1>1, <1>2, <1>3, <1>4, <1>5, <1>6, <1>7

\* Every step keeps the types.
LEMMA TypeStep == TypeOK /\ [Next]_vars => TypeOK'
<1> SUFFICES ASSUME TypeOK, [Next]_vars
             PROVE  TypeOK'
  OBVIOUS
<1> USE DEF authority, grants
<1>1. CASE UNCHANGED vars
  BY <1>1 DEF vars, TypeOK
<1>2. CASE Tick
  BY <1>2, AccessNumbers DEF Tick, TypeOK
<1>3. ASSUME NEW a \in Accounts, Initialize(a)
      PROVE  TypeOK'
  BY <1>3 DEF Initialize, TypeOK
<1>4. ASSUME NEW c \in Accounts, NEW new \in SomeLimits, SetRoleLimits(c, new)
      PROVE  TypeOK'
  BY <1>4, AccessNumbers DEF SetRoleLimits, TypeOK
<1>5. ASSUME NEW n \in Nat, NEW batch \in [1 .. n -> Accounts], NEW r \in Roles, NEW c,
             NEW d \in Durations, NEW f, GrantRoleBatch(c, batch, r, d, f)
      PROVE  TypeOK'
  BY <1>5, BatchGrants, GrantsType
<1>6. ASSUME NEW c, NEW r \in Roles, NEW a \in Accounts,
             RevokeRole(c, r, a) \/ ExpireRole(c, r, a)
      PROVE  TypeOK'
  <2>1. /\ Deactivate(r, a)
        /\ UNCHANGED <<now, authority, blacklisted, parent, allRoles>>
    BY <1>6 DEF RevokeRole, ExpireRole
  <2> QED
    BY <2>1, DeactivateType DEF TypeOK
<1>7. ASSUME NEW c, NEW r \in Roles, NEW a \in Accounts, NEW b \in Accounts,
             TransferRoleMembership(c, r, a, b)
      PROVE  TypeOK'
  BY <1>7, TransferType
<1>8. ASSUME NEW c, NEW r \in Roles, NEW a \in Accounts, SetRoleAdmin(c, r, a)
      PROVE  TypeOK'
  BY <1>8, TrackElements DEF SetRoleAdmin, TypeOK
<1>9. ASSUME NEW c, NEW r \in Roles, NEW p \in Roles, SetRoleParent(c, r, p)
      PROVE  TypeOK'
  <2>1. PICK t : t = Track(allRoles, r)
    OBVIOUS
  <2>2. t \in Seq(Roles)
    BY <2>1, TrackElements DEF TypeOK
  <2>3. allRoles' \in Seq(Roles)
    <3>1. allRoles' = Track(t, p)
      BY <1>9, <2>1 DEF SetRoleParent
    <3> QED
      BY <2>2, <3>1, TrackElements
  <2> QED
    BY <1>9, <2>3 DEF SetRoleParent, TypeOK
<1>10. ASSUME NEW c \in Accounts, NEW a \in Accounts, Blacklist(c, a)
       PROVE  TypeOK'
  <2>1. \A r \in Roles : Fewer(count[r]) \in Nat /\ count[r] \in Nat
    BY FewerType DEF TypeOK
  <2>2. count' \in [Roles -> Nat]
    BY <1>10, <2>1 DEF Blacklist
  <2> QED
    BY <1>10, <2>2 DEF Blacklist, TypeOK
<1>11. ASSUME NEW c \in Accounts, NEW a \in Accounts, Unblacklist(c, a)
       PROVE  TypeOK'
  BY <1>11 DEF Unblacklist, TypeOK
<1>12. ASSUME NEW c \in Accounts, NEW a \in Accounts, TransferSuperAdmin(c, a)
       PROVE  TypeOK'
  BY <1>12 DEF TransferSuperAdmin, TypeOK
<1>13. ASSUME NEW c \in Accounts, NEW r \in Roles, NEW a \in Accounts, NEW d \in Durations,
              GrantRole(c, a, r, d)
       PROVE  TypeOK'
  <2>1. <<a>> \in [1 .. 1 -> Accounts]
    OBVIOUS
  <2> QED
    BY <1>5, <1>13, <2>1 DEF GrantRole
<1>14. ASSUME NEW batch \in Batches
       PROVE  \E n \in Nat : batch \in [1 .. n -> Accounts]
  BY AccessNumbers DEF Batches
<1> QED
  BY <1>1, <1>2, <1>3, <1>4, <1>5, <1>6, <1>7, <1>8, <1>9, <1>10, <1>11, <1>12,
     <1>13, <1>14, AccessNumbers DEF Next, ManageRole, ManageAccounts

-----------------------------------------------------------------------------
(* The records of grants.                                                  *)

\* The parts of RecordsAgree: the records of grants, and the list of roles.
GrantsAgree ==
    /\ DOMAIN expiry = holds
    /\ \A r \in Roles : /\ IsInjective(members[r])
                        /\ Range(members[r]) = {a \in Accounts : <<r, a>> \in holds}
    /\ \A a \in Accounts : /\ IsInjective(addressRoles[a])
                           /\ Range(addressRoles[a]) = {r \in Roles : <<r, a>> \in holds}

RolesListed ==
    /\ IsInjective(allRoles)
    /\ \A r \in Roles : members[r] # << >> \/ roleAdmin[r] # None \/ parent[r] # None
                          => r \in Range(allRoles)
    /\ \A r \in Roles : parent[r] # None => parent[r] \in Range(allRoles)

\* The parts make up the whole.
LEMMA RecordsAgreeParts == ASSUME TypeOK PROVE RecordsAgree <=> GrantsAgree /\ RolesListed
<1>1. Range(parent) = {parent[r] : r \in Roles}
  BY DEF TypeOK, Range
<1> QED
  BY <1>1 DEF RecordsAgree, GrantsAgree, RolesListed

\* A vector is empty when it has no elements.
LEMMA EmptyMembers ==
    ASSUME NEW S, NEW s \in Seq(S)
    PROVE  s = << >> <=> Range(s) = {}
<1>1. Len(s) \in Nat /\ DOMAIN s = 1 .. Len(s)
  OBVIOUS
<1>2. CASE s = << >>
  BY <1>2 DEF Range
<1>3. CASE s # << >>
  <2>1. 1 \in DOMAIN s
    BY <1>1, <1>3
  <2> QED
    BY <1>3, <2>1 DEF Range
<1> QED
  BY <1>2, <1>3

\* Granting writes the four records alike, and lists the role.
LEMMA GrantsKeepRecords ==
    ASSUME TypeOK, RecordsAgree, NEW A, NEW new, NEW until, NEW r \in Roles,
           Grants(A, new, r, until)
    PROVE  GrantsAgree' /\ RolesListed'
<1>1. GrantsAgree /\ RolesListed
  BY RecordsAgreeParts
<1>2. DOMAIN expiry' = holds'
  BY <1>1 DEF Grants, GrantsAgree
<1>3. ASSUME NEW q \in Roles
      PROVE  IsInjective(members'[q]) /\ Range(members'[q]) = {a \in Accounts : <<q, a>> \in holds'}
  <2>1. CASE q # r
    BY <1>1, <2>1 DEF Grants, GrantsAgree, TypeOK
  <2>2. CASE q = r
    <3>1. members[r] \in Seq(Accounts) /\ new \in Seq(Accounts)
      BY DEF TypeOK, Grants
    <3>2. members'[r] = members[r] \o new
      BY DEF Grants, TypeOK
    <3>3. IsInjective(new) /\ Range(new) = A \ Range(members[r]) /\ A \subseteq Accounts
      BY DEF Grants
    <3>4. IsInjective(members[r]) /\ Range(members[r]) = {a \in Accounts : <<r, a>> \in holds}
      BY <1>1 DEF GrantsAgree
    <3>5. IsInjective(members'[r]) /\ Range(members'[r]) = Range(members[r]) \cup A
      <4>1. PICK s : s = members[r]
        OBVIOUS
      <4>2. Range(s) \cap Range(new) = {} /\ Range(s) \cup Range(new) = Range(s) \cup A
        BY <3>3, <4>1
      <4>3. IsInjective(s \o new) /\ Range(s \o new) = Range(s) \cup Range(new)
        BY <3>1, <3>3, <3>4, <4>1, <4>2, ConcatElements
      <4> QED
        BY <3>2, <4>1, <4>2, <4>3
    <3>6. \A a \in Accounts : <<r, a>> \in holds' <=> <<r, a>> \in holds \/ a \in A
      BY DEF Grants
    <3> QED
      BY <2>2, <3>3, <3>4, <3>5, <3>6
  <2> QED
    BY <2>1, <2>2
<1>4. ASSUME NEW a \in Accounts
      PROVE  /\ IsInjective(addressRoles'[a])
             /\ Range(addressRoles'[a]) = {q \in Roles : <<q, a>> \in holds'}
  <2>1. /\ addressRoles[a] \in Seq(Roles) /\ IsInjective(addressRoles[a])
        /\ Range(addressRoles[a]) = {q \in Roles : <<q, a>> \in holds}
    BY <1>1 DEF TypeOK, GrantsAgree
  <2>2. CASE a \in A
    <3>1. addressRoles'[a] = Track(addressRoles[a], r)
      BY <2>2 DEF Grants
    <3>2. /\ Range(addressRoles'[a]) = Range(addressRoles[a]) \cup {r}
          /\ IsInjective(addressRoles'[a])
      BY <2>1, <3>1, TrackElements
    <3>3. \A q \in Roles : <<q, a>> \in holds' <=> <<q, a>> \in holds \/ q = r
      BY <2>2 DEF Grants
    <3> QED
      BY <2>1, <3>2, <3>3
  <2>3. CASE a \notin A
    <3>1. addressRoles'[a] = addressRoles[a]
      BY <2>3 DEF Grants
    <3>2. \A q \in Roles : <<q, a>> \in holds' <=> <<q, a>> \in holds
      BY <2>3 DEF Grants
    <3> QED
      BY <2>1, <3>1, <3>2
  <2> QED
    BY <2>2, <2>3
<1>5. RolesListed'
  <2>1. /\ Range(allRoles') = Range(allRoles) \cup {r}
        /\ IsInjective(allRoles')
    BY <1>1, TrackElements DEF Grants, TypeOK, RolesListed
  <2>2. \A q \in Roles : q # r => members'[q] = members[q]
    BY DEF Grants, TypeOK
  <2>3. roleAdmin' = roleAdmin /\ parent' = parent
    BY DEF Grants, authority
  <2> QED
    BY <1>1, <2>1, <2>2, <2>3 DEF RolesListed
<1> QED
  BY <1>2, <1>3, <1>4, <1>5 DEF GrantsAgree

\* Taking the grant of r from a out of three of the records.
Withdrawn(r, a) ==
    /\ holds' = holds \ {<<r, a>>}
    /\ expiry' = Delete(expiry, {<<r, a>>})
    /\ members' = [members EXCEPT ![r] = Without(@, {a})]
    /\ addressRoles' = [addressRoles EXCEPT ![a] = Without(@, {r})]

\* Withdrawing a grant takes it out of the four records alike.
LEMMA WithdrawnAgrees ==
    ASSUME TypeOK, GrantsAgree, NEW r \in Roles, NEW a \in Accounts, Withdrawn(r, a)
    PROVE  GrantsAgree'
<1>1. DOMAIN expiry' = holds'
  BY DEF Withdrawn, Delete, GrantsAgree
<1>2. ASSUME NEW q \in Roles
      PROVE  IsInjective(members'[q]) /\ Range(members'[q]) = {b \in Accounts : <<q, b>> \in holds'}
  <2>1. CASE q # r
    BY <2>1 DEF Withdrawn, GrantsAgree, TypeOK
  <2>2. CASE q = r
    <3>1. /\ members[r] \in Seq(Accounts) /\ IsInjective(members[r])
          /\ Range(members[r]) = {b \in Accounts : <<r, b>> \in holds}
          /\ members'[r] = Without(members[r], {a})
      BY DEF TypeOK, GrantsAgree, Withdrawn
    <3>2. IsInjective(members'[r]) /\ Range(members'[r]) = Range(members[r]) \ {a}
      BY <3>1, WithoutElements
    <3>3. \A b \in Accounts : <<r, b>> \in holds' <=> <<r, b>> \in holds /\ b # a
      BY DEF Withdrawn
    <3> QED
      BY <2>2, <3>1, <3>2, <3>3
  <2> QED
    BY <2>1, <2>2
<1>3. ASSUME NEW b \in Accounts
      PROVE  /\ IsInjective(addressRoles'[b])
             /\ Range(addressRoles'[b]) = {q \in Roles : <<q, b>> \in holds'}
  <2>1. CASE b # a
    BY <2>1 DEF Withdrawn, GrantsAgree, TypeOK
  <2>2. CASE b = a
    <3>1. /\ addressRoles[a] \in Seq(Roles) /\ IsInjective(addressRoles[a])
          /\ Range(addressRoles[a]) = {q \in Roles : <<q, a>> \in holds}
          /\ addressRoles'[a] = Without(addressRoles[a], {r})
      BY DEF TypeOK, GrantsAgree, Withdrawn
    <3>2. IsInjective(addressRoles'[a]) /\ Range(addressRoles'[a]) = Range(addressRoles[a]) \ {r}
      BY <3>1, WithoutElements
    <3>3. \A q \in Roles : <<q, a>> \in holds' <=> <<q, a>> \in holds /\ q # r
      BY DEF Withdrawn
    <3> QED
      BY <2>2, <3>1, <3>2, <3>3
  <2> QED
    BY <2>1, <2>2
<1> QED
  BY <1>1, <1>2, <1>3 DEF GrantsAgree

\* deactivate_role_grant keeps the records in agreement.
LEMMA DeactivateKeepsRecords ==
    ASSUME TypeOK, RecordsAgree, NEW r \in Roles, NEW a \in Accounts, Deactivate(r, a),
           UNCHANGED <<now, authority, blacklisted, parent, allRoles>>
    PROVE  GrantsAgree' /\ RolesListed'
<1>1. GrantsAgree /\ RolesListed
  BY RecordsAgreeParts
<1>2. GrantsAgree'
  BY <1>1, WithdrawnAgrees DEF Deactivate, Withdrawn
<1>3. ASSUME NEW q \in Roles, members'[q] # << >>
      PROVE  members[q] # << >>
  <2>1. members[q] \in Seq(Accounts) /\ members'[q] \in Seq(Accounts)
    BY DeactivateType DEF TypeOK
  <2>2. PICK b \in Accounts : b \in Range(members'[q])
    BY <1>2, <1>3, <2>1, EmptyMembers DEF GrantsAgree
  <2>3. <<q, b>> \in holds
    BY <1>2, <2>2 DEF GrantsAgree, Deactivate
  <2>4. b \in Range(members[q])
    BY <1>1, <2>3 DEF GrantsAgree
  <2> QED
    BY <2>1, <2>4, EmptyMembers
<1>4. RolesListed'
  BY <1>1, <1>3 DEF RolesListed, authority
<1> QED
  BY <1>2, <1>4

\* A transfer writes for one account what it withdraws from the other.
LEMMA TransferKeepsRecords ==
    ASSUME TypeOK, RecordsAgree, NEW r \in Roles, NEW a \in Accounts, NEW b \in Accounts,
           NEW c, TransferRoleMembership(c, r, a, b)
    PROVE  GrantsAgree' /\ RolesListed'
<1>1. GrantsAgree /\ RolesListed
  BY RecordsAgreeParts
<1>2. a # b
  BY DEF TransferRoleMembership
<1>3. <<r, a>> \in holds
  BY <1>1 DEF TransferRoleMembership, GrantsAgree
<1>4. DOMAIN expiry' = holds'
  BY <1>1 DEF TransferRoleMembership, Put, Delete, GrantsAgree
<1>5. \A q \in Roles, x \in Accounts :
         <<q, x>> \in holds' <=> \/ q = r /\ x = b
                                 \/ <<q, x>> \in holds /\ ~(q = r /\ x = a)
  BY DEF TransferRoleMembership
<1>6. ASSUME NEW q \in Roles
      PROVE  IsInjective(members'[q]) /\ Range(members'[q]) = {x \in Accounts : <<q, x>> \in holds'}
  <2>1. CASE q # r
    <3>1. members'[q] = members[q]
      BY <2>1 DEF TransferRoleMembership, TypeOK
    <3> QED
      BY <1>1, <1>5, <2>1, <3>1 DEF GrantsAgree
  <2>2. CASE q = r
    <3>1. PICK m : m = Without(members[r], {a})
      OBVIOUS
    <3>2. /\ members[r] \in Seq(Accounts) /\ IsInjective(members[r])
          /\ Range(members[r]) = {x \in Accounts : <<r, x>> \in holds}
          /\ members'[r] = Track(m, b)
      BY <1>1, <3>1 DEF TypeOK, GrantsAgree, TransferRoleMembership
    <3>3. m \in Seq(Accounts) /\ IsInjective(m) /\ Range(m) = Range(members[r]) \ {a}
      BY <3>1, <3>2, WithoutElements
    <3>4. IsInjective(members'[r]) /\ Range(members'[r]) = Range(m) \cup {b}
      <4>1. IsInjective(Track(m, b)) /\ Range(Track(m, b)) = Range(m) \cup {b}
        BY <3>3, TrackElements
      <4> QED
        BY <3>2, <4>1
    <3> QED
      BY <1>2, <1>5, <2>2, <3>2, <3>3, <3>4
  <2> QED
    BY <2>1, <2>2
<1>7. ASSUME NEW x \in Accounts
      PROVE  /\ IsInjective(addressRoles'[x])
             /\ Range(addressRoles'[x]) = {q \in Roles : <<q, x>> \in holds'}
  <2>1. /\ addressRoles[x] \in Seq(Roles) /\ IsInjective(addressRoles[x])
        /\ Range(addressRoles[x]) = {q \in Roles : <<q, x>> \in holds}
    BY <1>1 DEF TypeOK, GrantsAgree
  <2>2. CASE x = a
    <3>1. addressRoles'[x] = Without(addressRoles[x], {r})
      BY <1>2, <2>2 DEF TransferRoleMembership, TypeOK
    <3>2. /\ IsInjective(addressRoles'[x])
          /\ Range(addressRoles'[x]) = Range(addressRoles[x]) \ {r}
      BY <2>1, <3>1, WithoutElements
    <3> QED
      BY <1>2, <1>5, <2>1, <2>2, <3>2
  <2>3. CASE x = b
    <3>1. addressRoles'[x] = Track(addressRoles[x], r)
      BY <1>2, <2>3 DEF TransferRoleMembership, TypeOK
    <3>2. /\ IsInjective(addressRoles'[x])
          /\ Range(addressRoles'[x]) = Range(addressRoles[x]) \cup {r}
      BY <2>1, <3>1, TrackElements
    <3> QED
      BY <1>2, <1>5, <2>1, <2>3, <3>2
  <2>4. CASE x # a /\ x # b
    <3>1. addressRoles'[x] = addressRoles[x]
      BY <2>4 DEF TransferRoleMembership, TypeOK
    <3> QED
      BY <1>5, <2>1, <2>4, <3>1
  <2> QED
    BY <2>2, <2>3, <2>4
<1>8. RolesListed'
  <2>1. Range(allRoles') = Range(allRoles) \cup {r} /\ IsInjective(allRoles')
    BY <1>1, TrackElements DEF TransferRoleMembership, TypeOK, RolesListed
  <2>2. \A q \in Roles : q # r => members'[q] = members[q]
    BY DEF TransferRoleMembership, TypeOK
  <2>3. roleAdmin' = roleAdmin /\ parent' = parent
    BY DEF TransferRoleMembership, authority
  <2> QED
    BY <1>1, <2>1, <2>2, <2>3 DEF RolesListed
<1> QED
  BY <1>4, <1>6, <1>7, <1>8 DEF GrantsAgree

\* Every step keeps the records in agreement.
LEMMA RecordsStep == TypeOK /\ RecordsAgree /\ [Next]_vars => RecordsAgree'
<1> SUFFICES ASSUME TypeOK, RecordsAgree, [Next]_vars
             PROVE  RecordsAgree'
  OBVIOUS
<1> USE DEF authority, grants
<1>0. GrantsAgree /\ RolesListed
  BY RecordsAgreeParts
<1>1. ASSUME UNCHANGED <<holds, expiry, members, addressRoles, parent, allRoles, roleAdmin>>
      PROVE  GrantsAgree' /\ RolesListed'
  BY <1>0, <1>1 DEF GrantsAgree, RolesListed
<1>2. ASSUME NEW n \in Nat, NEW batch \in [1 .. n -> Accounts], NEW r \in Roles, NEW c,
             NEW d \in Durations, NEW f, GrantRoleBatch(c, batch, r, d, f)
      PROVE  GrantsAgree' /\ RolesListed'
  BY <1>2, BatchGrants, GrantsKeepRecords
<1>3. ASSUME NEW c, NEW r \in Roles, NEW a \in Accounts,
             RevokeRole(c, r, a) \/ ExpireRole(c, r, a)
      PROVE  GrantsAgree' /\ RolesListed'
  BY <1>3, DeactivateKeepsRecords DEF RevokeRole, ExpireRole
<1>4. ASSUME NEW c, NEW r \in Roles, NEW a \in Accounts, NEW b \in Accounts,
             TransferRoleMembership(c, r, a, b)
      PROVE  GrantsAgree' /\ RolesListed'
  BY <1>4, TransferKeepsRecords
<1>5. ASSUME NEW c, NEW r \in Roles, NEW a \in Accounts, SetRoleAdmin(c, r, a)
      PROVE  GrantsAgree' /\ RolesListed'
  <2>1. Range(allRoles') = Range(allRoles) \cup {r} /\ IsInjective(allRoles')
    BY <1>0, <1>5, TrackElements DEF SetRoleAdmin, TypeOK, RolesListed
  <2>2. \A q \in Roles : q # r => roleAdmin'[q] = roleAdmin[q]
    BY <1>5 DEF SetRoleAdmin, TypeOK
  <2>3. UNCHANGED <<holds, expiry, members, addressRoles, parent>>
    BY <1>5 DEF SetRoleAdmin
  <2> QED
    BY <1>0, <2>1, <2>2, <2>3 DEF GrantsAgree, RolesListed
<1>6. ASSUME NEW c, NEW r \in Roles, NEW p \in Roles, SetRoleParent(c, r, p)
      PROVE  GrantsAgree' /\ RolesListed'
  <2>1. PICK t : t = Track(allRoles, r)
    OBVIOUS
  <2>2. t \in Seq(Roles) /\ Range(t) = Range(allRoles) \cup {r} /\ IsInjective(t)
    BY <1>0, <2>1, TrackElements DEF TypeOK, RolesListed
  <2>3. Range(allRoles') = Range(allRoles) \cup {r, p} /\ IsInjective(allRoles')
    <3>1. allRoles' = Track(t, p)
      BY <1>6, <2>1 DEF SetRoleParent
    <3>2. Range(Track(t, p)) = Range(t) \cup {p} /\ IsInjective(Track(t, p))
      BY <2>2, TrackElements
    <3> QED
      BY <2>2, <3>1, <3>2
  <2>4. parent'[r] = p /\ \A q \in Roles : q # r => parent'[q] = parent[q]
    BY <1>6 DEF SetRoleParent, TypeOK
  <2>5. UNCHANGED <<holds, expiry, members, addressRoles, roleAdmin>>
    BY <1>6 DEF SetRoleParent
  <2> QED
    BY <1>0, <2>3, <2>4, <2>5 DEF GrantsAgree, RolesListed
<1>7. ASSUME NEW c \in Accounts, NEW r \in Roles, NEW a \in Accounts, NEW d \in Durations,
             GrantRole(c, a, r, d)
      PROVE  GrantsAgree' /\ RolesListed'
  <2>1. <<a>> \in [1 .. 1 -> Accounts]
    OBVIOUS
  <2> QED
    BY <1>2, <1>7, <2>1 DEF GrantRole
<1>8. ASSUME NEW batch \in Batches
      PROVE  \E n \in Nat : batch \in [1 .. n -> Accounts]
  BY AccessNumbers DEF Batches
<1>9. ASSUME \/ UNCHANGED vars \/ Tick
             \/ \E c \in Accounts :
                  \/ Initialize(c)
                  \/ \E new \in SomeLimits : SetRoleLimits(c, new)
                  \/ \E a \in Accounts : Blacklist(c, a) \/ Unblacklist(c, a) \/ TransferSuperAdmin(c, a)
      PROVE  GrantsAgree' /\ RolesListed'
  BY <1>1, <1>9 DEF vars, Tick, Initialize, SetRoleLimits, Blacklist, Unblacklist, TransferSuperAdmin
<1>10. GrantsAgree' /\ RolesListed'
  BY <1>2, <1>3, <1>4, <1>5, <1>6, <1>7, <1>8, <1>9, AccessNumbers
     DEF Next, ManageRole, ManageAccounts
<1>11. Range(parent') = {parent'[r] : r \in Roles}
  BY TypeStep DEF TypeOK, Range
<1> QED
  BY <1>10, <1>11 DEF RecordsAgree, GrantsAgree, RolesListed

-----------------------------------------------------------------------------
(* The counts of members.                                                  *)

\* Of a role without parents only the grants of the role itself count.
LEMMA TopHasRole ==
    ASSUME TypeOK, NEW r \in Roles, parent[r] = None, NEW a
    PROVE  HasRole(a, r) <=> a \notin blacklisted /\ HasDirectRole(a, r)
<1>1. PICK up : up = parent
  OBVIOUS
<1>2. Climb(up, r, 0) = r
  BY ClimbSteps
<1>3. r # None
  BY AccessNone
<1>4. Climb(up, r, 1) = None
  <2>1. Climb(up, r, 0 + 1) = up[r]
    BY <1>2, <1>3, ClimbSteps
  <2> QED
    BY <1>1, <2>1
<1>5. ASSUME NEW n \in Nat, n # 0
      PROVE  Climb(up, r, n) = None
  <2>1. PICK k \in Nat : n = 1 + k
    BY <1>5, n - 1 \in Nat, n = 1 + (n - 1)
  <2>2. Climb(up, r, 1 + k) = Climb(up, Climb(up, r, 1), k)
    BY ClimbFurther
  <2> QED
    BY <1>4, <2>1, <2>2, ClimbStaysOut
<1>6. 0 \in 0 .. MaxHierarchy - 1 /\ \A n \in 0 .. MaxHierarchy - 1 : n \in Nat
  BY AccessNumbers
<1>7. Lineage(r) = {r}
  BY <1>1, <1>2, <1>3, <1>5, <1>6 DEF Lineage, Ancestor
<1> QED
  BY <1>7 DEF HasRole

\* With the records in agreement, who is active can be read off the expiries, and
\* the members listed bound their number.
LEMMA ActiveIs ==
    ASSUME TypeOK, RecordsAgree, NEW r \in Roles
    PROVE  /\ \A a : a \in Active(r) <=> /\ a \in Accounts \ blacklisted
                                         /\ <<r, a>> \in holds
                                         /\ now <= expiry[<<r, a>>]
           /\ IsFiniteSet(Active(r))
<1>1. \A a : a \in Active(r) <=> /\ a \in Accounts \ blacklisted
                                 /\ <<r, a>> \in holds
                                 /\ now <= expiry[<<r, a>>]
  BY DEF Active, HasDirectRole, RecordsAgree
<1>2. PICK s, B : s = members[r] /\ B = Active(r)
  OBVIOUS
<1>3. s \in Seq(Accounts) /\ B \in SUBSET Range(s)
  BY <1>1, <1>2 DEF TypeOK, RecordsAgree
<1>4. IsFiniteSet(B)
  BY <1>3, RangeFinite, FS_Subset
<1> QED
  BY <1>1, <1>2, <1>4

\* The arithmetic of the counts: n is at least the size of B.
LEMMA CountMore ==
    ASSUME NEW B, IsFiniteSet(B), NEW W, IsFiniteSet(W), NEW C \in SUBSET (B \cup W),
           NEW n \in Nat, n >= Cardinality(B)
    PROVE  n + Cardinality(W) >= Cardinality(C)
<1>1. /\ IsFiniteSet(B \cup W)
      /\ Cardinality(B \cup W) = Cardinality(B) + Cardinality(W) - Cardinality(B \cap W)
  BY FS_Union
<1>2. Cardinality(C) <= Cardinality(B \cup W) /\ IsFiniteSet(C)
  BY <1>1, FS_Subset
<1>3. IsFiniteSet(B \cap W)
  BY FS_Intersection
<1>4. /\ Cardinality(B) \in Nat /\ Cardinality(W) \in Nat /\ Cardinality(C) \in Nat
      /\ Cardinality(B \cap W) \in Nat
  BY <1>2, <1>3, FS_CardinalityType
<1> QED
  BY <1>1, <1>2, <1>4

\* Fewer members, the same count.
LEMMA CountSame ==
    ASSUME NEW B, IsFiniteSet(B), NEW C \in SUBSET B, NEW n \in Nat, n >= Cardinality(B)
    PROVE  n >= Cardinality(C)
<1>1. Cardinality(C) <= Cardinality(B) /\ IsFiniteSet(C)
  BY FS_Subset
<1>2. Cardinality(B) \in Nat /\ Cardinality(C) \in Nat
  BY <1>1, FS_CardinalityType
<1> QED
  BY <1>1, <1>2

\* One member less, one less counted.
LEMMA CountLess ==
    ASSUME NEW B, IsFiniteSet(B), NEW a \in B, NEW C \in SUBSET (B \ {a}),
           NEW n \in Nat, n >= Cardinality(B)
    PROVE  Fewer(n) \in Nat /\ Fewer(n) >= Cardinality(C) /\ n = Fewer(n) + 1
<1>1. IsFiniteSet(B \ {a}) /\ Cardinality(B \ {a}) = Cardinality(B) - 1
  BY FS_RemoveElement
<1>2. Cardinality(B) \in Nat /\ Cardinality(B) # 0
  BY FS_CardinalityType, FS_EmptySet
<1>3. Fewer(n) = n - 1 /\ n - 1 \in Nat /\ n - 1 >= Cardinality(B \ {a})
  BY <1>1, <1>2 DEF Fewer
<1> QED
  BY <1>1, <1>3, CountSame

\* Granting counts at least the accounts it makes active.
LEMMA GrantsCount ==
    ASSUME TypeOK, RecordsAgree, NeverUndercounts, RecordsAgree', TypeOK',
           NEW A, NEW new, NEW until, NEW r \in Roles, Grants(A, new, r, until)
    PROVE  NeverUndercounts'
<1> SUFFICES ASSUME NEW q \in Roles, parent'[q] = None
             PROVE  count'[q] >= Cardinality(Active(q)')
  BY DEF NeverUndercounts
<1>1. parent[q] = None /\ now' = now /\ blacklisted' = blacklisted
  BY DEF Grants
<1>2. PICK n, B, C : n = count[q] /\ B = Active(q) /\ C = Active(q)'
  OBVIOUS
<1>3. n \in Nat /\ IsFiniteSet(B) /\ n >= Cardinality(B)
  BY <1>1, <1>2, ActiveIs DEF TypeOK, NeverUndercounts
<1>4. \A a : a \in C => /\ a \in Accounts \ blacklisted
                        /\ <<q, a>> \in holds'
                        /\ now <= expiry'[<<q, a>>]
  BY <1>1, <1>2 DEF Active, HasDirectRole, RecordsAgree
<1>5. \A a : a \in B <=> /\ a \in Accounts \ blacklisted
                         /\ <<q, a>> \in holds
                         /\ now <= expiry[<<q, a>>]
  BY <1>2, ActiveIs
<1>6. CASE q # r
  <2>1. \A a : <<q, a>> \in holds' => <<q, a>> \in holds /\ expiry'[<<q, a>>] = expiry[<<q, a>>]
    BY <1>6 DEF Grants, RecordsAgree
  <2>2. C \in SUBSET B
    BY <1>4, <1>5, <2>1
  <2>3. count'[q] = n
    BY <1>2, <1>6 DEF Grants, TypeOK
  <2> QED
    BY <1>2, <1>3, <2>2, <2>3, CountSame
<1>7. CASE q = r
  <2>1. PICK W : W = {a \in A : ~(<<r, a>> \in holds /\ HasRole(a, r))}
    OBVIOUS
  <2>2. IsFiniteSet(W)
    BY <2>1, FS_Subset DEF Grants
  <2>3. \A a : <<q, a>> \in holds' => a \in A \/ (<<q, a>> \in holds /\ expiry'[<<q, a>>] = expiry[<<q, a>>])
    BY <1>7 DEF Grants, RecordsAgree
  <2>4. \A a \in A : a \in W \/ (a \in Accounts \ blacklisted /\ HasDirectRole(a, r))
    BY <1>1, <1>7, <2>1, TopHasRole DEF Grants
  <2>5. \A a \in A : a \in W \/ a \in B
    BY <1>2, <1>7, <2>4 DEF Active
  <2>6. C \in SUBSET (B \cup W)
    BY <1>4, <1>5, <2>3, <2>5
  <2>7. count'[q] = n + Cardinality(W)
    BY <1>2, <1>7, <2>1 DEF Grants, TypeOK
  <2> QED
    BY <1>2, <1>3, <2>2, <2>6, <2>7, CountMore
<1> QED
  BY <1>6, <1>7

\* Withdrawing a grant counts out only an account that was active.
LEMMA DeactivateCount ==
    ASSUME TypeOK, RecordsAgree, NeverUndercounts, NEW r \in Roles, NEW a \in Accounts,
           Deactivate(r, a), UNCHANGED <<now, blacklisted, parent>>
    PROVE  NeverUndercounts'
<1> SUFFICES ASSUME NEW q \in Roles, parent'[q] = None
             PROVE  count'[q] >= Cardinality(Active(q)')
  BY DEF NeverUndercounts
<1>1. parent[q] = None
  OBVIOUS
<1>2. PICK n, B, C : n = count[q] /\ B = Active(q) /\ C = Active(q)'
  OBVIOUS
<1>3. n \in Nat /\ IsFiniteSet(B) /\ n >= Cardinality(B)
  BY <1>1, <1>2, ActiveIs DEF TypeOK, NeverUndercounts
<1>4. \A b : b \in C => b \in B /\ ~(q = r /\ b = a)
  BY <1>2 DEF Active, HasDirectRole, Deactivate, Delete, RecordsAgree
<1>5. C \in SUBSET B
  BY <1>4
<1>6. CASE count'[q] = n
  BY <1>2, <1>3, <1>5, <1>6, CountSame
<1>7. CASE q = r /\ HasRole(a, r) /\ count'[q] = Fewer(n)
  <2>1. a \in B
    BY <1>1, <1>2, <1>7, TopHasRole DEF Active
  <2>2. C \in SUBSET (B \ {a})
    BY <1>4, <1>7
  <2> QED
    BY <1>2, <1>3, <1>7, <2>1, <2>2, CountLess
<1> QED
  BY <1>2, <1>6, <1>7 DEF Deactivate, TypeOK

\* A transfer counts one out and one in.
LEMMA TransferCount ==
    ASSUME TypeOK, RecordsAgree, NeverUndercounts, NEW r \in Roles,
           NEW a \in Accounts, NEW b \in Accounts, NEW c, TransferRoleMembership(c, r, a, b)
    PROVE  NeverUndercounts'
<1> SUFFICES ASSUME NEW q \in Roles, parent'[q] = None
             PROVE  count'[q] >= Cardinality(Active(q)')
  BY DEF NeverUndercounts
<1>1. parent[q] = None /\ now' = now /\ blacklisted' = blacklisted
  BY DEF TransferRoleMembership
<1>2. PICK n, B, C : n = count[q] /\ B = Active(q) /\ C = Active(q)'
  OBVIOUS
<1>3. n \in Nat /\ IsFiniteSet(B) /\ n >= Cardinality(B)
  BY <1>1, <1>2, ActiveIs DEF TypeOK, NeverUndercounts
<1>4. \A x : x \in B <=> /\ x \in Accounts \ blacklisted
                         /\ <<q, x>> \in holds
                         /\ now <= expiry[<<q, x>>]
  BY <1>2, ActiveIs
<1>5. DOMAIN expiry' = holds'
  BY DEF TransferRoleMembership, Put, Delete, RecordsAgree
<1>6. \A x : x \in C => /\ x \in Accounts \ blacklisted
                        /\ <<q, x>> \in holds'
                        /\ now <= expiry'[<<q, x>>]
  BY <1>1, <1>2, <1>5 DEF Active, HasDirectRole
<1>7. \A x : <<q, x>> \in holds' =>
          \/ q = r /\ x = b
          \/ /\ <<q, x>> \in holds /\ ~(q = r /\ x = a)
             /\ expiry'[<<q, x>>] = expiry[<<q, x>>]
  BY DEF TransferRoleMembership, Put, Delete, RecordsAgree
<1>8. CASE q # r
  <2>1. C \in SUBSET B
    BY <1>4, <1>6, <1>7, <1>8
  <2>2. count'[q] = n
    BY <1>2, <1>8 DEF TransferRoleMembership, TypeOK
  <2> QED
    BY <1>2, <1>3, <2>1, <2>2, CountSame
<1>9. CASE q = r
  <2>1. a \in B
    BY <1>1, <1>2, <1>9, TopHasRole DEF Active, TransferRoleMembership
  <2>2. PICK D : D = B \ {a}
    OBVIOUS
  <2>3. /\ IsFiniteSet(D)
        /\ Fewer(n) \in Nat /\ Fewer(n) >= Cardinality(D)
    BY <1>3, <2>1, <2>2, CountLess, FS_RemoveElement
  <2>4. C \in SUBSET (D \cup {b})
    BY <1>4, <1>6, <1>7, <1>9, <2>2
  <2>5. IsFiniteSet({b}) /\ Cardinality({b}) = 1
    BY FS_Singleton
  <2>6. Fewer(n) + 1 >= Cardinality(C)
    BY <2>3, <2>4, <2>5, CountMore
  <2>7. count'[q] = Fewer(n) + 1
    BY <1>2, <1>9 DEF TransferRoleMembership, TypeOK
  <2> QED
    BY <1>2, <2>6, <2>7
<1> QED
  BY <1>8, <1>9

\* Blacklisting counts out what stops being active.
LEMMA BlacklistCount ==
    ASSUME TypeOK, RecordsAgree, NeverUndercounts, NEW a \in Accounts, NEW c, Blacklist(c, a)
    PROVE  NeverUndercounts'
<1> SUFFICES ASSUME NEW q \in Roles, parent'[q] = None
             PROVE  count'[q] >= Cardinality(Active(q)')
  BY DEF NeverUndercounts
<1>1. parent[q] = None
  BY DEF Blacklist
<1>2. PICK n, B, C : n = count[q] /\ B = Active(q) /\ C = Active(q)'
  OBVIOUS
<1>3. n \in Nat /\ IsFiniteSet(B) /\ n >= Cardinality(B)
  BY <1>1, <1>2, ActiveIs DEF TypeOK, NeverUndercounts
<1>4. C \in SUBSET (B \ {a})
  BY <1>2 DEF Active, HasDirectRole, Blacklist
<1>5. C \in SUBSET B
  BY <1>4
<1>6. CASE a \in B
  <2>1. <<q, a>> \in holds /\ HasDirectRole(a, q)
    BY <1>2, <1>6 DEF Active, HasDirectRole
  <2>2. q \in Range(addressRoles[a])
    BY <2>1 DEF RecordsAgree
  <2>3. count'[q] = Fewer(n)
    BY <1>2, <2>1, <2>2 DEF Blacklist
  <2> QED
    BY <1>2, <1>3, <1>4, <1>6, <2>3, CountLess
<1>7. CASE a \notin B
  <2>1. ~HasDirectRole(a, q)
    BY <1>2, <1>7 DEF Active, Blacklist
  <2>2. count'[q] = n
    BY <1>2, <2>1 DEF Blacklist
  <2> QED
    BY <1>2, <1>3, <1>5, <2>2, CountSame
<1> QED
  BY <1>6, <1>7

\* Lifting it counts in what becomes active.
LEMMA UnblacklistCount ==
    ASSUME TypeOK, RecordsAgree, NeverUndercounts, NEW a \in Accounts, NEW c, Unblacklist(c, a)
    PROVE  NeverUndercounts'
<1> SUFFICES ASSUME NEW q \in Roles, parent'[q] = None
             PROVE  count'[q] >= Cardinality(Active(q)')
  BY DEF NeverUndercounts
<1>1. parent[q] = None
  BY DEF Unblacklist
<1>2. PICK n, B, C : n = count[q] /\ B = Active(q) /\ C = Active(q)'
  OBVIOUS
<1>3. n \in Nat /\ IsFiniteSet(B) /\ n >= Cardinality(B)
  BY <1>1, <1>2, ActiveIs DEF TypeOK, NeverUndercounts
<1>4. \A x : x \in C => x \in B \/ (x = a /\ HasDirectRole(a, q))
  BY <1>2 DEF Active, HasDirectRole, Unblacklist
<1>5. CASE HasDirectRole(a, q)
  <2>1. q \in Range(addressRoles[a])
    BY <1>5 DEF RecordsAgree, HasDirectRole
  <2>2. count'[q] = n + 1
    BY <1>2, <1>5, <2>1 DEF Unblacklist
  <2>3. IsFiniteSet({a}) /\ Cardinality({a}) = 1 /\ C \in SUBSET (B \cup {a})
    BY <1>4, FS_Singleton
  <2>4. n + 1 >= Cardinality(C)
    BY <1>3, <2>3, CountMore
  <2> QED
    BY <1>2, <2>2, <2>4
<1>6. CASE ~HasDirectRole(a, q)
  <2>1. count'[q] = n
    BY <1>2, <1>6 DEF Unblacklist
  <2>2. C \in SUBSET B
    BY <1>4, <1>6
  <2> QED
    BY <1>2, <1>3, <2>1, <2>2, CountSame
<1> QED
  BY <1>5, <1>6

\* Time only makes grants inactive.
LEMMA TickCount ==
    ASSUME TypeOK, RecordsAgree, NeverUndercounts, Tick
    PROVE  NeverUndercounts'
<1> SUFFICES ASSUME NEW q \in Roles, parent'[q] = None
             PROVE  count'[q] >= Cardinality(Active(q)')
  BY DEF NeverUndercounts
<1>1. parent[q] = None
  BY DEF Tick
<1>2. PICK n, B, C : n = count[q] /\ B = Active(q) /\ C = Active(q)'
  OBVIOUS
<1>3. n \in Nat /\ IsFiniteSet(B) /\ n >= Cardinality(B)
  BY <1>1, <1>2, ActiveIs DEF TypeOK, NeverUndercounts
<1>4. /\ holds' = holds /\ expiry' = expiry /\ blacklisted' = blacklisted
      /\ now' \in now + 1 .. MaxTime /\ now \in Int /\ MaxTime \in Int
      /\ \A k \in DOMAIN expiry : expiry[k] \in Int
  BY AccessNumbers DEF Tick, grants, TypeOK
<1>5. C \in SUBSET B
  BY <1>2, <1>4 DEF Active, HasDirectRole
<1>6. count'[q] = n
  BY <1>2 DEF Tick, grants
<1> QED
  BY <1>2, <1>3, <1>5, <1>6, CountSame

\* Every step keeps the counts large enough.
LEMMA CountsStep ==
    TypeOK /\ RecordsAgree /\ NeverUndercounts /\ [Next]_vars => NeverUndercounts'
<1> SUFFICES ASSUME TypeOK, RecordsAgree, NeverUndercounts, [Next]_vars
             PROVE  NeverUndercounts'
  OBVIOUS
<1>1. ASSUME UNCHANGED <<now, blacklisted, grants>>,
             \A r \in Roles : parent'[r] = None => parent[r] = None
      PROVE  NeverUndercounts'
  <2>1. \A r \in Roles : Active(r)' = Active(r) /\ count'[r] = count[r]
    BY <1>1 DEF grants, Active, HasDirectRole
  <2> QED
    BY <1>1, <2>1 DEF NeverUndercounts
<1>2. ASSUME NEW n \in Nat, NEW batch \in [1 .. n -> Accounts], NEW r \in Roles, NEW c,
             NEW d \in Durations, NEW f, GrantRoleBatch(c, batch, r, d, f)
      PROVE  NeverUndercounts'
  BY <1>2, BatchGrants, GrantsCount, TypeStep, RecordsStep
<1>3. ASSUME NEW c, NEW r \in Roles, NEW a \in Accounts,
             RevokeRole(c, r, a) \/ ExpireRole(c, r, a)
      PROVE  NeverUndercounts'
  BY <1>3, DeactivateCount DEF RevokeRole, ExpireRole
<1>4. ASSUME NEW c, NEW r \in Roles, NEW p \in Roles, SetRoleParent(c, r, p)
      PROVE  NeverUndercounts'
  <2>1. \A q \in Roles : parent'[q] = None => parent[q] = None
    BY <1>4, AccessNone DEF SetRoleParent, TypeOK
  <2> QED
    BY <1>1, <1>4, <2>1 DEF SetRoleParent
<1>5. ASSUME NEW c \in Accounts, NEW r \in Roles, NEW a \in Accounts, NEW d \in Durations,
             GrantRole(c, a, r, d)
      PROVE  NeverUndercounts'
  <2>1. <<a>> \in [1 .. 1 -> Accounts]
    OBVIOUS
  <2> QED
    BY <1>2, <1>5, <2>1 DEF GrantRole
<1>6. ASSUME NEW batch \in Batches
      PROVE  \E n \in Nat : batch \in [1 .. n -> Accounts]
  BY AccessNumbers DEF Batches
<1>7. ASSUME \/ UNCHANGED vars
             \/ \E c \in Accounts :
                  \/ Initialize(c)
                  \/ \E new \in SomeLimits : SetRoleLimits(c, new)
                  \/ \E a \in Accounts : \/ TransferSuperAdmin(c, a)
                                         \/ \E r \in Roles : SetRoleAdmin(c, r, a)
      PROVE  NeverUndercounts'
  BY <1>1, <1>7 DEF vars, Initialize, SetRoleLimits, TransferSuperAdmin, SetRoleAdmin
<1> QED
  BY <1>2, <1>3, <1>4, <1>5, <1>6, <1>7, AccessNumbers,
     TickCount, BlacklistCount, UnblacklistCount, TransferCount
     DEF Next, ManageRole, ManageAccounts

-----------------------------------------------------------------------------
(* The hierarchy.                                                          *)

\* Every walk up the hierarchy comes to an end.
WalksEnd == \A r \in Roles : \E n \in Nat : Climb(parent, r, n) = None

\* No walk that ends comes by its starting point again.
LEMMA EndedWalksDoNotReturn ==
    ASSUME NEW up, NEW r, r # None, NEW m \in Nat, Climb(up, r, m) = None,
           NEW n \in Nat \ {0}
    PROVE  Climb(up, r, n) # r
<1> SUFFICES ASSUME Climb(up, r, n) = r
             PROVE  FALSE
  OBVIOUS
<1> DEFINE S == {k \in Nat : \E j \in Nat : j >= k /\ Climb(up, r, j) = r}
<1>1. 0 \in S
  BY ClimbSteps
<1>2. ASSUME NEW k \in S
      PROVE  k + 1 \in S
  <2>1. PICK j \in Nat : j >= k /\ Climb(up, r, j) = r
    OBVIOUS
  <2>2. Climb(up, r, j + n) = Climb(up, r, n)
    BY <2>1, ClimbFurther
  <2>3. j + n \in Nat /\ j + n >= k + 1
    BY <2>1
  <2> QED
    BY <2>2, <2>3
<1>3. S \in SUBSET Nat
  OBVIOUS
<1>4. S = Nat
  <2> HIDE DEF S
  <2> QED
    BY <1>1, <1>2, <1>3, Induction
<1>5. PICK j \in Nat : j >= m /\ Climb(up, r, j) = r
  BY <1>4
<1>6. PICK k \in Nat : j = m + k
  BY <1>5, j - m \in Nat, j = m + (j - m)
<1>7. Climb(up, r, m + k) = Climb(up, None, k)
  BY ClimbFurther
<1> QED
  BY <1>5, <1>6, <1>7, ClimbStaysOut

\* Linking r below p, where the walk up from p ends without meeting r.
LEMMA LinkingKeepsEnds ==
    ASSUME NEW up \in [Roles -> Roles \cup {None}], NEW r \in Roles, NEW p \in Roles,
           NEW m \in Nat, Climb(up, p, m) = None,
           \A n \in Nat : n < m => Climb(up, p, n) # r,
           \A q \in Roles : \E n \in Nat : Climb(up, q, n) = None
    PROVE  \A q \in Roles : \E n \in Nat : Climb([up EXCEPT ![r] = p], q, n) = None
<1>1. PICK down : down = [up EXCEPT ![r] = p]
  OBVIOUS
<1>2. down[r] = p /\ \A q : q # r /\ q \in Roles => down[q] = up[q]
  BY <1>1
<1>3. \A q \in Roles, n \in Nat : Climb(up, q, n) \in Roles \cup {None}
  <2> SUFFICES ASSUME NEW q \in Roles
               PROVE  \A n \in Nat : Climb(up, q, n) \in Roles \cup {None}
    OBVIOUS
  <2> DEFINE S == {n \in Nat : Climb(up, q, n) \in Roles \cup {None}}
  <2>1. 0 \in S
    BY ClimbSteps
  <2>2. \A k \in S : k + 1 \in S
    BY ClimbSteps
  <2>3. S \in SUBSET Nat
    OBVIOUS
  <2>4. S = Nat
    <3> HIDE DEF S
    <3> QED
      BY <2>1, <2>2, <2>3, Induction
  <2> QED
    BY <2>4
<1>4. ASSUME NEW q \in Roles, NEW n \in Nat,
             \A i \in Nat : i < n => Climb(up, q, i) # r
      PROVE  Climb(down, q, n) = Climb(up, q, n)
  <2>1. \A i \in Nat : i < n => \/ Climb(up, q, i) = None
                               \/ down[Climb(up, q, i)] = up[Climb(up, q, i)]
    BY <1>2, <1>3, <1>4
  <2> QED
    BY <2>1, ClimbUnchanged
<1>5. Climb(down, p, m) = None
  BY <1>4
<1>6. Climb(down, r, 1 + m) = None
  <2>1. r # None
    BY AccessNone
  <2>2. Climb(down, r, 0 + 1) = p
    BY <1>2, <2>1, ClimbSteps
  <2>3. Climb(down, r, 1 + m) = Climb(down, Climb(down, r, 1), m)
    BY ClimbFurther
  <2> QED
    BY <1>5, <2>2, <2>3
<1>7. ASSUME NEW q \in Roles
      PROVE  \E n \in Nat : Climb(down, q, n) = None
  <2>1. PICK n \in Nat : Climb(up, q, n) = None
    OBVIOUS
  <2>2. CASE \A i \in Nat : i < n => Climb(up, q, i) # r
    BY <1>4, <2>1, <2>2
  <2>3. CASE \E i \in Nat : i < n /\ Climb(up, q, i) = r
    <3>1. PICK T \in SUBSET Nat : T = {i \in Nat : Climb(up, q, i) = r}
      OBVIOUS
    <3>2. PICK i \in T : \A j \in T : i <= j
      BY <2>3, <3>1, Least
    <3>3. i \in Nat /\ Climb(up, q, i) = r /\ \A j \in Nat : j < i => Climb(up, q, j) # r
      BY <3>1, <3>2
    <3>4. Climb(down, q, i) = r
      BY <1>4, <3>3
    <3>5. Climb(down, q, i + (1 + m)) = Climb(down, r, 1 + m)
      BY <3>3, <3>4, ClimbFurther, 1 + m \in Nat
    <3>6. i + (1 + m) \in Nat
      BY <3>3
    <3> QED
      BY <1>6, <3>5, <3>6
  <2> QED
    BY <2>2, <2>3
<1> QED
  BY <1>1, <1>7

\* Every step keeps the walks finite; only set_role_parent touches them.
LEMMA WalksStep == TypeOK /\ WalksEnd /\ [Next]_vars => WalksEnd'
<1> SUFFICES ASSUME TypeOK, WalksEnd, [Next]_vars
             PROVE  WalksEnd'
  OBVIOUS
<1>1. ASSUME NEW c, NEW r \in Roles, NEW p \in Roles, SetRoleParent(c, r, p)
      PROVE  WalksEnd'
  <2>1. PICK up, m : up = parent /\ m = MaxHierarchy - 1
    OBVIOUS
  <2>2. up \in [Roles -> Roles \cup {None}] /\ m \in Nat
    BY <2>1, AccessNumbers DEF TypeOK
  <2>3. Climb(up, p, m) = None
    BY <1>1, <2>1 DEF SetRoleParent, NoRoleParentCycle, Ancestor
  <2>4. \A n \in Nat : n < m => Climb(up, p, n) # r
    <3>1. \A n \in Nat : n < m => n \in 0 .. MaxHierarchy - 2
      BY <2>1, AccessNumbers
    <3> QED
      BY <1>1, <2>1, <3>1 DEF SetRoleParent, NoRoleParentCycle, Ancestor
  <2>5. \A q \in Roles : \E n \in Nat : Climb(up, q, n) = None
    BY <2>1 DEF WalksEnd
  <2>6. PICK down : down = [up EXCEPT ![r] = p]
    OBVIOUS
  <2>7. parent' = down
    BY <1>1, <2>1, <2>6 DEF SetRoleParent
  <2>8. \A q \in Roles : \E n \in Nat : Climb(down, q, n) = None
    <3>1. r \in Roles /\ p \in Roles
      OBVIOUS
    <3>2. \A q \in Roles : \E n \in Nat : Climb([up EXCEPT ![r] = p], q, n) = None
      BY ONLY <2>2, <2>3, <2>4, <2>5, <3>1, LinkingKeepsEnds
    <3> QED
      BY <2>6, <3>2
  <2> QED
    BY <2>7, <2>8 DEF WalksEnd
<1>2. CASE UNCHANGED parent
  BY <1>2 DEF WalksEnd
<1>3. ASSUME NEW c, NEW batch, NEW r, NEW d, NEW f, GrantRoleBatch(c, batch, r, d, f)
      PROVE  UNCHANGED parent
  BY <1>3 DEF GrantRoleBatch
<1>4. ASSUME UNCHANGED vars \/ Tick \/ ManageAccounts
      PROVE  UNCHANGED parent
  BY <1>4 DEF vars, Tick, ManageAccounts, Initialize, SetRoleLimits, Blacklist, Unblacklist,
     TransferSuperAdmin
<1>5. ASSUME NEW c, NEW r, NEW a, NEW b,
             \/ RevokeRole(c, r, a) \/ ExpireRole(c, r, a) \/ SetRoleAdmin(c, r, a)
             \/ TransferRoleMembership(c, r, a, b)
      PROVE  UNCHANGED parent
  BY <1>5 DEF RevokeRole, ExpireRole, SetRoleAdmin, TransferRoleMembership
<1>6. ASSUME NEW c, NEW a, NEW r, NEW d, GrantRole(c, a, r, d)
      PROVE  UNCHANGED parent
  BY <1>3, <1>6 DEF GrantRole
<1>7. ASSUME NEW c \in Accounts, NEW r \in Roles, NEW p \in Parents, SetRoleParent(c, r, p)
      PROVE  WalksEnd'
  BY <1>1, <1>7, AccessNumbers
<1> QED
  BY <1>2, <1>3, <1>4, <1>5, <1>6, <1>7 DEF Next, ManageRole

-----------------------------------------------------------------------------
(* The super admin and the cap on roles.                                   *)

\* The super admin is not blacklisted, and before there is one nobody is.
SuperAdminFree ==
    /\ superAdmin \notin blacklisted
    /\ superAdmin = None => blacklisted = {}

\* Every step keeps the super admin off the blacklist.
LEMMA SuperAdminStep == TypeOK /\ SuperAdminFree /\ [Next]_vars => SuperAdminFree'
<1> SUFFICES ASSUME TypeOK, SuperAdminFree, [Next]_vars
             PROVE  SuperAdminFree'
  OBVIOUS
<1>1. ASSUME UNCHANGED <<superAdmin, blacklisted>>
      PROVE  SuperAdminFree'
  BY <1>1 DEF SuperAdminFree
<1>2. ASSUME NEW a \in Accounts, Initialize(a)
      PROVE  SuperAdminFree'
  BY <1>2, AccessNone DEF Initialize, SuperAdminFree
<1>3. ASSUME NEW c \in Accounts, NEW a \in Accounts,
             Blacklist(c, a) \/ Unblacklist(c, a) \/ TransferSuperAdmin(c, a)
      PROVE  SuperAdminFree'
  BY <1>3, AccessNone DEF Blacklist, Unblacklist, TransferSuperAdmin, authority, IsSuperAdmin,
     SuperAdminFree
<1>4. ASSUME NEW c, NEW batch, NEW r, NEW d, NEW f, GrantRoleBatch(c, batch, r, d, f)
      PROVE  UNCHANGED <<superAdmin, blacklisted>>
  BY <1>4 DEF GrantRoleBatch, authority
<1>5. ASSUME UNCHANGED vars \/ Tick
      PROVE  UNCHANGED <<superAdmin, blacklisted>>
  BY <1>5 DEF vars, authority, Tick
<1>6. ASSUME NEW c, NEW r, NEW a, NEW b, NEW p,
             \/ RevokeRole(c, r, a) \/ ExpireRole(c, r, a) \/ SetRoleAdmin(c, r, a)
             \/ TransferRoleMembership(c, r, a, b) \/ SetRoleParent(c, r, p)
      PROVE  UNCHANGED <<superAdmin, blacklisted>>
  BY <1>6 DEF RevokeRole, ExpireRole, SetRoleAdmin, TransferRoleMembership, SetRoleParent,
     authority
<1>7. ASSUME NEW c, NEW a, NEW r, NEW d, GrantRole(c, a, r, d)
      PROVE  UNCHANGED <<superAdmin, blacklisted>>
  BY <1>4, <1>7 DEF GrantRole
<1>8. ASSUME ManageRole
      PROVE  UNCHANGED <<superAdmin, blacklisted>>
  BY <1>4, <1>6, <1>7, <1>8 DEF ManageRole
<1>9. ASSUME NEW c, NEW new, SetRoleLimits(c, new)
      PROVE  UNCHANGED <<superAdmin, blacklisted>>
  BY <1>9 DEF SetRoleLimits
<1> QED
  BY <1>1, <1>2, <1>3, <1>5, <1>8, <1>9 DEF Next, ManageAccounts

\* A step that lengthens the list of roles stays within the cap.
LEMMA CapStep ==
    TypeOK /\ [Next]_vars => (Len(allRoles') > Len(allRoles) => Len(allRoles') <= limits.roles)
<1> SUFFICES ASSUME TypeOK, [Next]_vars, Len(allRoles') > Len(allRoles)
             PROVE  Len(allRoles') <= limits.roles
  OBVIOUS
<1>0. PICK k \in Nat, cap \in Nat : k = Len(allRoles) /\ cap = limits.roles
  <2>1. allRoles \in Seq(Roles) /\ limits.roles \in Nat
    BY DEF TypeOK
  <2>2. Len(allRoles) \in Nat
    BY <2>1
  <2> QED
    BY <2>1, <2>2
<1>1. ASSUME NEW r \in Roles, CanTrack(r), allRoles' = Track(allRoles, r)
      PROVE  Len(allRoles') <= limits.roles
  <2>1. Len(allRoles') = IF r \in Range(allRoles) THEN k ELSE k + 1
    BY <1>0, <1>1, TrackElements DEF TypeOK
  <2>2. r \in Range(allRoles) \/ k < cap
    BY <1>0, <1>1 DEF CanTrack
  <2> QED
    BY <1>0, <2>1, <2>2
<1>2. ASSUME NEW n \in Nat, NEW batch \in [1 .. n -> Accounts], NEW r \in Roles, NEW c,
             NEW d \in Durations, NEW f, GrantRoleBatch(c, batch, r, d, f)
      PROVE  Len(allRoles') <= limits.roles
  BY <1>1, <1>2, BatchGrants DEF Grants
<1>3. ASSUME NEW c, NEW r \in Roles, NEW p \in Roles, SetRoleParent(c, r, p)
      PROVE  Len(allRoles') <= limits.roles
  <2>1. PICK t : t = Track(allRoles, r)
    OBVIOUS
  <2>2. t \in Seq(Roles) /\ Len(t) = IF r \in Range(allRoles) THEN k ELSE k + 1
    BY <1>0, <2>1, TrackElements DEF TypeOK
  <2>3. Len(allRoles') = IF p \in Range(t) THEN Len(t) ELSE Len(t) + 1
    <3>1. allRoles' = Track(t, p)
      BY <1>3, <2>1 DEF SetRoleParent
    <3>2. Len(Track(t, p)) = IF p \in Range(t) THEN Len(t) ELSE Len(t) + 1
      BY <2>2, TrackElements
    <3> QED
      BY <3>1, <3>2
  <2>4. r \in Range(allRoles) \/ k < cap
    BY <1>0, <1>3 DEF SetRoleParent, CanTrack
  <2>5. p \in Range(t) \/ Len(t) < cap
    BY <1>0, <1>3, <2>1 DEF SetRoleParent
  <2> QED
    BY <1>0, <2>2, <2>3, <2>4, <2>5
<1>4. ASSUME NEW c \in Accounts, NEW r \in Roles, NEW a \in Accounts, NEW d \in Durations,
             GrantRole(c, a, r, d)
      PROVE  Len(allRoles') <= limits.roles
  <2>1. <<a>> \in [1 .. 1 -> Accounts]
    OBVIOUS
  <2> QED
    BY <1>2, <1>4, <2>1 DEF GrantRole
<1>5. ASSUME NEW batch \in Batches
      PROVE  \E n \in Nat : batch \in [1 .. n -> Accounts]
  BY AccessNumbers DEF Batches
<1>6. ASSUME NEW c, NEW r \in Roles, NEW a \in Accounts, NEW b \in Accounts,
             SetRoleAdmin(c, r, a) \/ TransferRoleMembership(c, r, a, b)
      PROVE  Len(allRoles') <= limits.roles
  BY <1>1, <1>6 DEF SetRoleAdmin, TransferRoleMembership
<1>7. ASSUME UNCHANGED allRoles
      PROVE  FALSE
  BY <1>0, <1>7
<1>8. ASSUME \/ UNCHANGED vars \/ Tick \/ ManageAccounts
             \/ \E c \in Accounts, r \in Roles, a \in Accounts :
                  RevokeRole(c, r, a) \/ ExpireRole(c, r, a)
      PROVE  UNCHANGED allRoles
  BY <1>8 DEF vars, Tick, ManageAccounts, RevokeRole, ExpireRole, Initialize, SetRoleLimits,
     Blacklist, Unblacklist, TransferSuperAdmin
<1> QED
  BY <1>2, <1>3, <1>4, <1>5, <1>6, <1>7, <1>8, AccessNumbers DEF Next, ManageRole

-----------------------------------------------------------------------------
(* The theorems.                                                           *)

Inv == TypeOK /\ RecordsAgree /\ NeverUndercounts /\ WalksEnd /\ SuperAdminFree

\* The invariant holds at first, is kept by every step, and hence holds always.
LEMMA InvInit == Init => Inv
<1> SUFFICES ASSUME Init
             PROVE  Inv
  OBVIOUS
<1>1. TypeOK
  BY AccessNumbers DEF Init, TypeOK
<1>2. RecordsAgree
  <2>1. Range(<< >>) = {} /\ IsInjective(<< >>)
    BY DEF Range, IsInjective
  <2>2. DOMAIN expiry = {} /\ Range(parent) \ {None} = {}
    BY DEF Init, Range
  <2> QED
    BY <2>1, <2>2 DEF Init, RecordsAgree
<1>3. NeverUndercounts
  <2>1. \A r \in Roles : Active(r) = {} /\ count[r] = 0
    BY DEF Init, Active, HasDirectRole
  <2> QED
    BY <2>1, FS_EmptySet DEF NeverUndercounts
<1>4. WalksEnd
  <2>1. PICK up : up = parent
    OBVIOUS
  <2>2. ASSUME NEW r \in Roles
        PROVE  Climb(up, r, 1) = None
    <3>1. up[r] = None /\ r # None
      BY <2>1, AccessNone DEF Init
    <3>2. Climb(up, r, 0 + 1) = None
      BY <3>1, ClimbSteps
    <3> QED
      BY <3>2
  <2> QED
    BY <2>1, <2>2 DEF WalksEnd
<1>5. SuperAdminFree
  BY DEF Init, SuperAdminFree
<1> QED
  BY <1>1, <1>2, <1>3, <1>4, <1>5 DEF Inv

LEMMA InvStep == Inv /\ [Next]_vars => Inv'
  BY TypeStep, RecordsStep, CountsStep, WalksStep, SuperAdminStep DEF Inv

LEMMA Invariance == Spec => []Inv
  BY InvInit, InvStep, PTL DEF Spec

\* Every storage entry keeps its type.
THEOREM TypeCorrect == Spec => []TypeOK
<1>1. Inv => TypeOK
  BY DEF Inv
<1> QED
  BY <1>1, Invariance, PTL

\* The four records of a grant and the list of roles agree after any history
\* of grants, batches, transfers, revocations and expiries.
THEOREM RecordsStayExact == Spec => []RecordsAgree
<1>1. Inv => RecordsAgree
  BY DEF Inv
<1> QED
  BY <1>1, Invariance, PTL

\* RoleMemberCount of a role without parents is never below the number of
\* accounts that hold it by a grant of their own.
THEOREM CountsSuffice == Spec => []NeverUndercounts
<1>1. Inv => NeverUndercounts
  BY DEF Inv
<1> QED
  BY <1>1, Invariance, PTL

\* However set_role_parent is called, no role becomes its own ancestor.
THEOREM NoCircle == Spec => []HierarchyAcyclic
<1>1. Inv => HierarchyAcyclic
  <2> SUFFICES ASSUME Inv, NEW r \in Roles, NEW n \in 1 .. Cardinality(Roles)
               PROVE  Climb(parent, r, n) # r
    BY DEF HierarchyAcyclic, Ancestor
  <2>1. PICK up : up = parent
    OBVIOUS
  <2>2. PICK m \in Nat : Climb(up, r, m) = None
    BY <2>1 DEF Inv, WalksEnd
  <2>3. r # None
    BY AccessNone
  <2>4. n \in Nat \ {0}
    OBVIOUS
  <2>5. Climb(up, r, n) # r
    BY <2>2, <2>3, <2>4, EndedWalksDoNotReturn
  <2> QED
    BY <2>1, <2>5
<1> QED
  BY <1>1, Invariance, PTL

\* Blacklisting and transfers never leave a super admin who is barred.
THEOREM NeverLockedOut == Spec => []SuperAdminCanAct
<1>1. Inv => SuperAdminCanAct
  BY DEF Inv, SuperAdminFree, SuperAdminCanAct, IsSuperAdmin
<1> QED
  BY <1>1, Invariance, PTL

\* No call lists more roles than the limit in force allows.
THEOREM CapOnRoles == Spec => RolesWithinCap
<1>1. Inv /\ [Next]_vars
        => [Len(allRoles') > Len(allRoles) => Len(allRoles') <= limits.roles]_vars
  BY CapStep DEF Inv
<1> QED
  BY <1>1, Invariance, PTL DEF Spec, RolesWithinCap

\* get_role_members and is_role_expired account for every recorded member of a
\* role, and whoever holds a role, also by inheritance, holds it by a grant that
\* has not run out and is on the list of the account.
THEOREM NobodyLeftOut == Spec => []MembersAccountedFor
<1>1. Inv => MembersAccountedFor
  <2> SUFFICES ASSUME Inv, NEW r \in Roles, NEW a \in Accounts
               PROVE  /\ a \in Range(members[r]) =>
                           \/ a \in Range(RoleMembers(r))
                           \/ IsRoleExpired(r, a)
                           \/ a \in blacklisted
                      /\ ~(a \in Range(RoleMembers(r)) /\ IsRoleExpired(r, a))
                      /\ a \in Range(RoleMembers(r)) => a \in Range(members[r]) \ blacklisted
                      /\ HasRole(a, r) =>
                           \E q \in Range(addressRoles[a]) : q \in Lineage(r) /\ ~IsRoleExpired(q, a)
    BY DEF MembersAccountedFor
  <2>1. /\ members[r] \in Seq(Accounts) /\ now \in Nat
        /\ \A p \in DOMAIN expiry : expiry[p] \in Nat
        /\ holds \subseteq Roles \X Accounts
    BY AccessNumbers DEF Inv, TypeOK
  <2>2. /\ DOMAIN expiry = holds
        /\ a \in Range(members[r]) <=> <<r, a>> \in holds
        /\ \A q \in Roles : q \in Range(addressRoles[a]) <=> <<q, a>> \in holds
    BY DEF Inv, RecordsAgree
  <2>3. a \in Range(RoleMembers(r)) <=> a \in Range(members[r]) /\ HasRole(a, r)
    <3>1. PICK s, T : s = members[r] /\ T = {b \in Accounts : HasRole(b, r)}
      OBVIOUS
    <3>2. s \in Seq(Accounts) /\ (a \in T <=> HasRole(a, r))
      BY <2>1, <3>1
    <3>3. Range(Among(s, T)) = Range(s) \cap T
      BY <3>2, AmongElements
    <3>4. RoleMembers(r) = Among(s, T)
      BY <3>1 DEF RoleMembers
    <3> QED
      BY <3>1, <3>2, <3>3, <3>4
  <2>4. r \in Lineage(r)
    <3>1. PICK up : up = parent
      OBVIOUS
    <3>2. Climb(up, r, 0) = r /\ r # None
      BY ClimbSteps, AccessNone
    <3>3. 0 \in 0 .. MaxHierarchy - 1
      BY AccessNumbers
    <3> QED
      BY <3>1, <3>2, <3>3 DEF Lineage, Ancestor
  <2>5. ASSUME a \in Range(members[r]), a \notin blacklisted, ~HasRole(a, r)
        PROVE  IsRoleExpired(r, a)
    <3>1. ~HasDirectRole(a, r) /\ <<r, a>> \in DOMAIN expiry
      BY <2>2, <2>4, <2>5 DEF HasRole
    <3>2. now > expiry[<<r, a>>]
      BY <2>1, <2>2, <3>1 DEF HasDirectRole
    <3> QED
      BY <2>5, <3>1, <3>2 DEF IsRoleExpired
  <2>6. ASSUME HasRole(a, r)
        PROVE  \E q \in Range(addressRoles[a]) : q \in Lineage(r) /\ ~IsRoleExpired(q, a)
    <3>1. PICK q \in Lineage(r) : HasDirectRole(a, q)
      BY <2>6 DEF HasRole
    <3>2. <<q, a>> \in holds /\ q \in Roles /\ <<q, a>> \in DOMAIN expiry
      BY <2>1, <2>2, <3>1 DEF HasDirectRole
    <3>3. now <= expiry[<<q, a>>]
      BY <3>1, <3>2 DEF HasDirectRole
    <3>4. ~IsRoleExpired(q, a)
      BY <2>1, <3>2, <3>3 DEF IsRoleExpired
    <3> QED
      BY <2>2, <3>2, <3>4
  <2>7. ~(HasRole(a, r) /\ IsRoleExpired(r, a)) /\ (HasRole(a, r) => a \notin blacklisted)
    BY DEF IsRoleExpired, HasRole
  <2> QED
    BY <2>3, <2>5, <2>6, <2>7
<1> QED
  BY <1>1, Invariance, PTL

=============================================================================
