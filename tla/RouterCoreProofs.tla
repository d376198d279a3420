-------------------------- MODULE RouterCoreProofs --------------------------
(***************************************************************************)
(* Proofs about RouterCore, for every set of names, contracts and scores,  *)
(* every cap and every recursion limit.                                    *)
(*                                                                         *)
(* Inv joins the properties the runs check with two facts they rest on:    *)
(* the weights divide (a score is a number), and BestKnown, which says of  *)
(* the cached best route what each recomputation establishes and what      *)
(* every other step keeps.                                                 *)
(***************************************************************************)
EXTENDS RouterCore, VectorLemmas

-----------------------------------------------------------------------------
(* The best of a list, apart from where it is kept.                        *)

\* Composite, for scores sc.
Points(sc, w, n) == w.liquidity * sc[n].liquidity
                    + w.reliability * sc[n].reliability
                    - sc[n].fee \div w.divisor

\* No position of F beats i: a higher score wins, then the earlier position.
IsTop(i, F, s, sc, w) ==
    \A j \in F : \/ Points(sc, w, s[i]) > Points(sc, w, s[j])
                 \/ Points(sc, w, s[i]) = Points(sc, w, s[j]) /\ i <= j

\* Winner, with the positions that contend given as a set.
Top(F, s, sc, w) == IF F = {} THEN None ELSE s[CHOOSE i \in F : IsTop(i, F, s, sc, w)]

\* b is a contender of s, one of the positions C, or there is no live one, of
\* the positions L; and if it is live, no other live one beats it.
Leads(b, C, L, s, sc, w) ==
    /\ b # None => \E i \in C : b = s[i] /\ (i \in L => IsTop(i, L, s, sc, w))
    /\ b = None => L = {}

LEMMA PointsType ==
    ASSUME NEW sc, NEW w, NEW n, sc[n] \in Scores, w \in Weights \cup {DefaultWeights}, w.divisor > 0
    PROVE  Points(sc, w, n) \in Int
<1>1. PICK x \in Int, y \in Int, d \in Int :
         w.liquidity = x /\ w.reliability = y /\ w.divisor = d /\ d > 0
  BY ScoreAssumption
<1>2. PICK p \in Nat, q \in Nat, r \in Nat :
         sc[n].liquidity = p /\ sc[n].fee = q /\ sc[n].reliability = r
  BY ScoreAssumption
<1>3. x * p \in Int /\ y * r \in Int /\ q \div d \in Int
  BY <1>1
<1>4. Points(sc, w, n) = x * p + y * r - q \div d
  BY <1>1, <1>2 DEF Points
<1> QED
  BY <1>3, <1>4

\* The winner is the only one that no other beats.
LEMMA TopIs ==
    ASSUME NEW N, NEW s \in Seq(N), NEW F \in SUBSET DOMAIN s, NEW sc, NEW w,
           \A i \in F : Points(sc, w, s[i]) \in Int
    PROVE  /\ F # {} => \E i \in F : Top(F, s, sc, w) = s[i] /\ IsTop(i, F, s, sc, w)
           /\ \A i \in F : IsTop(i, F, s, sc, w) => Top(F, s, sc, w) = s[i]
           /\ F = {} => Top(F, s, sc, w) = None
<1>1. PICK n \in Nat : DOMAIN s = 1 .. n
  OBVIOUS
<1>2. ASSUME F # {}
      PROVE  \E i \in F : IsTop(i, F, s, sc, w)
  <2>1. PICK g : g = [i \in F |-> Points(sc, w, s[i])]
    OBVIOUS
  <2>2. \A i \in F : g[i] = Points(sc, w, s[i]) /\ g[i] \in Int
    BY <2>1
  <2>3. PICK i \in F : \A j \in F : g[i] > g[j] \/ (g[i] = g[j] /\ i <= j)
    <3>1. F \in SUBSET (1 .. n) /\ F # {} /\ \A i \in F : g[i] \in Int
      BY <1>1, <1>2, <2>2
    <3> QED
      BY <3>1, FirstGreatest
  <2> QED
    BY <2>2, <2>3 DEF IsTop
<1>3. PICK c : c = CHOOSE i \in F : IsTop(i, F, s, sc, w)
  OBVIOUS
<1>4. F # {} => c \in F /\ IsTop(c, F, s, sc, w) /\ Top(F, s, sc, w) = s[c]
  BY <1>2, <1>3 DEF Top
<1>5. ASSUME NEW i \in F, IsTop(i, F, s, sc, w)
      PROVE  c = i
  <2>1. /\ c \in F /\ IsTop(c, F, s, sc, w)
        /\ Points(sc, w, s[i]) \in Int /\ Points(sc, w, s[c]) \in Int
        /\ i \in Int /\ c \in Int
    BY <1>1, <1>4
  <2> QED
    BY <1>5, <2>1 DEF IsTop
<1>6. F = {} => Top(F, s, sc, w) = None
  BY DEF Top
<1> QED
  BY <1>4, <1>5, <1>6

\* A recomputation leads, whether it lets expired routes win or not.
LEMMA RecomputedLeads ==
    ASSUME NEW N, None \notin N, NEW s \in Seq(N), NEW C \in SUBSET DOMAIN s, NEW L \in SUBSET C,
           NEW sc, NEW w, \A i \in C : Points(sc, w, s[i]) \in Int,
           NEW b, b = Top(C, s, sc, w) \/ b = Top(L, s, sc, w)
    PROVE  Leads(b, C, L, s, sc, w) /\ b \in N \cup {None}
<1>1. \A i \in C : s[i] \in N /\ s[i] # None
  OBVIOUS
<1>2. CASE b = Top(C, s, sc, w)
  <2>1. CASE C = {}
    BY <1>2, <2>1 DEF Leads, Top
  <2>2. CASE C # {}
    <3>1. PICK i \in C : b = s[i] /\ IsTop(i, C, s, sc, w)
      BY <1>2, <2>2, TopIs
    <3>2. IsTop(i, L, s, sc, w)
      BY <3>1 DEF IsTop
    <3> QED
      BY <1>1, <3>1, <3>2 DEF Leads
  <2> QED
    BY <2>1, <2>2
<1>3. CASE b = Top(L, s, sc, w)
  <2>1. CASE L = {}
    BY <1>3, <2>1 DEF Leads, Top
  <2>2. CASE L # {}
    <3>0. L \in SUBSET DOMAIN s /\ \A i \in L : Points(sc, w, s[i]) \in Int
      OBVIOUS
    <3>1. PICK i \in L : b = s[i] /\ IsTop(i, L, s, sc, w)
      BY <1>3, <2>2, <3>0, TopIs
    <3> QED
      BY <1>1, <3>1 DEF Leads
  <2> QED
    BY <2>1, <2>2
<1> QED
  BY <1>2, <1>3

\* The leader still leads when live routes expire, and when the list grows by
\* routes that do not contend.
LEMMA StillLeads ==
    ASSUME NEW b, NEW C, NEW L, NEW s, NEW K, NEW t, NEW sc, NEW w,
           Leads(b, C, L, s, sc, w), L \subseteq C, K \subseteq L,
           \A i \in C : t[i] = s[i]
    PROVE  Leads(b, C, K, t, sc, w)
<1>1. CASE b = None
  BY <1>1 DEF Leads
<1>2. CASE b # None
  <2>1. PICK i \in C : b = s[i] /\ (i \in L => IsTop(i, L, s, sc, w))
    BY <1>2 DEF Leads
  <2>2. i \in K => IsTop(i, K, t, sc, w)
    BY <2>1 DEF IsTop, Points
  <2> QED
    BY <1>2, <2>1, <2>2 DEF Leads
<1> QED
  BY <1>1, <1>2

-----------------------------------------------------------------------------
(* The inductive invariant, in the parts that steps change together.       *)

\* Positions of names at which contenders and live contenders stand.
Contenders == {i \in DOMAIN names : Contender(names[i])}
LiveContenders == {i \in DOMAIN names : LiveContender(names[i])}

BestKnown == Leads(best, Contenders, LiveContenders, names, score, weights)

Settled ==
    /\ now \in 0 .. MaxLedger
    /\ admin \in Addresses \cup {None}
    /\ paused \in BOOLEAN
    /\ maxRoutes \in Nat \ {0}
    /\ weights \in Weights \cup {DefaultWeights} /\ weights.divisor > 0
    /\ totalRouted \in 0 .. MaxRouted

Listed ==
    /\ routes \in [DOMAIN routes -> Entries] /\ DOMAIN routes \subseteq WellFormed
    /\ names \in Seq(Names) /\ IsInjective(names) /\ Range(names) = DOMAIN routes
    /\ count = Len(names)

Aliased ==
    /\ alias \in [DOMAIN alias -> Names] /\ DOMAIN alias \subseteq WellFormed
    /\ aliases \in Seq(Names) /\ IsInjective(aliases) /\ Range(aliases) = DOMAIN alias
    /\ DOMAIN alias \cap DOMAIN routes = {}
    /\ \A a \in DOMAIN alias : alias[a] \in DOMAIN routes

Linked ==
    /\ dependencies \in [Names -> Seq(Names)]
    /\ dependents \in [Names -> SUBSET Names]
    /\ \A n \in Names : IsInjective(dependencies[n])
    /\ EdgesMirrored
    /\ DependenciesAcyclic

Attached ==
    /\ tags \in [DOMAIN tags -> SUBSET Tags] /\ DOMAIN tags \subseteq DOMAIN routes
    /\ score \in [DOMAIN score -> Scores] /\ DOMAIN score \subseteq DOMAIN routes

Ranked == best \in Names \cup {None} /\ BestKnown

Inv == Settled /\ Listed /\ Aliased /\ Linked /\ Attached /\ Ranked

LEMMA BestIsTop ==
    /\ BestContender = Top(Contenders, names, score, weights)
    /\ BestLiveContender = Top(LiveContenders, names, score, weights)
    /\ BestContender' = Top(Contenders', names', score', weights')
    /\ BestLiveContender' = Top(LiveContenders', names', score', weights')
  BY DEF BestContender, BestLiveContender, Winner, Composite, Top, IsTop, Points,
     Contenders, LiveContenders

LEMMA InvProperties == Inv => IndexesExact /\ NamesUnambiguous /\ GraphSound
<1> SUFFICES ASSUME Inv PROVE IndexesExact /\ NamesUnambiguous /\ GraphSound
  OBVIOUS
<1>1. TypeOK
  <2>1. count \in Nat
    BY DEF Inv, Listed
  <2> QED
    BY <2>1 DEF Inv, TypeOK, Settled, Listed, Aliased, Linked, Attached, Ranked
<1>2. IndexesExact
  BY <1>1 DEF Inv, IndexesExact, Listed, Aliased, Linked, Attached
<1>3. NamesUnambiguous
  BY DEF Inv, NamesUnambiguous, Aliased, Range
<1>4. GraphSound
  BY DEF Inv, GraphSound, Linked
<1> QED
  BY <1>2, <1>3, <1>4

\* Scores are numbers.
LEMMA ContendersScored ==
    ASSUME Settled, Listed, Attached
    PROVE  /\ Contenders \in SUBSET DOMAIN names
           /\ LiveContenders \in SUBSET Contenders
           /\ \A i \in Contenders : Points(score, weights, names[i]) \in Int
<1>1. \A i \in Contenders : score[names[i]] \in Scores
  BY DEF Attached, Contenders, Contender
<1>2. \A i \in Contenders : Points(score, weights, names[i]) \in Int
  BY <1>1, PointsType DEF Settled
<1> QED
  BY <1>2 DEF Contenders, LiveContenders, LiveContender

LEMMA BestCurrent == Inv => BestRouteCurrent
<1> SUFFICES ASSUME Inv PROVE BestRouteCurrent
  OBVIOUS
<1>1. /\ Contenders \in SUBSET DOMAIN names
      /\ LiveContenders \in SUBSET Contenders
      /\ \A i \in Contenders : Points(score, weights, names[i]) \in Int
  BY ContendersScored DEF Inv
<1>2. names \in Seq(Names) /\ DOMAIN routes \subseteq Names /\ None \notin DOMAIN routes
  BY NoneAssumption, NameAssumption DEF Inv, Listed
<1>3. best # None => Contender(best)
  BY <1>1 DEF Inv, Ranked, BestKnown, Leads, Contenders
<1>4. CachedBest # None => CachedBest = BestLiveContender
  <2> SUFFICES ASSUME CachedBest # None PROVE CachedBest = BestLiveContender
    OBVIOUS
  <2>1. CachedBest = best /\ best # None /\ ~Expired(best)
    BY <1>2 DEF CachedBest
  <2>2. PICK i \in Contenders : /\ best = names[i]
                                /\ i \in LiveContenders =>
                                     IsTop(i, LiveContenders, names, score, weights)
    BY <2>1 DEF Inv, Ranked, BestKnown, Leads
  <2>3. i \in LiveContenders
    BY <2>1, <2>2 DEF Contenders, LiveContenders, LiveContender
  <2>4. /\ LiveContenders \in SUBSET DOMAIN names
        /\ \A j \in LiveContenders : Points(score, weights, names[j]) \in Int
    BY <1>1
  <2>5. Top(LiveContenders, names, score, weights) = names[i]
    BY <1>2, <2>2, <2>3, <2>4, TopIs
  <2> QED
    BY <2>1, <2>2, <2>5, BestIsTop
<1>5. best = None => BestLiveContender = None
  BY BestIsTop DEF Inv, Ranked, BestKnown, Leads, Top
<1>6. weights = DefaultWeights => GetBestRoute(names, None, None) = BestLiveContender
  BY DEF GetBestRoute, BestLiveContender
<1> QED
  BY <1>3, <1>4, <1>5, <1>6 DEF BestRouteCurrent

-----------------------------------------------------------------------------
(* Steps that leave a part alone keep it.                                  *)

\* A recomputation at the end of a step ranks the routes as they then are.
LEMMA Recomputed ==
    ASSUME Settled', Listed', Attached', best' = BestContender' \/ best' = BestLiveContender'
    PROVE  Ranked'
<1>1. \A i \in Contenders' : score'[names'[i]] \in Scores
  BY DEF Attached, Contenders, Contender
<1>2. \A i \in Contenders' : Points(score', weights', names'[i]) \in Int
  BY <1>1, PointsType DEF Settled
<1>3. Contenders' \in SUBSET DOMAIN names' /\ LiveContenders' \in SUBSET Contenders'
  BY DEF Contenders, LiveContenders, LiveContender
<1>4. names' \in Seq(Names) /\ None \notin Names
  BY NoneAssumption DEF Listed
<1>5. \/ best' = Top(Contenders', names', score', weights')
      \/ best' = Top(LiveContenders', names', score', weights')
  BY BestIsTop
<1>6. /\ Leads(best', Contenders', LiveContenders', names', score', weights')
      /\ best' \in Names \cup {None}
  <2> HIDE DEF Contenders, LiveContenders
  <2> QED
    BY <1>2, <1>3, <1>4, <1>5, RecomputedLeads
<1> QED
  BY <1>6 DEF Ranked, BestKnown

\* Without one, the best route stays known while no other route becomes live,
\* no scored one is paused or resumed, and the names keep their places.
LEMMA StaysRanked ==
    ASSUME Ranked, best' = best, weights' = weights, score' = score,
           names \in Seq(Names), names' \in Seq(Names), Len(names) <= Len(names'),
           \A i \in DOMAIN names : /\ names'[i] = names[i]
                                   /\ Contender(names[i])' <=> Contender(names[i])
                                   /\ LiveContender(names[i])' => LiveContender(names[i]),
           \A i \in DOMAIN names' \ DOMAIN names : names'[i] \notin DOMAIN score'
    PROVE  Ranked'
<1>1. DOMAIN names \subseteq DOMAIN names'
  OBVIOUS
<1>2. Contenders' = Contenders
  BY <1>1 DEF Contenders, Contender
<1>3. LiveContenders' \subseteq LiveContenders /\ LiveContenders \subseteq Contenders
  BY <1>1 DEF LiveContenders, Contenders, LiveContender, Contender
<1>4. \A i \in Contenders : names'[i] = names[i]
  BY DEF Contenders
<1>5. Leads(best, Contenders, LiveContenders', names', score, weights)
  <2> HIDE DEF Contenders, LiveContenders
  <2> QED
    BY <1>3, <1>4, StillLeads DEF Ranked, BestKnown
<1> QED
  BY <1>2, <1>5 DEF Ranked, BestKnown

LEMMA SameRanked ==
    ASSUME Ranked, best' = best, weights' = weights, score' = score, names' = names,
           routes' = routes, now' = now
    PROVE  Ranked'
  BY DEF Ranked, BestKnown, Contenders, LiveContenders, LiveContender, Contender, Expired

LEMMA SameListed == ASSUME Listed, UNCHANGED directory PROVE Listed'
  BY DEF Listed, directory

LEMMA SameAliased == ASSUME Aliased, UNCHANGED aliasing, DOMAIN routes' = DOMAIN routes PROVE Aliased'
  BY DEF Aliased, aliasing

LEMMA SameLinked ==
    ASSUME Linked, UNCHANGED graph, DOMAIN routes \subseteq DOMAIN routes'
    PROVE  Linked'
<1>1. dependencies' = dependencies /\ dependents' = dependents
  BY DEF graph
<1>2. EdgesMirrored'
  BY <1>1 DEF Linked, EdgesMirrored
<1>3. DependenciesAcyclic'
  BY <1>1 DEF Linked, DependenciesAcyclic
<1> QED
  BY <1>1, <1>2, <1>3 DEF Linked

LEMMA SameSettled == ASSUME Settled, UNCHANGED <<now, settings>> PROVE Settled'
  BY DEF Settled, settings

LEMMA SameAttached ==
    ASSUME Attached, tags' = tags, score' = score, DOMAIN routes \subseteq DOMAIN routes'
    PROVE  Attached'
  BY DEF Attached

-----------------------------------------------------------------------------
(* Registration.                                                           *)

LEMMA InvInit == Init => Inv
<1> SUFFICES ASSUME Init PROVE Inv
  OBVIOUS
<1>1. /\ routes = << >> /\ names = << >> /\ alias = << >> /\ aliases = << >>
      /\ tags = << >> /\ score = << >> /\ best = None
  BY DEF Init
<1>2. /\ DOMAIN routes = {} /\ DOMAIN names = {} /\ DOMAIN alias = {} /\ DOMAIN aliases = {}
      /\ DOMAIN tags = {} /\ DOMAIN score = {}
  BY <1>1
<1>3. Settled
  <2>1. MaxLedger \in Nat /\ MaxRouted \in Nat /\ DefaultMaxRoutes \in Nat /\ DefaultMaxRoutes > 0
    BY NumberAssumption
  <2>2. now \in 0 .. MaxLedger /\ totalRouted \in 0 .. MaxRouted /\ maxRoutes \in Nat \ {0}
    BY <2>1 DEF Init
  <2> QED
    BY <2>2, ScoreAssumption DEF Init, Settled
<1>4. Listed
  <2>1. routes \in [DOMAIN routes -> Entries]
    BY <1>1, <1>2
  <2>2. names \in Seq(Names) /\ count = Len(names)
    BY <1>1 DEF Init
  <2> QED
    BY <1>2, <2>1, <2>2 DEF Listed, IsInjective, Range
<1>5. Aliased
  <2>1. alias \in [DOMAIN alias -> Names] /\ aliases \in Seq(Names)
    BY <1>1, <1>2
  <2> QED
    BY <1>2, <2>1 DEF Aliased, IsInjective, Range
<1>6. Linked
  <2>1. /\ dependencies \in [Names -> Seq(Names)] /\ dependents \in [Names -> SUBSET Names]
        /\ \A n \in Names : dependencies[n] = << >> /\ dependents[n] = {}
    BY DEF Init
  <2>2. \A n \in Names : DOMAIN dependencies[n] = {}
    BY <2>1
  <2>3. \A n \in Names : IsInjective(dependencies[n]) /\ Range(dependencies[n]) = {}
    BY <2>2 DEF IsInjective, Range
  <2>4. EdgesMirrored
    BY <2>1, <2>3 DEF EdgesMirrored
  <2>5. DependenciesAcyclic
    BY <2>3 DEF DependenciesAcyclic
  <2> QED
    BY <2>1, <2>3, <2>4, <2>5 DEF Linked
<1>7. Attached
  <2>1. tags \in [DOMAIN tags -> SUBSET Tags] /\ score \in [DOMAIN score -> Scores]
    BY <1>1, <1>2
  <2> QED
    BY <1>2, <2>1 DEF Attached
<1>8. Ranked
  <2>1. LiveContenders = {}
    BY <1>2 DEF LiveContenders
  <2> QED
    BY <1>1, <2>1 DEF Ranked, BestKnown, Leads
<1> QED
  BY <1>3, <1>4, <1>5, <1>6, <1>7, <1>8 DEF Inv

\* Routes entered under available names keep the directory exact.
LEMMA Entering ==
    ASSUME Inv, NEW fresh \in Seq(Names), IsInjective(fresh),
           \A n \in Range(fresh) : Available(n),
           NEW entry, \A n \in Range(fresh) : entry[n] \in Entries,
           EnterRoutes(fresh, entry)
    PROVE  /\ Listed'
           /\ DOMAIN routes' = DOMAIN routes \cup Range(fresh)
           /\ UNCHANGED aliasing => Aliased'
<1> USE DEF Inv
<1>1. /\ names' = names \o fresh /\ count' = count + Len(fresh)
      /\ DOMAIN routes' = DOMAIN routes \cup Range(fresh)
      /\ \A n \in DOMAIN routes' :
            routes'[n] = IF n \in DOMAIN routes THEN routes[n] ELSE entry[n]
  BY DEF EnterRoutes
<1>2. \A n \in Range(fresh) : n \in WellFormed /\ n \notin DOMAIN routes /\ n \notin DOMAIN alias
  BY DEF Available
<1>3. routes' \in [DOMAIN routes' -> Entries] /\ DOMAIN routes' \subseteq WellFormed
  <2>1. routes' = [n \in DOMAIN routes' |-> routes'[n]]
    BY <1>1 DEF EnterRoutes
  <2>2. \A n \in DOMAIN routes' : routes'[n] \in Entries
    BY <1>1 DEF Listed
  <2> QED
    BY <1>1, <1>2, <2>1, <2>2 DEF Listed
<1>4. /\ names' \in Seq(Names) /\ IsInjective(names') /\ Range(names') = DOMAIN routes'
      /\ Len(names') = Len(names) + Len(fresh)
  <2>1. Range(names) \cap Range(fresh) = {} /\ names \in Seq(Names) /\ IsInjective(names)
    BY <1>2 DEF Listed
  <2>2. /\ names \o fresh \in Seq(Names) /\ IsInjective(names \o fresh)
        /\ Range(names \o fresh) = Range(names) \cup Range(fresh)
    BY <2>1, ConcatElements
  <2>3. Len(names \o fresh) = Len(names) + Len(fresh)
    BY <2>1
  <2> QED
    BY <1>1, <2>2, <2>3 DEF Listed
<1>5. Listed'
  BY <1>1, <1>3, <1>4 DEF Listed
<1>6. UNCHANGED aliasing => Aliased'
  <2> SUFFICES ASSUME UNCHANGED aliasing PROVE Aliased'
    OBVIOUS
  <2>1. alias' = alias /\ aliases' = aliases
    BY DEF aliasing
  <2> QED
    BY <1>1, <1>2, <2>1 DEF Aliased
<1> QED
  BY <1>1, <1>5, <1>6

\* A route that is entered has no score, so that the best one stays the best.
LEMMA EnteringRanked ==
    ASSUME Inv, NEW fresh \in Seq(Names), \A n \in Range(fresh) : Available(n),
           NEW entry, EnterRoutes(fresh, entry), Listed',
           UNCHANGED <<now, weights, score, best>>
    PROVE  Ranked'
<1>1. /\ names \in Seq(Names) /\ names' \in Seq(Names) /\ names' = names \o fresh
  BY DEF Inv, Listed, EnterRoutes
<1>2. PICK m \in Nat, k \in Nat : /\ m = Len(names) /\ k = Len(fresh)
                                 /\ DOMAIN names = 1 .. m /\ DOMAIN fresh = 1 .. k
  BY <1>1
<1>3. /\ Len(names') = m + k /\ DOMAIN names' = 1 .. m + k
      /\ \A i \in 1 .. m : names'[i] = names[i]
      /\ \A i \in 1 .. m + k : i \in 1 .. m \/ (i - m \in 1 .. k /\ names'[i] = fresh[i - m])
  BY <1>1, <1>2
<1>4. \A i \in DOMAIN names : names[i] \in DOMAIN routes
  BY DEF Inv, Listed, Range
<1>5. \A n \in DOMAIN routes : n \in DOMAIN routes' /\ routes'[n] = routes[n]
  BY DEF EnterRoutes
<1>6. \A i \in DOMAIN names : /\ Contender(names[i])' <=> Contender(names[i])
                              /\ LiveContender(names[i])' => LiveContender(names[i])
  BY <1>2, <1>3, <1>4, <1>5 DEF Contender, LiveContender, Expired
<1>7. \A i \in DOMAIN names' \ DOMAIN names : names'[i] \notin DOMAIN score'
  <2>1. \A n \in Range(fresh) : n \notin DOMAIN score
    BY DEF Inv, Attached, Available
  <2>2. \A i \in 1 .. k : fresh[i] \in Range(fresh)
    BY <1>2 DEF Range
  <2> QED
    BY <1>2, <1>3, <2>1, <2>2
<1> QED
  BY <1>1, <1>2, <1>3, <1>6, <1>7, StaysRanked DEF Inv

LEMMA RegisterStep ==
    ASSUME Inv, NEW n \in Names, NEW address \in Contracts, NEW metadata \in Metadata \cup {None},
           NEW expires \in (0 .. MaxLedger) \cup {None},
           Register(n, address, metadata, expires)
    PROVE  Inv'
<1>1. PICK fresh, entry : /\ fresh = <<n>>
                          /\ entry = [m \in {n} |-> [address |-> address, paused |-> FALSE,
                                                     expires |-> expires]]
                          /\ EnterRoutes(fresh, entry)
  BY DEF Register
<1>2. /\ Available(n) /\ address # ZeroAddress
      /\ tags' = IF metadata = None THEN tags ELSE Put(tags, n, metadata)
      /\ UNCHANGED <<now, settings>> /\ UNCHANGED aliasing /\ UNCHANGED graph
      /\ score' = score /\ best' = best
  BY DEF Register
<1>3. /\ fresh \in Seq(Names) /\ IsInjective(fresh) /\ Range(fresh) = {n}
      /\ entry[n] \in Entries
  <2>1. DOMAIN fresh = {1} /\ fresh[1] = n
    BY <1>1
  <2> QED
    BY <1>1, <1>2, <2>1 DEF IsInjective, Range, Entries
<1>4. Listed' /\ Aliased' /\ DOMAIN routes' = DOMAIN routes \cup {n}
  BY <1>1, <1>2, <1>3, Entering
<1>5. Attached'
  <2>1. metadata # None => metadata \in SUBSET Tags
    BY MetadataAssumption
  <2>2. tags' \in [DOMAIN tags' -> SUBSET Tags] /\ DOMAIN tags' \subseteq DOMAIN routes'
    BY <1>2, <1>4, <2>1 DEF Inv, Attached, Put
  <2> QED
    BY <1>2, <1>4, <2>2 DEF Inv, Attached
<1>6. Settled' /\ Linked'
  BY <1>2, <1>4, SameSettled, SameLinked DEF Inv
<1>7. Ranked'
  <2>1. now' = now /\ weights' = weights
    BY <1>2 DEF settings
  <2> QED
    BY <1>1, <1>2, <1>3, <1>4, <2>1, EnteringRanked
<1> QED
  BY <1>4, <1>5, <1>6, <1>7 DEF Inv

\* What register_routes_batch accepts: available names, each once, and no more
\* than there is room for.
LEMMA AcceptedItems ==
    ASSUME Inv, NEW items \in Seq(Items), NEW failFast \in BOOLEAN
    PROVE  /\ Accepted(items, failFast) \in SUBSET DOMAIN items
           /\ \A i \in Accepted(items, failFast) :
                 Available(items[i].name) /\ items[i].address # ZeroAddress
           /\ \A i, j \in Accepted(items, failFast) : items[i].name = items[j].name => i = j
           /\ Accepted(items, failFast) # {} =>
                 count + Cardinality(Accepted(items, failFast)) <= maxRoutes
<1> DEFINE valid(i) == Available(items[i].name) /\ items[i].address # ZeroAddress
           sound == {i \in DOMAIN items : valid(i) /\ \A j \in 1 .. i - 1 :
                        items[j].name = items[i].name => ~valid(j)}
           before(i) == {j \in sound : j < i}
           taken == {i \in sound : count + Cardinality(before(i)) < maxRoutes}
<1>1. PICK n \in Nat : DOMAIN items = 1 .. n
  OBVIOUS
<1>2. Accepted(items, failFast) = {} \/ Accepted(items, failFast) = taken
  BY DEF Accepted
<1>3. sound \in SUBSET (1 .. n) /\ taken \in SUBSET sound /\ \A i \in sound : valid(i)
  BY <1>1
<1>4. ASSUME NEW i \in sound, NEW j \in sound, items[i].name = items[j].name
      PROVE  i = j
  <2>1. i \in 1 .. n /\ j \in 1 .. n /\ valid(i) /\ valid(j)
    BY <1>3
  <2>2. i < j => i \in 1 .. j - 1
    BY <2>1
  <2>3. j < i => j \in 1 .. i - 1
    BY <2>1
  <2>4. ~(i < j) /\ ~(j < i)
    BY <1>4, <2>1, <2>2, <2>3
  <2> QED
    BY <2>1, <2>4
<1>5. taken # {} => count + Cardinality(taken) <= maxRoutes
  <2> SUFFICES ASSUME taken # {} PROVE count + Cardinality(taken) <= maxRoutes
    OBVIOUS
  <2>1. PICK last \in taken : \A i \in taken : i <= last
    <3>1. PICK g : g = [i \in 1 .. n |-> i]
      OBVIOUS
    <3>2. taken \in SUBSET (1 .. n) /\ \A i \in taken : g[i] = i /\ g[i] \in Int
      BY <1>3, <3>1
    <3>3. PICK last \in taken : \A j \in taken : g[last] > g[j] \/ (g[last] = g[j] /\ last <= j)
      <4> HIDE DEF taken
      <4> QED
        BY <3>2, FirstGreatest
    <3>4. \A i \in taken : i \in Int
      BY <1>3
    <3> HIDE DEF taken
    <3> QED
      BY <3>2, <3>3, <3>4
  <2>2. IsFiniteSet(1 .. n)
    BY FS_Interval
  <2>3. IsFiniteSet(before(last)) /\ Cardinality(before(last)) \in Nat
    <3>1. before(last) \in SUBSET (1 .. n)
      BY <1>3
    <3> HIDE DEF before
    <3> QED
      BY <2>2, <3>1, FS_Subset, FS_CardinalityType
  <2>4. taken \ {last} \in SUBSET before(last)
    <3>1. \A i \in taken : i \in Int /\ i \in sound
      BY <1>3
    <3> HIDE DEF taken, sound
    <3> QED
      BY <2>1, <3>1
  <2>5. Cardinality(taken \ {last}) <= Cardinality(before(last))
    <3> HIDE DEF taken, before
    <3> QED
      BY <2>3, <2>4, FS_Subset
  <2>6. IsFiniteSet(taken)
    <3>1. taken \in SUBSET (1 .. n)
      BY <1>3
    <3> HIDE DEF taken
    <3> QED
      BY <2>2, <3>1, FS_Subset
  <2>7. Cardinality(taken \ {last}) = Cardinality(taken) - 1 /\ Cardinality(taken) \in Nat
    <3> HIDE DEF taken
    <3> QED
      BY <2>1, <2>6, FS_RemoveElement, FS_CardinalityType
  <2>8. count + Cardinality(before(last)) < maxRoutes
    OBVIOUS
  <2>9. count \in Nat /\ maxRoutes \in Nat
    BY DEF Inv, Listed, Settled
  <2> HIDE DEF taken, before
  <2> QED
    BY <2>3, <2>5, <2>7, <2>8, <2>9
<1>6. taken \in SUBSET DOMAIN items
  BY <1>1, <1>3
<1>7. \A i \in taken : Available(items[i].name) /\ items[i].address # ZeroAddress
  BY <1>3
<1>8. \A i, j \in taken : items[i].name = items[j].name => i = j
  BY <1>3, <1>4
<1> HIDE DEF taken, sound
<1> QED
  BY <1>2, <1>5, <1>6, <1>7, <1>8

\* The names a batch enters, and what it stores for them.
LEMMA BatchEntered ==
    ASSUME Inv, NEW caller \in Addresses, NEW items \in Seq(Items), NEW failFast \in BOOLEAN,
           RegisterRoutesBatch(caller, items, failFast)
    PROVE  \E fresh, entry :
              /\ fresh \in Seq(Names)
              /\ EnterRoutes(fresh, entry)
              /\ Range(fresh) = {items[i].name : i \in Accepted(items, failFast)}
              /\ IsInjective(fresh)
              /\ Len(fresh) = Cardinality(Accepted(items, failFast))
              /\ \A n \in Range(fresh) : Available(n) /\ entry[n] \in Entries
<1>1. PICK taken : taken = Accepted(items, failFast)
  OBVIOUS
<1>2. /\ taken \in SUBSET DOMAIN items
      /\ \A i \in taken : Available(items[i].name) /\ items[i].address # ZeroAddress
      /\ \A i, j \in taken : items[i].name = items[j].name => i = j
  BY <1>1, AcceptedItems
<1>3. PICK asked : asked = [i \in DOMAIN items |-> items[i].name]
  OBVIOUS
<1>4. /\ asked \in Seq(Names) /\ DOMAIN asked = DOMAIN items
      /\ \A i \in DOMAIN items : asked[i] = items[i].name /\ items[i].address \in Contracts
      /\ taken \in SUBSET (1 .. Len(asked))
  <2>1. \A i \in DOMAIN items : items[i] \in Items
    OBVIOUS
  <2>2. \A i \in DOMAIN items : items[i].name \in Names /\ items[i].address \in Contracts
    BY <2>1 DEF Items
  <2>3. PICK n \in Nat : DOMAIN items = 1 .. n
    OBVIOUS
  <2>4. asked \in [1 .. n -> Names]
    BY <1>3, <2>2, <2>3
  <2>5. asked \in Seq(Names) /\ Len(asked) = n
    BY <2>4
  <2> QED
    BY <1>2, <1>3, <2>2, <2>3, <2>5
<1>5. PICK entry : entry = [n \in {items[i].name : i \in taken} |->
                  [address |-> items[CHOOSE i \in taken : items[i].name = n].address,
                   paused |-> FALSE, expires |-> None]]
  OBVIOUS
<1>6. EnterRoutes(Kept(asked, taken), entry)
  BY <1>1, <1>3, <1>5 DEF RegisterRoutesBatch
<1>7. /\ Kept(asked, taken) \in Seq(Names)
      /\ Range(Kept(asked, taken)) = {asked[i] : i \in taken}
      /\ IsInjective(Kept(asked, taken))
      /\ Len(Kept(asked, taken)) = Cardinality(taken)
  BY <1>2, <1>4, KeptElements, KeptLen
<1>8. {asked[i] : i \in taken} = {items[i].name : i \in taken}
  BY <1>2, <1>4
<1>9. ASSUME NEW n \in {items[i].name : i \in taken}
      PROVE  Available(n) /\ entry[n] \in Entries
  <2>1. PICK i \in taken : items[i].name = n
    OBVIOUS
  <2>2. PICK c : c = CHOOSE j \in taken : items[j].name = n
    OBVIOUS
  <2>3. c \in taken
    BY <2>1, <2>2
  <2>4. entry[n] = [address |-> items[c].address, paused |-> FALSE, expires |-> None]
    BY <1>5, <2>2
  <2> QED
    BY <1>2, <1>4, <2>1, <2>3, <2>4 DEF Entries
<1>10. PICK fresh : fresh = Kept(asked, taken)
  OBVIOUS
<1> QED
  BY <1>1, <1>6, <1>7, <1>8, <1>9, <1>10

LEMMA RegisterBatchStep ==
    ASSUME Inv, NEW caller \in Addresses, NEW items \in Seq(Items), NEW failFast \in BOOLEAN,
           RegisterRoutesBatch(caller, items, failFast)
    PROVE  Inv'
<1>1. PICK fresh, entry :
         /\ fresh \in Seq(Names)
         /\ EnterRoutes(fresh, entry)
         /\ IsInjective(fresh)
         /\ \A n \in Range(fresh) : Available(n) /\ entry[n] \in Entries
  BY BatchEntered
<1>2. UNCHANGED <<now, settings, aliasing, tags, score, graph, best>>
  BY DEF RegisterRoutesBatch
<1>3. Listed' /\ Aliased' /\ DOMAIN routes \subseteq DOMAIN routes'
  BY <1>1, <1>2, Entering
<1>4. Settled' /\ Linked' /\ Attached'
  BY <1>2, <1>3, SameSettled, SameLinked, SameAttached DEF Inv
<1>5. Ranked'
  <2>1. now' = now /\ weights' = weights
    BY <1>2 DEF settings
  <2> QED
    BY <1>1, <1>2, <1>3, <2>1, EnteringRanked
<1> QED
  BY <1>3, <1>4, <1>5 DEF Inv

-----------------------------------------------------------------------------
(* Removal.                                                                *)

\* Routes go only together with those that need them.
Free(S) == S \subseteq DOMAIN routes /\ \A n \in S : dependents[n] \subseteq S

\* The loop of remove_routes_batch removes a set of that kind, whatever names
\* it is given in whatever order.
LEMMA RemovedFree ==
    ASSUME Inv, NEW ns \in Seq(Names)
    PROVE  Free(Removed(ns))
<1> DEFINE before(g, k) == g[k - 1]
           needed(k, B) == {m \in dependents[ns[k]] :
                              ~(m \in B /\ ns[k] \in Range(dependencies[m]))}
           goes(k, B) == ns[k] \in DOMAIN routes \ B /\ needed(k, B) = {}
           next(k, B) == IF goes(k, B) THEN B \cup {ns[k]} ELSE B
           loop(g) == [k \in 0 .. Len(ns) |-> IF k = 0 THEN {} ELSE next(k, g[k - 1])]
<1>1. PICK n \in Nat : n = Len(ns) /\ DOMAIN ns = 1 .. n
  OBVIOUS
<1>2. \E g : g = loop(g)
  <2>1. PICK X : X = SUBSET Names
    OBVIOUS
  <2>2. PICK step : step = [k \in Nat |-> [B \in X |-> IF k \in 1 .. n THEN next(k, B) ELSE B]]
    OBVIOUS
  <2>3. /\ \A k \in Nat, B \in X : k \in 1 .. n => step[k][B] = next(k, B)
        /\ \A k \in Nat, B \in X : k \notin 1 .. n => step[k][B] = B
    <3> HIDE DEF next
    <3> QED
      BY <2>2
  <2>4. \A k \in 1 .. n, B \in X : next(k, B) \in X
    BY <1>1, <2>1
  <2>5. step \in [Nat -> [X -> X]]
    <3>1. \A k \in Nat, B \in X : (IF k \in 1 .. n THEN next(k, B) ELSE B) \in X
      <4> HIDE DEF next
      <4> QED
        BY <2>4
    <3> HIDE DEF next
    <3> QED
      BY <2>2, <3>1
  <2>6. {} \in X
    BY <2>1
  <2>7. PICK f \in [Nat -> X] : IsRun(f, {}, step)
    BY <2>5, <2>6, Steps
  <2>8. PICK g : g = [k \in 0 .. n |-> f[k]]
    OBVIOUS
  <2>9. \A k \in 0 .. n : g[k] = f[k] /\ f[k] \in X
    BY <2>8
  <2>10. \A k \in 1 .. n : f[k] = next(k, g[k - 1])
    <3> SUFFICES ASSUME NEW k \in 1 .. n PROVE f[k] = next(k, g[k - 1])
      OBVIOUS
    <3>1. PICK j \in Nat : j = k - 1 /\ j + 1 = k /\ j \in 0 .. n
      OBVIOUS
    <3>2. f[k] = step[k][f[j]] /\ g[k - 1] = f[j] /\ f[j] \in X
      BY <2>7, <2>9, <3>1 DEF IsRun
    <3> HIDE DEF next
    <3> QED
      BY <2>3, <3>2
  <2>11. \A k \in 0 .. n : f[k] = IF k = 0 THEN {} ELSE next(k, g[k - 1])
    <3>1. \A k \in 0 .. n : k = 0 \/ k \in 1 .. n
      OBVIOUS
    <3> HIDE DEF next
    <3> QED
      BY <2>7, <2>10, <3>1 DEF IsRun
  <2>12. g = [k \in 0 .. n |-> IF k = 0 THEN {} ELSE next(k, g[k - 1])]
    <3> HIDE DEF next
    <3> QED
      BY <2>8, <2>11
  <2>13. g = loop(g)
    <3> HIDE DEF next
    <3> QED
      BY <1>1, <2>12
  <2> QED
    BY <2>13
<1>3. PICK gone : gone = loop(gone) /\ Removed(ns) = gone[Len(ns)]
  <2>1. Removed(ns) = (CHOOSE g : g = loop(g))[Len(ns)]
    BY DEF Removed
  <2> HIDE DEF loop
  <2> QED
    BY <1>2, <2>1
<1>4. gone[0] = {} /\ \A k \in 1 .. n : gone[k] = next(k, gone[k - 1])
  <2>1. PICK g : g = gone
    OBVIOUS
  <2>2. gone = loop(g)
    BY <1>3, <2>1
  <2>3. \A k \in 0 .. n : gone[k] = IF k = 0 THEN {} ELSE next(k, g[k - 1])
    <3> HIDE DEF next
    <3> QED
      BY <1>1, <2>2
  <2> HIDE DEF next, loop
  <2> QED
    BY <2>1, <2>3
<1>5. ASSUME NEW k \in 1 .. n, NEW B, Free(B)
      PROVE  Free(next(k, B))
  <2>1. CASE goes(k, B)
    <3>1. \A m \in dependents[ns[k]] : m \in B
      BY <2>1
    <3>2. next(k, B) = B \cup {ns[k]} /\ ns[k] \in DOMAIN routes
      BY <2>1
    <3> HIDE DEF next
    <3> QED
      BY <1>5, <3>1, <3>2 DEF Free
  <2>2. CASE ~goes(k, B)
    <3> HIDE DEF goes
    <3> QED
      BY <1>5, <2>2
  <2> QED
    BY <2>1, <2>2
<1> DEFINE S == {k \in Nat : k <= n => Free(gone[k])}
<1>6. 0 \in S
  BY <1>4 DEF Free
<1>7. ASSUME NEW k \in S
      PROVE  k + 1 \in S
  <2> SUFFICES ASSUME k + 1 <= n PROVE Free(gone[k + 1])
    OBVIOUS
  <2>1. k + 1 \in 1 .. n /\ Free(gone[k]) /\ (k + 1) - 1 = k
    OBVIOUS
  <2> HIDE DEF next
  <2> QED
    BY <1>4, <1>5, <2>1
<1>8. S \in SUBSET Nat
  OBVIOUS
<1>9. S = Nat
  <2> HIDE DEF S
  <2> QED
    BY <1>6, <1>7, <1>8, Induction
<1>10. Free(gone[n])
  BY <1>9
<1> HIDE DEF loop, S
<1> QED
  BY <1>1, <1>3, <1>10

\* Forgetting a set of routes of that kind.
LEMMA ForgetParts ==
    ASSUME Inv, NEW S, Free(S), ForgetRoutes(S)
    PROVE  /\ DOMAIN routes' = DOMAIN routes \ S
           /\ \A n \in DOMAIN routes' : routes'[n] = routes[n]
           /\ tags' = Delete(tags, S) /\ score' = Delete(score, S)
           /\ DOMAIN alias' = {a \in DOMAIN alias : alias[a] \notin S}
           /\ \A a \in DOMAIN alias' : alias'[a] = alias[a]
           /\ Range(aliases') = DOMAIN alias'
           /\ \A n \in Names : /\ dependencies'[n] = IF n \in S THEN << >> ELSE dependencies[n]
                               /\ dependents'[n] = IF n \in S THEN {} ELSE dependents[n] \ S
           /\ UNCHANGED <<now, settings>>
<1>1. Range(aliases) = DOMAIN alias /\ aliases \in Seq(Names)
  BY DEF Inv, Aliased
<1>2. PICK R : R = {a \in Range(aliases) : a \in DOMAIN alias => alias[a] \in S}
  OBVIOUS
<1>3. {a \in Range(aliases) \cap DOMAIN alias : alias[a] \in S} = R
  BY <1>1, <1>2
<1>4. alias' = Delete(alias, R) /\ aliases' = Without(aliases, R)
  BY <1>2, <1>3 DEF ForgetRoutes, ClearAliases
<1>5. /\ DOMAIN alias' = DOMAIN alias \ R
      /\ \A a \in DOMAIN alias' : alias'[a] = alias[a]
      /\ Range(aliases') = DOMAIN alias \ R
  BY <1>1, <1>4, WithoutElements DEF Delete
<1>6. DOMAIN alias \ R = {a \in DOMAIN alias : alias[a] \notin S}
  BY <1>1, <1>2
<1>7. /\ DOMAIN routes' = DOMAIN routes \ S
      /\ \A n \in DOMAIN routes' : routes'[n] = routes[n]
      /\ tags' = Delete(tags, S) /\ score' = Delete(score, S)
      /\ UNCHANGED <<now, settings>>
  BY DEF ForgetRoutes, ClearDetails, Delete
<1>8. \A n \in Names : dependencies'[n] = IF n \in S THEN << >> ELSE dependencies[n]
  BY DEF ForgetRoutes, ClearEdges
<1>9. ASSUME NEW n \in Names
      PROVE  dependents'[n] = IF n \in S THEN {} ELSE dependents[n] \ S
  <2>1. dependents'[n] =
           IF n \in S THEN {}
           ELSE {m \in dependents[n] : ~(m \in S /\ n \in Range(dependencies[m]))}
    BY DEF ForgetRoutes, ClearEdges
  <2>2. \A m \in dependents[n] : n \in Range(dependencies[m])
    BY DEF Inv, Linked, EdgesMirrored
  <2> QED
    BY <2>1, <2>2
<1> QED
  BY <1>5, <1>6, <1>7, <1>8, <1>9

LEMMA ForgetStep ==
    ASSUME Inv, NEW S, Free(S), ForgetRoutes(S)
    PROVE  Inv'
<1>1. /\ DOMAIN routes' = DOMAIN routes \ S
      /\ \A n \in DOMAIN routes' : routes'[n] = routes[n]
      /\ tags' = Delete(tags, S) /\ score' = Delete(score, S)
      /\ DOMAIN alias' = {a \in DOMAIN alias : alias[a] \notin S}
      /\ \A a \in DOMAIN alias' : alias'[a] = alias[a]
      /\ \A n \in Names : /\ dependencies'[n] = IF n \in S THEN << >> ELSE dependencies[n]
                          /\ dependents'[n] = IF n \in S THEN {} ELSE dependents[n] \ S
      /\ UNCHANGED <<now, settings>>
  BY ForgetParts
<1>2. S \subseteq DOMAIN routes /\ \A n \in S : dependents[n] \subseteq S
  BY DEF Free
<1>3. Listed'
  <2>1. names \in Seq(Names) /\ IsInjective(names) /\ S \in SUBSET Range(names)
    BY <1>2 DEF Inv, Listed
  <2>2. /\ names' \in Seq(Names) /\ IsInjective(names') /\ Range(names') = Range(names) \ S
        /\ Len(names') = Len(names) - Cardinality(S)
        /\ Cardinality(S) \in Nat /\ Cardinality(S) <= Len(names)
    BY <2>1, WithoutElements, VectorSize DEF ForgetRoutes, ClearIndexes
  <2>3. count' = Len(names')
    <3>1. count' = IF count > Cardinality(S) THEN count - Cardinality(S) ELSE 0
      BY DEF ForgetRoutes, ClearIndexes
    <3>2. count = Len(names) /\ Len(names) \in Nat
      BY DEF Inv, Listed
    <3> QED
      BY <2>2, <3>1, <3>2
  <2>4. routes' \in [DOMAIN routes' -> Entries]
    BY <1>1 DEF ForgetRoutes, Delete, Inv, Listed
  <2> QED
    BY <1>1, <2>2, <2>3, <2>4 DEF Inv, Listed
<1>4. Aliased'
  <2>1. PICK R : aliases' = Without(aliases, R)
    BY DEF ForgetRoutes, ClearAliases
  <2>2. aliases' \in Seq(Names) /\ IsInjective(aliases')
    BY <2>1, WithoutElements DEF Inv, Aliased
  <2>3. Range(aliases') = DOMAIN alias'
    BY ForgetParts
  <2>4. alias' \in [DOMAIN alias' -> Names]
    BY <1>1 DEF ForgetRoutes, ClearAliases, Delete, Inv, Aliased
  <2> QED
    BY <1>1, <2>2, <2>3, <2>4 DEF Inv, Aliased
<1>5. Linked'
  <2>1. /\ \A n \in Names : dependencies[n] \in Seq(Names) /\ dependents[n] \in SUBSET Names
        /\ dependencies' \in [Names -> Seq(Names)] /\ dependents' \in [Names -> SUBSET Names]
    <3>1. \A n \in Names : dependencies[n] \in Seq(Names) /\ dependents[n] \in SUBSET Names
      BY DEF Inv, Linked
    <3>2. << >> \in Seq(Names)
      OBVIOUS
    <3>3. \A n \in Names : dependencies'[n] \in Seq(Names)
      BY <1>1, <3>1, <3>2
    <3>4. \A n \in Names : dependents'[n] \in SUBSET Names
      BY <1>1, <3>1
    <3> QED
      BY <3>1, <3>3, <3>4 DEF ForgetRoutes, ClearEdges
  <2>2. IsInjective(<< >>) /\ Range(<< >>) = {}
    BY DEF IsInjective, Range
  <2>3. \A n \in Names : IsInjective(dependencies'[n])
    BY <1>1, <2>2 DEF Inv, Linked
  <2>4. \A n \in Names : Range(dependencies'[n]) = IF n \in S THEN {} ELSE Range(dependencies[n])
    BY <1>1, <2>2
  <2>5. EdgesMirrored'
    <3> SUFFICES ASSUME NEW n \in Names, NEW m \in Names
                 PROVE  /\ m \in Range(dependencies'[n]) <=> n \in dependents'[m]
                        /\ m \in Range(dependencies'[n]) => {n, m} \subseteq DOMAIN routes'
      BY DEF EdgesMirrored
    <3>1. /\ m \in Range(dependencies[n]) <=> n \in dependents[m]
          /\ m \in Range(dependencies[n]) => {n, m} \subseteq DOMAIN routes
      BY DEF Inv, Linked, EdgesMirrored
    <3>2. m \in S /\ n \in dependents[m] => n \in S
      BY <1>2
    <3> QED
      BY <1>1, <2>4, <3>1, <3>2
  <2>6. DependenciesAcyclic'
    <3> SUFFICES ASSUME NEW T \in SUBSET Names, T # {}
                 PROVE  \E n \in T : Range(dependencies'[n]) \cap T = {}
      BY DEF DependenciesAcyclic
    <3>1. PICK n \in T : Range(dependencies[n]) \cap T = {}
      BY DEF Inv, Linked, DependenciesAcyclic
    <3>2. Range(dependencies'[n]) \subseteq Range(dependencies[n])
      BY <2>4
    <3> QED
      BY <3>1, <3>2
  <2> QED
    BY <2>1, <2>3, <2>5, <2>6 DEF Linked
<1>6. Attached'
  BY <1>1 DEF Delete, Inv, Attached
<1>7. Settled'
  BY <1>1, SameSettled DEF Inv
<1>8. Ranked'
  <2>1. best' = BestContender'
    BY DEF ForgetRoutes
  <2> QED
    BY <1>3, <1>6, <1>7, <2>1, Recomputed
<1> QED
  BY <1>3, <1>4, <1>5, <1>6, <1>7, <1>8 DEF Inv

LEMMA RemoveRouteFree ==
    ASSUME Inv, NEW n \in Names, n \in DOMAIN routes, ~HasDependents(n)
    PROVE  Free({n})
  BY DEF Free, HasDependents

-----------------------------------------------------------------------------
(* Dependencies.                                                           *)

\* The levels NoPathBack looks at: what lies k steps from the dependency.
LEMMA LevelsExist ==
    ASSUME Inv, NEW dependency \in Names
    PROVE  \E level :
              /\ level = [k \in Nat |-> IF k = 0
                            THEN {dependency}
                            ELSE UNION {Range(dependencies[n]) : n \in level[k - 1]}]
              /\ \A k \in Nat : level[k] \in SUBSET Names
<1> DEFINE from(A) == UNION {Range(dependencies[n]) : n \in A}
<1>1. PICK X : X = SUBSET Names
  OBVIOUS
<1>2. PICK step : step = [k \in Nat |-> [A \in X |-> from(A)]]
  OBVIOUS
<1>3. \A A \in X : from(A) \in X
  <2>1. \A n \in Names : Range(dependencies[n]) \subseteq Names
    BY RangeFinite DEF Inv, Linked
  <2> QED
    BY <1>1, <2>1
<1>4. step \in [Nat -> [X -> X]] /\ \A k \in Nat, A \in X : step[k][A] = from(A)
  <2> HIDE DEF from
  <2> QED
    BY <1>2, <1>3
<1>5. {dependency} \in X
  BY <1>1
<1>6. PICK f \in [Nat -> X] : IsRun(f, {dependency}, step)
  BY <1>4, <1>5, Steps
<1>7. \A k \in Nat : f[k] = IF k = 0 THEN {dependency} ELSE from(f[k - 1])
  <2> SUFFICES ASSUME NEW k \in Nat, k # 0 PROVE f[k] = from(f[k - 1])
    <3> HIDE DEF from
    <3> QED
      BY <1>6 DEF IsRun
  <2>1. PICK j \in Nat : j = k - 1 /\ j + 1 = k
    OBVIOUS
  <2>2. f[k] = step[k][f[j]] /\ f[j] \in X
    BY <1>6, <2>1 DEF IsRun
  <2> HIDE DEF from
  <2> QED
    BY <1>4, <2>1, <2>2
<1>8. f = [k \in Nat |-> IF k = 0 THEN {dependency} ELSE from(f[k - 1])]
  <2> HIDE DEF from
  <2> QED
    BY <1>7
<1> QED
  BY <1>1, <1>8

\* The check of a new dependency, although it gives up at a depth, excludes
\* every circle the dependency could close: routes that each need another of
\* them would be met on every level.
LEMMA NoCircleClosed ==
    ASSUME Inv, NEW route \in Names, NEW dependency \in Names, NoPathBack(route, dependency),
           NEW S \in SUBSET Names, dependency \in S,
           \A n \in S \ {route} : Range(dependencies[n]) \cap S # {}
    PROVE  FALSE
<1> DEFINE levels(g) == [k \in Nat |-> IF k = 0
                           THEN {dependency}
                           ELSE UNION {Range(dependencies[n]) : n \in g[k - 1]}]
<1>1. PICK level : /\ level = levels(level)
                   /\ \A k \in 0 .. MaxRecursionDepth : route \notin level[k]
                   /\ level[MaxRecursionDepth + 1] = {}
  <2>1. PICK level : level = CHOOSE g : g = levels(g)
    OBVIOUS
  <2>2. level = levels(level)
    <3>1. \E g : g = levels(g)
      BY LevelsExist
    <3> HIDE DEF levels
    <3> QED
      BY <2>1, <3>1
  <2>3. (\A k \in 0 .. MaxRecursionDepth : route \notin level[k]) /\ level[MaxRecursionDepth + 1] = {}
    BY <2>1 DEF NoPathBack
  <2> QED
    BY <2>2, <2>3
<1>2. /\ level[0] = {dependency}
      /\ \A k \in Nat : level[k + 1] = UNION {Range(dependencies[n]) : n \in level[k]}
  <2>1. PICK g : g = level
    OBVIOUS
  <2>2. \A k \in Nat : level[k] = IF k = 0
                                    THEN {dependency}
                                    ELSE UNION {Range(dependencies[n]) : n \in g[k - 1]}
    BY <1>1, <2>1
  <2>3. \A k \in Nat : k + 1 \in Nat /\ k + 1 # 0 /\ (k + 1) - 1 = k
    OBVIOUS
  <2> QED
    BY <2>1, <2>2, <2>3
<1>3. MaxRecursionDepth \in Nat
  BY NumberAssumption
<1> HIDE DEF levels
<1> DEFINE T == {k \in Nat : k <= MaxRecursionDepth + 1 => level[k] \cap S # {}}
<1>4. 0 \in T
  BY <1>2
<1>5. ASSUME NEW k \in T
      PROVE  k + 1 \in T
  <2> SUFFICES ASSUME k + 1 <= MaxRecursionDepth + 1 PROVE level[k + 1] \cap S # {}
    OBVIOUS
  <2>1. k \in 0 .. MaxRecursionDepth /\ k <= MaxRecursionDepth + 1
    BY <1>3
  <2>2. PICK n \in S : n \in level[k]
    BY <2>1
  <2>3. n # route
    BY <1>1, <2>1, <2>2
  <2>4. PICK m \in S : m \in Range(dependencies[n])
    BY <2>2, <2>3
  <2>5. k \in Nat
    BY <2>1
  <2>6. m \in level[k + 1]
    BY <1>2, <2>2, <2>4, <2>5
  <2> QED
    BY <2>4, <2>6
<1>6. T \in SUBSET Nat
  OBVIOUS
<1>7. T = Nat
  <2> HIDE DEF T
  <2> QED
    BY <1>4, <1>5, <1>6, Induction
<1>8. MaxRecursionDepth + 1 \in T
  BY <1>3, <1>7
<1> QED
  BY <1>1, <1>3, <1>8

LEMMA DependencyEdges ==
    ASSUME Inv, NEW caller \in Addresses, NEW n \in Names, NEW dependency \in Names,
           SetRouteDependency(caller, n, dependency)
    PROVE  /\ dependencies' \in [Names -> Seq(Names)]
           /\ IsInjective(dependencies'[n])
           /\ \A m \in Names : Range(dependencies'[m]) = IF m = n
                                 THEN Range(dependencies[m]) \cup {dependency}
                                 ELSE Range(dependencies[m])
           /\ \A m \in Names : m # n => dependencies'[m] = dependencies[m]
<1>1. dependencies' = [dependencies EXCEPT ![n] = Append(dependencies[n], dependency)]
  BY DEF SetRouteDependency
<1>2. /\ dependencies[n] \in Seq(Names) /\ IsInjective(dependencies[n])
      /\ dependency \notin Range(dependencies[n])
      /\ dependencies \in [Names -> Seq(Names)]
  BY DEF SetRouteDependency, Inv, Linked
<1>3. PICK t : t = Append(dependencies[n], dependency)
  OBVIOUS
<1>4. t \in Seq(Names) /\ IsInjective(t) /\ Range(t) = Range(dependencies[n]) \cup {dependency}
  BY <1>2, <1>3, AppendElements
<1>5. dependencies' = [dependencies EXCEPT ![n] = t]
  BY <1>1, <1>3
<1>6. dependencies'[n] = t /\ \A m \in Names : m # n => dependencies'[m] = dependencies[m]
  BY <1>2, <1>5
<1> QED
  BY <1>2, <1>4, <1>5, <1>6

LEMMA DependencyStep ==
    ASSUME Inv, NEW caller \in Addresses, NEW n \in Names, NEW dependency \in Names,
           SetRouteDependency(caller, n, dependency)
    PROVE  Inv'
<1>1. /\ dependencies' \in [Names -> Seq(Names)]
      /\ IsInjective(dependencies'[n])
      /\ \A m \in Names : Range(dependencies'[m]) = IF m = n
                            THEN Range(dependencies[m]) \cup {dependency}
                            ELSE Range(dependencies[m])
      /\ \A m \in Names : m # n => dependencies'[m] = dependencies[m]
  BY DependencyEdges
<1>2. /\ {n, dependency} \subseteq DOMAIN routes
      /\ NoPathBack(n, dependency)
      /\ dependents' = [dependents EXCEPT ![dependency] = dependents[dependency] \cup {n}]
      /\ routes' = routes /\ names' = names /\ score' = score /\ now' = now /\ best' = best
      /\ tags' = tags /\ weights' = weights
      /\ UNCHANGED <<now, settings>> /\ UNCHANGED directory /\ UNCHANGED aliasing
  BY DEF SetRouteDependency, directory, settings
<1>3. /\ dependents' \in [Names -> SUBSET Names]
      /\ \A m \in Names : dependents'[m] = IF m = dependency THEN dependents[m] \cup {n}
                                           ELSE dependents[m]
  BY <1>2 DEF Inv, Linked
<1>4. EdgesMirrored'
  <2> SUFFICES ASSUME NEW x \in Names, NEW y \in Names
               PROVE  /\ y \in Range(dependencies'[x]) <=> x \in dependents'[y]
                      /\ y \in Range(dependencies'[x]) => {x, y} \subseteq DOMAIN routes'
    BY DEF EdgesMirrored
  <2>1. /\ y \in Range(dependencies[x]) <=> x \in dependents[y]
        /\ y \in Range(dependencies[x]) => {x, y} \subseteq DOMAIN routes
    BY DEF Inv, Linked, EdgesMirrored
  <2>2. y \in Range(dependencies'[x]) <=> y \in Range(dependencies[x]) \/ (x = n /\ y = dependency)
    BY <1>1
  <2>3. x \in dependents'[y] <=> x \in dependents[y] \/ (x = n /\ y = dependency)
    BY <1>3
  <2> QED
    BY <1>2, <2>1, <2>2, <2>3
<1>5. DependenciesAcyclic'
  <2> SUFFICES ASSUME NEW S \in SUBSET Names, S # {},
                      \A x \in S : Range(dependencies'[x]) \cap S # {}
               PROVE  FALSE
    BY DEF DependenciesAcyclic
  <2>1. PICK x \in S : Range(dependencies[x]) \cap S = {}
    BY DEF Inv, Linked, DependenciesAcyclic
  <2>2. x = n /\ dependency \in S
    BY <1>1, <2>1
  <2>3. \A y \in S \ {n} : Range(dependencies[y]) \cap S # {}
    BY <1>1
  <2> QED
    BY <1>2, <2>2, <2>3, NoCircleClosed
<1>6. Linked'
  <2>1. \A m \in Names : IsInjective(dependencies'[m])
    BY <1>1 DEF Inv, Linked
  <2> QED
    BY <1>1, <1>3, <1>4, <1>5, <2>1 DEF Linked
<1>7. Settled' /\ Listed' /\ Aliased' /\ Attached' /\ Ranked'
  BY <1>2, SameSettled, SameListed, SameAliased, SameAttached, SameRanked DEF Inv
<1> QED
  BY <1>6, <1>7 DEF Inv

-----------------------------------------------------------------------------
(* The other entry points.                                                 *)

\* A change to one route that leaves its expiry and whether it is paused alone,
\* or extends an expiry that has not passed.
LEMMA RouteChanged ==
    ASSUME Inv, NEW n \in DOMAIN routes, NEW entry \in Entries,
           routes' = [routes EXCEPT ![n] = entry]
    PROVE  /\ DOMAIN routes' = DOMAIN routes
           /\ \A m \in DOMAIN routes : routes'[m] = IF m = n THEN entry ELSE routes[m]
           /\ UNCHANGED <<names, count>> => Listed'
<1>1. /\ DOMAIN routes' = DOMAIN routes
      /\ \A m \in DOMAIN routes : routes'[m] = IF m = n THEN entry ELSE routes[m]
      /\ routes' \in [DOMAIN routes -> Entries]
  BY DEF Inv, Listed
<1>2. UNCHANGED <<names, count>> => Listed'
  BY <1>1 DEF Inv, Listed
<1> QED
  BY <1>1, <1>2

LEMMA RouteChangedRanked ==
    ASSUME Inv, DOMAIN routes' = DOMAIN routes,
           \A m \in DOMAIN routes : /\ routes'[m].paused = routes[m].paused
                                    /\ Expired(m) => Expired(m)',
           UNCHANGED <<weights, score, best, names>>
    PROVE  Ranked'
<1>1. \A i \in DOMAIN names : /\ Contender(names[i])' <=> Contender(names[i])
                              /\ LiveContender(names[i])' => LiveContender(names[i])
  BY DEF Contender, LiveContender
<1>2. names \in Seq(Names) /\ Len(names) <= Len(names)
  BY DEF Inv, Listed
<1>3. DOMAIN names' \ DOMAIN names = {}
  OBVIOUS
<1> QED
  BY <1>1, <1>2, <1>3, StaysRanked DEF Inv

LEMMA ExtendStep ==
    ASSUME Inv, NEW caller \in Addresses, NEW n \in Names, NEW ttl \in Ttls,
           ExtendRouteTtl(caller, n, ttl)
    PROVE  Inv'
<1>1. n \in DOMAIN routes /\ routes[n] \in Entries /\ ttl \in Nat /\ ttl > 0 /\ ~Expired(n)
  BY NumberAssumption DEF ExtendRouteTtl, Inv, Listed
<1>2. PICK base, until :
         /\ base = IF routes[n].expires = None THEN now ELSE routes[n].expires
         /\ until = SaturatingAdd(base, ttl)
         /\ routes' = [routes EXCEPT ![n].expires = until]
  BY DEF ExtendRouteTtl
<1>3. now \in Nat /\ now <= MaxLedger /\ MaxLedger \in Nat /\ None \notin Nat
  BY NumberAssumption, NoneAssumption DEF Inv, Settled
<1>4. base \in Nat /\ base <= MaxLedger /\ now <= base
  BY <1>1, <1>2, <1>3 DEF Entries, Expired
<1>5. until \in 0 .. MaxLedger /\ now <= until /\ until # None
  BY <1>1, <1>2, <1>3, <1>4 DEF SaturatingAdd
<1>6. PICK entry \in Entries : entry = [routes[n] EXCEPT !.expires = until]
  BY <1>1, <1>5 DEF Entries
<1>7. entry.paused = routes[n].paused /\ entry.expires = until
  BY <1>1, <1>6 DEF Entries
<1>8. routes' = [routes EXCEPT ![n] = entry]
  BY <1>2, <1>6
<1>9. UNCHANGED <<now, settings>> /\ UNCHANGED aliasing /\ UNCHANGED graph
      /\ UNCHANGED <<names, count, tags, score, best>>
  BY DEF ExtendRouteTtl
<1>10. /\ DOMAIN routes' = DOMAIN routes
       /\ \A m \in DOMAIN routes : routes'[m] = IF m = n THEN entry ELSE routes[m]
       /\ Listed'
  BY <1>1, <1>8, <1>9, RouteChanged
<1>11. Settled' /\ Aliased' /\ Linked' /\ Attached'
  BY <1>9, <1>10, SameSettled, SameAliased, SameLinked, SameAttached DEF Inv
<1>12. Ranked'
  <2>1. now' = now /\ weights' = weights
    BY <1>9 DEF settings
  <2>2. \A m \in DOMAIN routes : /\ routes'[m].paused = routes[m].paused
                                 /\ Expired(m) => Expired(m)'
    BY <1>1, <1>7, <1>10, <2>1 DEF Expired
  <2> QED
    BY <1>9, <1>10, <2>1, <2>2, RouteChangedRanked
<1> QED
  BY <1>10, <1>11, <1>12 DEF Inv

LEMMA UpdateRouteStep ==
    ASSUME Inv, NEW caller \in Addresses, NEW n \in Names, NEW address \in Contracts,
           UpdateRoute(caller, n, address)
    PROVE  Inv'
<1>1. /\ n \in DOMAIN routes /\ routes[n] \in Entries /\ address # ZeroAddress
      /\ routes' = [routes EXCEPT ![n].address = address]
      /\ UNCHANGED <<now, settings>> /\ UNCHANGED aliasing /\ UNCHANGED graph
      /\ UNCHANGED <<names, count, tags, score, best>>
  BY DEF UpdateRoute, Inv, Listed
<1>2. PICK entry \in Entries : entry = [routes[n] EXCEPT !.address = address]
  BY <1>1 DEF Entries
<1>3. entry.paused = routes[n].paused /\ entry.expires = routes[n].expires
  BY <1>1, <1>2 DEF Entries
<1>4. routes' = [routes EXCEPT ![n] = entry]
  BY <1>1, <1>2
<1>5. /\ DOMAIN routes' = DOMAIN routes
      /\ \A m \in DOMAIN routes : routes'[m] = IF m = n THEN entry ELSE routes[m]
      /\ Listed'
  BY <1>1, <1>4, RouteChanged
<1>6. Settled' /\ Aliased' /\ Linked' /\ Attached'
  BY <1>1, <1>5, SameSettled, SameAliased, SameLinked, SameAttached DEF Inv
<1>7. Ranked'
  <2>1. now' = now /\ weights' = weights
    BY <1>1 DEF settings
  <2>2. \A m \in DOMAIN routes : /\ routes'[m].paused = routes[m].paused
                                 /\ Expired(m) => Expired(m)'
    BY <1>3, <1>5, <2>1 DEF Expired
  <2> QED
    BY <1>1, <1>5, <2>1, <2>2, RouteChangedRanked
<1> QED
  BY <1>5, <1>6, <1>7 DEF Inv

LEMMA PauseRouteStep ==
    ASSUME Inv, NEW caller \in Addresses, NEW n \in Names, NEW on \in BOOLEAN,
           SetRoutePaused(caller, n, on)
    PROVE  Inv'
<1>1. /\ n \in DOMAIN routes /\ routes[n] \in Entries
      /\ routes' = [routes EXCEPT ![n].paused = on]
      /\ UNCHANGED <<now, settings>> /\ UNCHANGED aliasing /\ UNCHANGED graph
      /\ UNCHANGED <<names, count, tags, score>>
      /\ best' = BestContender'
  BY DEF SetRoutePaused, Inv, Listed
<1>2. PICK entry \in Entries : entry = [routes[n] EXCEPT !.paused = on]
  BY <1>1 DEF Entries
<1>3. routes' = [routes EXCEPT ![n] = entry]
  BY <1>1, <1>2
<1>4. DOMAIN routes' = DOMAIN routes /\ Listed'
  BY <1>1, <1>3, RouteChanged
<1>5. Settled' /\ Aliased' /\ Linked' /\ Attached'
  BY <1>1, <1>4, SameSettled, SameAliased, SameLinked, SameAttached DEF Inv
<1>6. Ranked'
  BY <1>1, <1>4, <1>5, Recomputed
<1> QED
  BY <1>4, <1>5, <1>6 DEF Inv

\* Metadata and tags.
LEMMA TagStep ==
    ASSUME Inv, tags' \in [DOMAIN tags' -> SUBSET Tags], DOMAIN tags' \subseteq DOMAIN routes,
           UNCHANGED <<now, settings, directory, aliasing, score, graph, best>>
    PROVE  Inv'
<1>1. UNCHANGED <<now, settings>> /\ UNCHANGED directory /\ UNCHANGED aliasing
      /\ UNCHANGED graph /\ score' = score /\ best' = best
  OBVIOUS
<1>2. routes' = routes /\ names' = names /\ now' = now /\ weights' = weights
  BY <1>1 DEF directory, settings
<1>3. Attached'
  BY <1>1, <1>2 DEF Inv, Attached
<1>4. Settled' /\ Listed' /\ Aliased' /\ Linked' /\ Ranked'
  BY <1>1, <1>2, SameSettled, SameListed, SameAliased, SameLinked, SameRanked DEF Inv
<1> QED
  BY <1>3, <1>4 DEF Inv

LEMMA UpdateMetadataStep ==
    ASSUME Inv, NEW caller \in Addresses, NEW n \in Names, NEW metadata \in Metadata,
           UpdateMetadata(caller, n, metadata)
    PROVE  Inv'
<1>1. metadata # None => metadata \in SUBSET Tags
  BY MetadataAssumption
<1>2. /\ n \in DOMAIN routes
      /\ tags' = IF metadata = None THEN Delete(tags, {n}) ELSE Put(tags, n, metadata)
  BY DEF UpdateMetadata
<1>3. tags' \in [DOMAIN tags' -> SUBSET Tags] /\ DOMAIN tags' \subseteq DOMAIN routes
  BY <1>1, <1>2 DEF Inv, Attached, Put, Delete
<1>4. UNCHANGED <<now, settings, directory, aliasing, score, graph, best>>
  BY DEF UpdateMetadata
<1> QED
  BY <1>3, <1>4, TagStep

LEMMA AddTagStep ==
    ASSUME Inv, NEW caller \in Addresses, NEW n \in Names, NEW tag \in Tags,
           AddRouteTag(caller, n, tag)
    PROVE  Inv'
<1>1. PICK held : held = IF n \in DOMAIN tags THEN tags[n] ELSE {}
  OBVIOUS
<1>2. n \in DOMAIN routes /\ tags' = Put(tags, n, held \cup {tag})
  BY <1>1 DEF AddRouteTag
<1>3. held \cup {tag} \in SUBSET Tags
  BY <1>1 DEF Inv, Attached
<1>4. tags' \in [DOMAIN tags' -> SUBSET Tags] /\ DOMAIN tags' \subseteq DOMAIN routes
  BY <1>2, <1>3 DEF Inv, Attached, Put
<1>5. UNCHANGED <<now, settings, directory, aliasing, score, graph, best>>
  BY DEF AddRouteTag
<1> QED
  BY <1>4, <1>5, TagStep

LEMMA RemoveTagStep ==
    ASSUME Inv, NEW caller \in Addresses, NEW n \in Names, NEW tag \in Tags,
           RemoveRouteTag(caller, n, tag)
    PROVE  Inv'
<1>1. n \in DOMAIN routes \cap DOMAIN tags /\ tags' = [tags EXCEPT ![n] = tags[n] \ {tag}]
  BY DEF RemoveRouteTag
<1>2. tags' \in [DOMAIN tags' -> SUBSET Tags] /\ DOMAIN tags' \subseteq DOMAIN routes
  BY <1>1 DEF Inv, Attached
<1>3. UNCHANGED <<now, settings, directory, aliasing, score, graph, best>>
  BY DEF RemoveRouteTag
<1> QED
  BY <1>2, <1>3, TagStep

\* add_alias and remove_alias refresh the best route, though they change none.
LEMMA AliasStep ==
    ASSUME Inv, Aliased', UNCHANGED <<now, settings, directory, tags, score, graph>>,
           best' = BestLiveContender'
    PROVE  Inv'
<1>1. UNCHANGED <<now, settings>> /\ UNCHANGED directory /\ UNCHANGED graph
      /\ tags' = tags /\ score' = score
  OBVIOUS
<1>2. routes' = routes
  BY <1>1 DEF directory
<1>3. Settled' /\ Listed' /\ Linked' /\ Attached'
  BY <1>1, <1>2, SameSettled, SameListed, SameLinked, SameAttached DEF Inv
<1>4. Ranked'
  BY <1>3, Recomputed
<1> QED
  BY <1>3, <1>4 DEF Inv

LEMMA AddAliasStep ==
    ASSUME Inv, NEW caller \in Addresses, NEW n \in Names, NEW a \in Names, AddAlias(caller, n, a)
    PROVE  Inv'
<1>1. /\ n \in DOMAIN routes /\ a \in WellFormed /\ a \notin DOMAIN routes /\ a \notin DOMAIN alias
      /\ alias' = Put(alias, a, n)
      /\ aliases' = IF a \in Range(aliases) THEN aliases ELSE Append(aliases, a)
      /\ routes' = routes
  BY DEF AddAlias, Available, directory
<1>2. /\ aliases \in Seq(Names) /\ IsInjective(aliases) /\ Range(aliases) = DOMAIN alias
      /\ alias \in [DOMAIN alias -> Names]
  BY DEF Inv, Aliased
<1>3. aliases' \in Seq(Names) /\ IsInjective(aliases') /\ Range(aliases') = DOMAIN alias \cup {a}
  <2>1. aliases' = Append(aliases, a)
    BY <1>1, <1>2
  <2> QED
    BY <1>1, <1>2, <2>1, AppendElements
<1>4. /\ DOMAIN alias' = DOMAIN alias \cup {a}
      /\ \A x \in DOMAIN alias' : alias'[x] = IF x = a THEN n ELSE alias[x]
      /\ alias' \in [DOMAIN alias' -> Names]
  BY <1>1, <1>2 DEF Put
<1>5. Aliased'
  BY <1>1, <1>3, <1>4 DEF Inv, Aliased
<1>6. UNCHANGED <<now, settings, directory, tags, score, graph>> /\ best' = BestLiveContender'
  BY DEF AddAlias
<1> QED
  BY <1>5, <1>6, AliasStep

LEMMA RemoveAliasStep ==
    ASSUME Inv, NEW caller \in Addresses, NEW a \in Names, RemoveAlias(caller, a)
    PROVE  Inv'
<1>1. alias' = Delete(alias, {a}) /\ aliases' = Without(aliases, {a}) /\ routes' = routes
  BY DEF RemoveAlias, directory
<1>2. /\ aliases \in Seq(Names) /\ IsInjective(aliases) /\ Range(aliases) = DOMAIN alias
      /\ alias \in [DOMAIN alias -> Names]
  BY DEF Inv, Aliased
<1>3. aliases' \in Seq(Names) /\ IsInjective(aliases') /\ Range(aliases') = DOMAIN alias \ {a}
  BY <1>1, <1>2, WithoutElements
<1>4. /\ DOMAIN alias' = DOMAIN alias \ {a}
      /\ \A x \in DOMAIN alias' : alias'[x] = alias[x]
      /\ alias' \in [DOMAIN alias' -> Names]
  BY <1>1, <1>2 DEF Delete
<1>5. Aliased'
  BY <1>1, <1>3, <1>4 DEF Inv, Aliased
<1>6. UNCHANGED <<now, settings, directory, tags, score, graph>> /\ best' = BestLiveContender'
  BY DEF RemoveAlias
<1> QED
  BY <1>5, <1>6, AliasStep

LEMMA WeightsStep ==
    ASSUME Inv, NEW caller \in Addresses, NEW w \in Weights, SetScoringWeights(caller, w)
    PROVE  Inv'
<1>1. /\ weights' = w /\ w.divisor > 0
      /\ UNCHANGED <<now, admin, paused, maxRoutes, totalRouted>>
      /\ UNCHANGED directory /\ UNCHANGED aliasing /\ UNCHANGED graph
      /\ tags' = tags /\ score' = score /\ best' = BestContender'
  BY DEF SetScoringWeights, ValidWeights
<1>2. routes' = routes
  BY <1>1 DEF directory
<1>3. Settled'
  BY <1>1 DEF Inv, Settled
<1>4. Listed' /\ Aliased' /\ Linked' /\ Attached'
  BY <1>1, <1>2, SameListed, SameAliased, SameLinked, SameAttached DEF Inv
<1>5. Ranked'
  BY <1>1, <1>3, <1>4, Recomputed
<1> QED
  BY <1>3, <1>4, <1>5 DEF Inv

LEMMA ScoresStep ==
    ASSUME Inv, NEW caller \in Addresses, NEW scores \in ScoreMaps, SetRouteScores(caller, scores)
    PROVE  Inv'
<1>1. PICK D \in SUBSET Names : scores \in [D -> Scores]
  BY DEF ScoreMaps
<1>2. /\ D \subseteq DOMAIN routes
      /\ score' = [n \in DOMAIN score \cup D |-> IF n \in D THEN scores[n] ELSE score[n]]
      /\ UNCHANGED <<now, settings>>
      /\ UNCHANGED directory /\ UNCHANGED aliasing /\ UNCHANGED graph
      /\ tags' = tags /\ best' = BestContender'
  <2>1. DOMAIN scores = D
    BY <1>1
  <2> QED
    BY <2>1 DEF SetRouteScores
<1>3. routes' = routes
  BY <1>2 DEF directory
<1>4. Attached'
  <2>1. DOMAIN score' = DOMAIN score \cup D /\ score' \in [DOMAIN score' -> Scores]
    BY <1>1, <1>2 DEF Inv, Attached
  <2> QED
    BY <1>2, <1>3, <2>1 DEF Inv, Attached
<1>5. Settled' /\ Listed' /\ Aliased' /\ Linked'
  BY <1>2, <1>3, SameSettled, SameListed, SameAliased, SameLinked DEF Inv
<1>6. Ranked'
  BY <1>2, <1>4, <1>5, Recomputed
<1> QED
  BY <1>4, <1>5, <1>6 DEF Inv

\* Settings that the ranking does not depend on, and the count of calls.
LEMMA SettingsStep ==
    ASSUME Inv, Settled', UNCHANGED <<now, weights>>,
           UNCHANGED <<directory, aliasing, tags, score, graph, best>>
    PROVE  Inv'
<1>1. /\ UNCHANGED directory /\ UNCHANGED aliasing /\ UNCHANGED graph
      /\ tags' = tags /\ score' = score /\ best' = best
  OBVIOUS
<1>2. routes' = routes /\ names' = names
  BY <1>1 DEF directory
<1>3. Listed' /\ Aliased' /\ Linked' /\ Attached' /\ Ranked'
  BY <1>1, <1>2, SameListed, SameAliased, SameLinked, SameAttached, SameRanked DEF Inv
<1> QED
  BY <1>3 DEF Inv

LEMMA TickStep == ASSUME Inv, Tick PROVE Inv'
<1>1. /\ now' \in now + 1 .. MaxLedger
      /\ UNCHANGED settings /\ UNCHANGED directory /\ UNCHANGED aliasing /\ UNCHANGED graph
      /\ tags' = tags /\ score' = score /\ best' = best
  BY DEF Tick
<1>2. routes' = routes /\ names' = names /\ weights' = weights
  BY <1>1 DEF directory, settings
<1>3. now \in Nat /\ MaxLedger \in Nat
  BY NumberAssumption DEF Inv, Settled
<1>4. Settled'
  <2>1. now' \in 0 .. MaxLedger
    BY <1>1, <1>3
  <2> QED
    BY <1>1, <2>1 DEF Inv, Settled, settings
<1>5. Listed' /\ Aliased' /\ Linked' /\ Attached'
  BY <1>1, <1>2, SameListed, SameAliased, SameLinked, SameAttached DEF Inv
<1>6. Ranked'
  <2>1. \A m \in DOMAIN routes : Expired(m) => Expired(m)'
    <3> SUFFICES ASSUME NEW m \in DOMAIN routes, Expired(m) PROVE Expired(m)'
      OBVIOUS
    <3>1. routes[m].expires # None /\ routes[m].expires \in Nat /\ now > routes[m].expires
      BY DEF Expired, Inv, Listed, Entries
    <3> QED
      BY <1>1, <1>2, <1>3, <3>1 DEF Expired
  <2> QED
    BY <1>1, <1>2, <2>1, RouteChangedRanked
<1> QED
  BY <1>4, <1>5, <1>6 DEF Inv

-----------------------------------------------------------------------------
(* The invariant.                                                          *)

LEMMA BatchType ==
    ASSUME NEW S, NEW s \in BatchesOf(S)
    PROVE  s \in Seq(S)
<1>1. PICK k \in 1 .. MaxBatch : s \in [1 .. k -> S]
  BY DEF BatchesOf
<1>2. k \in Nat
  OBVIOUS
<1> QED
  BY <1>1, <1>2

LEMMA RemoveRoutesBatchFree ==
    ASSUME Inv, NEW caller \in Addresses, NEW ns \in BatchesOf(Names), NEW failFast \in BOOLEAN,
           RemoveRoutesBatch(caller, ns, failFast)
    PROVE  \E S \in SUBSET Names : Free(S) /\ ForgetRoutes(S)
<1>1. ns \in Seq(Names)
  BY BatchType
<1>2. Free(Removed(ns)) /\ ForgetRoutes(Removed(ns))
  BY <1>1, RemovedFree DEF RemoveRoutesBatch
<1>3. Removed(ns) \in SUBSET Names
  BY <1>2, NameAssumption DEF Free, Inv, Listed
<1> QED
  BY <1>2, <1>3

LEMMA ManageRoutesStep == ASSUME Inv, NEW a \in Addresses, ManageRoutes(a) PROVE Inv'
<1>1. ASSUME NEW n \in Names, NEW c \in Contracts, NEW m \in Metadata, RegisterRoute(a, n, c, m)
      PROVE  Inv'
  <2>1. Register(n, c, m, None)
    BY <1>1 DEF RegisterRoute
  <2> QED
    BY <2>1, RegisterStep
<1>2. ASSUME NEW n \in Names, NEW c \in Contracts, NEW t \in Ttls \cup {None},
             RegisterRouteWithTtl(a, n, c, t)
      PROVE  Inv'
  <2>1. PICK e : /\ e = IF t = None THEN None ELSE SaturatingAdd(now, t)
                 /\ Register(n, c, None, e)
    BY <1>2 DEF RegisterRouteWithTtl
  <2>2. now \in Nat /\ now <= MaxLedger /\ MaxLedger \in Nat /\ (t # None => t \in Nat)
    BY NumberAssumption DEF Inv, Settled
  <2>3. e \in (0 .. MaxLedger) \cup {None}
    BY <2>1, <2>2 DEF SaturatingAdd
  <2> QED
    BY <2>1, <2>3, RegisterStep
<1>3. ASSUME NEW items \in BatchesOf(Items), NEW f \in BOOLEAN, RegisterRoutesBatch(a, items, f)
      PROVE  Inv'
  BY <1>3, BatchType, RegisterBatchStep
<1>4. ASSUME NEW n \in Names, RemoveRoute(a, n)
      PROVE  Inv'
  <2>1. Free({n}) /\ ForgetRoutes({n})
    BY <1>4, RemoveRouteFree DEF RemoveRoute
  <2> QED
    BY <2>1, ForgetStep
<1>5. ASSUME NEW ns \in BatchesOf(Names), NEW f \in BOOLEAN, RemoveRoutesBatch(a, ns, f)
      PROVE  Inv'
  BY <1>5, RemoveRoutesBatchFree, ForgetStep
<1> QED
  BY <1>1, <1>2, <1>3, <1>4, <1>5, ExtendStep, UpdateRouteStep, PauseRouteStep, DependencyStep
     DEF ManageRoutes

LEMMA ManageDetailsStep == ASSUME Inv, NEW a \in Addresses, ManageDetails(a) PROVE Inv'
  BY UpdateMetadataStep, AddTagStep, RemoveTagStep, AddAliasStep, RemoveAliasStep, ScoresStep
     DEF ManageDetails

LEMMA ConfigureStep == ASSUME Inv, NEW a \in Addresses, Configure(a) PROVE Inv'
<1>1. ASSUME NEW on \in BOOLEAN, SetPaused(a, on)
      PROVE  Inv'
  <2>1. /\ paused' = on /\ UNCHANGED <<now, admin, maxRoutes, weights, totalRouted>>
        /\ UNCHANGED <<directory, aliasing, tags, score, graph, best>>
    BY <1>1 DEF SetPaused
  <2> QED
    BY <2>1, SettingsStep DEF Inv, Settled
<1>2. ASSUME NEW cap \in Caps, SetMaxRoutes(a, cap)
      PROVE  Inv'
  <2>1. /\ maxRoutes' = cap /\ cap > 0 /\ UNCHANGED <<now, admin, paused, weights, totalRouted>>
        /\ UNCHANGED <<directory, aliasing, tags, score, graph, best>>
    BY <1>2 DEF SetMaxRoutes
  <2>2. maxRoutes' \in Nat \ {0}
    BY <2>1, NumberAssumption
  <2> QED
    BY <2>1, <2>2, SettingsStep DEF Inv, Settled
<1>3. ASSUME NEW w \in Weights, SetScoringWeights(a, w)
      PROVE  Inv'
  BY <1>3, WeightsStep
<1>4. ASSUME NEW b \in Addresses, TransferAdmin(a, b)
      PROVE  Inv'
  <2>1. /\ admin' = b /\ UNCHANGED <<now, paused, maxRoutes, weights, totalRouted>>
        /\ UNCHANGED <<directory, aliasing, tags, score, graph, best>>
    BY <1>4 DEF TransferAdmin
  <2> QED
    BY <2>1, SettingsStep DEF Inv, Settled
<1> QED
  BY <1>1, <1>2, <1>3, <1>4 DEF Configure

LEMMA RoutedStep ==
    ASSUME Inv, NEW more \in Nat, totalRouted + more <= MaxRouted,
           totalRouted' = totalRouted + more,
           UNCHANGED <<now, admin, paused, maxRoutes, weights, directory, aliasing, tags, score,
                       graph, best>>
    PROVE  Inv'
<1>1. /\ UNCHANGED <<now, admin, paused, maxRoutes, weights>>
      /\ UNCHANGED <<directory, aliasing, tags, score, graph, best>>
  OBVIOUS
<1>2. MaxRouted \in Nat
  BY NumberAssumption
<1>3. totalRouted' \in 0 .. MaxRouted
  BY <1>2 DEF Inv, Settled
<1>4. Settled'
  BY <1>1, <1>3 DEF Inv, Settled
<1> QED
  BY <1>1, <1>4, SettingsStep

LEMMA InvStep == Inv /\ [Next]_vars => Inv'
<1> SUFFICES ASSUME Inv, [Next]_vars PROVE Inv'
  OBVIOUS
<1>1. ASSUME NEW a \in Addresses, NEW cap \in Caps \cup {None}, Initialize(a, cap)
      PROVE  Inv'
  <2>1. /\ admin' = a /\ cap # 0
        /\ maxRoutes' = (IF cap = None THEN DefaultMaxRoutes ELSE cap)
        /\ UNCHANGED <<now, paused, weights, totalRouted>>
        /\ UNCHANGED <<directory, aliasing, tags, score, graph, best>>
    BY <1>1 DEF Initialize
  <2>2. DefaultMaxRoutes \in Nat \ {0} /\ (cap # None => cap \in Nat)
    BY NumberAssumption
  <2>3. Settled'
    BY <2>1, <2>2 DEF Inv, Settled
  <2> QED
    BY <2>1, <2>3, SettingsStep
<1>2. ASSUME NEW n \in Names, Resolve(n)
      PROVE  Inv'
  <2>1. /\ totalRouted < MaxRouted /\ totalRouted' = totalRouted + 1
        /\ UNCHANGED <<now, admin, paused, maxRoutes, weights, directory, aliasing, tags, score,
                       graph, best>>
    BY <1>2 DEF Resolve
  <2>2. totalRouted + 1 <= MaxRouted
    BY <2>1, NumberAssumption DEF Inv, Settled
  <2> QED
    BY <2>1, <2>2, RoutedStep
<1>3. ASSUME NEW ns \in BatchesOf(Names), BatchResolve(ns)
      PROVE  Inv'
  <2>1. PICK I : I = {i \in DOMAIN ns : Resolves(ns[i])}
    OBVIOUS
  <2>2. /\ totalRouted + Cardinality(I) <= MaxRouted
        /\ totalRouted' = totalRouted + Cardinality(I)
        /\ UNCHANGED <<now, admin, paused, maxRoutes, weights, directory, aliasing, tags, score,
                       graph, best>>
    BY <1>3, <2>1 DEF BatchResolve
  <2>3. Cardinality(I) \in Nat
    <3>1. PICK n \in Nat : DOMAIN ns = 1 .. n
      BY <1>3, BatchType
    <3>2. IsFiniteSet(1 .. n) /\ I \in SUBSET (1 .. n)
      BY <2>1, <3>1, FS_Interval
    <3> QED
      BY <3>2, FS_Subset, FS_CardinalityType
  <2> QED
    BY <2>2, <2>3, RoutedStep
<1>4. CASE UNCHANGED vars
  <2>1. /\ UNCHANGED <<now, settings>>
        /\ UNCHANGED <<directory, aliasing, tags, score, graph, best>>
    BY <1>4 DEF vars
  <2>2. Settled' /\ now' = now /\ weights' = weights
    BY <2>1, SameSettled DEF Inv, settings
  <2> QED
    BY <2>1, <2>2, SettingsStep
<1> QED
  BY <1>1, <1>2, <1>3, <1>4, ManageRoutesStep, ManageDetailsStep, ConfigureStep, TickStep DEF Next

LEMMA Invariance == Spec => []Inv
  BY InvInit, InvStep, PTL DEF Spec

\* Every index of the directory says what the keyed storage says, after any
\* sequence of calls and batches.
THEOREM IndexesStayExact == Spec => []IndexesExact
  BY Invariance, InvProperties, PTL

\* No name stands for two things, and no alias outlives its route.
THEOREM NamesStayUnambiguous == Spec => []NamesUnambiguous
  BY Invariance, InvProperties, PTL

\* The dependency graph and its inverse agree and have no circle, whatever the
\* recursion limit at which the check of a new dependency gives up.
THEOREM GraphStaysSound == Spec => []GraphSound
  BY Invariance, InvProperties, PTL

\* The cached best route, while it counts, is the best of the live ones,
\* although only some entry points recompute it, two of them differently.
THEOREM BestStaysCurrent == Spec => []BestRouteCurrent
  BY Invariance, BestCurrent, PTL

-----------------------------------------------------------------------------
(* Resolving the dependencies.  The walk is a recursion on the depth, and  *)
(* inside a call another one over the dependencies of the name: W is the   *)
(* walk, Gathered what a call has resolved after each of its dependencies. *)

Results == Seq(Names) \cup {None}

CallAt(d, n, s) == [depth |-> d, name |-> n, done |-> s]

Gathering(W, call, below) ==
    below = [i \in 0 .. Len(dependencies[call.name]) |->
               IF i = 0 THEN call.done
               ELSE IF below[i - 1] = None THEN None
               ELSE W[CallAt(call.depth + 1, dependencies[call.name][i], below[i - 1])]]

Gathered(W, call) == CHOOSE below : Gathering(W, call, below)

Walked(W, call) ==
    IF call.depth > MaxRecursionDepth THEN None
    ELSE IF call.name \in Range(call.done) THEN call.done
    ELSE IF \/ Gathered(W, call)[Len(dependencies[call.name])] = None
            \/ ~Usable(call.name)
           THEN None
    ELSE Append(Gathered(W, call)[Len(dependencies[call.name])], call.name)

IsWalk(W) == W = [call \in WalkCalls |-> Walked(W, call)]

LEMMA WalkChosen ==
    ASSUME NEW n
    PROVE  ResolvedFrom(n) = (CHOOSE W : IsWalk(W))[CallAt(0, n, << >>)]
  BY Zenon DEF ResolvedFrom, IsWalk, Walked, Gathered, Gathering, CallAt

\* A call one level down is a call.
LEMMA CallsBelow ==
    ASSUME NEW call \in WalkCalls, call.depth <= MaxRecursionDepth,
           NEW n \in Names, NEW s \in Seq(Names)
    PROVE  /\ CallAt(call.depth + 1, n, s) \in WalkCalls
           /\ CallAt(call.depth + 1, n, s).depth = call.depth + 1
           /\ CallAt(call.depth + 1, n, s).name = n
           /\ CallAt(call.depth + 1, n, s).done = s
  BY NumberAssumption DEF WalkCalls, CallAt

LEMMA CallTypes ==
    ASSUME NEW call \in WalkCalls, dependencies \in [Names -> Seq(Names)]
    PROVE  /\ call.depth \in 0 .. MaxRecursionDepth + 1 /\ call.depth \in Nat
           /\ call.name \in Names /\ call.done \in Seq(Names) /\ call.done # None
           /\ \E z \in Nat : z = Len(dependencies[call.name])
           /\ \A i \in 1 .. Len(dependencies[call.name]) : dependencies[call.name][i] \in Names
<1>1. /\ call.depth \in 0 .. MaxRecursionDepth + 1
      /\ call.name \in Names /\ call.done \in Seq(Names)
  BY DEF WalkCalls
<1>2. dependencies[call.name] \in Seq(Names)
  BY <1>1
<1> QED
  BY <1>1, <1>2, NumberAssumption, NoneAssumption

\* The loop over the dependencies, where the calls one level down give results.
LEMMA LoopExists ==
    ASSUME dependencies \in [Names -> Seq(Names)], NEW W, NEW call \in WalkCalls,
           call.depth <= MaxRecursionDepth,
           \A c \in WalkCalls : c.depth = call.depth + 1 => W[c] \in Results
    PROVE  \E below : Gathering(W, call, below)
<1>1. PICK needs \in Seq(Names) : needs = dependencies[call.name]
  BY DEF WalkCalls
<1>2. PICK z \in Nat : z = Len(needs) /\ \A i \in 1 .. z : needs[i] \in Names
  OBVIOUS
<1>3. PICK d \in Nat : d = call.depth
  BY CallTypes
<1>4. PICK s \in Seq(Names) : s = call.done
  BY CallTypes
<1> DEFINE after(i, x) == IF i \in 1 .. z /\ x # None THEN W[CallAt(d + 1, needs[i], x)] ELSE None
<1>5. ASSUME NEW i \in Nat, NEW x \in Results
      PROVE  after(i, x) \in Results
  <2>1. CASE i \in 1 .. z /\ x # None
    <3>1. x \in Seq(Names) /\ needs[i] \in Names
      BY <1>2, <2>1 DEF Results
    <3>2. PICK c : c = CallAt(d + 1, needs[i], x)
      OBVIOUS
    <3>3. c \in WalkCalls /\ c.depth = call.depth + 1
      BY <1>3, <3>1, <3>2, CallsBelow
    <3> QED
      BY <2>1, <3>2, <3>3
  <2>2. CASE ~(i \in 1 .. z /\ x # None)
    BY <2>2 DEF Results
  <2> QED
    BY <2>1, <2>2
<1> HIDE DEF after
<1>6. PICK step : step = [i \in Nat |-> [x \in Results |-> after(i, x)]]
  OBVIOUS
<1>7. /\ step \in [Nat -> [Results -> Results]]
      /\ \A i \in Nat, x \in Results : step[i][x] = after(i, x)
  BY <1>5, <1>6
<1>8. s \in Results
  BY DEF Results
<1>9. PICK f \in [Nat -> Results] : IsRun(f, s, step)
  BY <1>7, <1>8, Steps
<1>10. f[0] = s /\ \A k \in Nat : f[k + 1] = after(k + 1, f[k])
  <2>1. f[0] = s
    BY <1>9 DEF IsRun
  <2>2. ASSUME NEW k \in Nat
        PROVE  f[k + 1] = after(k + 1, f[k])
    <3>1. f[k + 1] = step[k + 1][f[k]]
      BY <1>9 DEF IsRun
    <3>2. k + 1 \in Nat /\ f[k] \in Results
      OBVIOUS
    <3> QED
      BY <1>7, <3>1, <3>2
  <2> QED
    BY <2>1, <2>2
<1>11. PICK b : b = [i \in 0 .. z |-> f[i]]
  OBVIOUS
<1>12. ASSUME NEW i \in 0 .. z
       PROVE  b[i] = IF i = 0 THEN s
                     ELSE IF b[i - 1] = None THEN None
                     ELSE W[CallAt(d + 1, needs[i], b[i - 1])]
  <2>1. CASE i = 0
    BY <1>10, <1>11, <2>1
  <2>2. CASE i # 0
    <3>1. PICK k \in Nat : k = i - 1 /\ i = k + 1 /\ k \in 0 .. z /\ i \in 1 .. z
      BY <2>2
    <3>2. b[i] = after(i, f[k]) /\ b[k] = f[k]
      BY <1>10, <1>11, <3>1
    <3> QED
      BY <2>2, <3>1, <3>2 DEF after
  <2> QED
    BY <2>1, <2>2
<1>13. b = [i \in 0 .. z |-> IF i = 0 THEN s
                             ELSE IF b[i - 1] = None THEN None
                             ELSE W[CallAt(d + 1, needs[i], b[i - 1])]]
  BY <1>11, <1>12
<1>14. Gathering(W, call, b)
  BY <1>1, <1>2, <1>3, <1>4, <1>13 DEF Gathering
<1> QED
  BY <1>14

LEMMA Loop ==
    ASSUME dependencies \in [Names -> Seq(Names)], NEW W, NEW call \in WalkCalls,
           call.depth <= MaxRecursionDepth,
           \A c \in WalkCalls : c.depth = call.depth + 1 => W[c] \in Results,
           NEW b, b = Gathered(W, call)
    PROVE  /\ b = [i \in 0 .. Len(dependencies[call.name]) |-> b[i]]
           /\ b[0] = call.done
           /\ \A i \in 1 .. Len(dependencies[call.name]) :
                 b[i] = IF b[i - 1] = None THEN None
                        ELSE W[CallAt(call.depth + 1, dependencies[call.name][i], b[i - 1])]
           /\ \A i \in 0 .. Len(dependencies[call.name]) : b[i] \in Results
<1>1. Gathering(W, call, b)
  BY LoopExists DEF Gathered
<1>2. PICK z \in Nat : z = Len(dependencies[call.name])
  BY CallTypes
<1>3. b = [i \in 0 .. z |-> IF i = 0 THEN call.done
             ELSE IF b[i - 1] = None THEN None
             ELSE W[CallAt(call.depth + 1, dependencies[call.name][i], b[i - 1])]]
  BY <1>1, <1>2 DEF Gathering
<1>4. PICK g : g = b
  OBVIOUS
<1>5. \A i \in 0 .. z : b[i] = IF i = 0 THEN call.done
             ELSE IF g[i - 1] = None THEN None
             ELSE W[CallAt(call.depth + 1, dependencies[call.name][i], g[i - 1])]
  BY <1>3, <1>4
<1>6. b = [i \in 0 .. z |-> b[i]] /\ b[0] = call.done
  BY <1>3, <1>5
<1>7. \A i \in 1 .. z :
         b[i] = IF b[i - 1] = None THEN None
                ELSE W[CallAt(call.depth + 1, dependencies[call.name][i], b[i - 1])]
  BY <1>4, <1>5
<1> DEFINE M == {i \in Nat : i <= z => b[i] \in Results}
<1>8. 0 \in M
  BY <1>6, CallTypes DEF Results
<1>9. ASSUME NEW k \in M
      PROVE  k + 1 \in M
  <2> SUFFICES ASSUME k + 1 <= z PROVE b[k + 1] \in Results
    OBVIOUS
  <2>1. k \in Nat /\ k <= z /\ k + 1 \in 1 .. z /\ (k + 1) - 1 = k
    OBVIOUS
  <2>2. b[k] \in Results
    BY <2>1
  <2>3. b[k + 1] = IF b[k] = None THEN None
                   ELSE W[CallAt(call.depth + 1, dependencies[call.name][k + 1], b[k])]
    BY <1>7, <2>1
  <2>4. CASE b[k] = None
    BY <2>3, <2>4 DEF Results
  <2>5. CASE b[k] # None
    <3>1. PICK x \in Seq(Names) : x = b[k]
      BY <2>2, <2>5 DEF Results
    <3>2. PICK m \in Names : m = dependencies[call.name][k + 1]
      BY <1>2, <2>1, CallTypes
    <3>3. /\ CallAt(call.depth + 1, m, x) \in WalkCalls
          /\ CallAt(call.depth + 1, m, x).depth = call.depth + 1
      BY CallsBelow
    <3> QED
      BY <2>3, <2>5, <3>1, <3>2, <3>3
  <2> QED
    BY <2>4, <2>5
<1>10. M = Nat
  <2>1. M \in SUBSET Nat
    OBVIOUS
  <2> HIDE DEF M
  <2> QED
    BY <1>8, <1>9, <2>1, Induction
<1>11. \A i \in 0 .. z : b[i] \in Results
  BY <1>10
<1> QED
  BY <1>2, <1>6, <1>7, <1>11

LEMMA WalkedType ==
    ASSUME dependencies \in [Names -> Seq(Names)], NEW W, NEW call \in WalkCalls,
           \A c \in WalkCalls : c.depth = call.depth + 1 => W[c] \in Results
    PROVE  Walked(W, call) \in Results
<1>1. call.done \in Results
  BY CallTypes DEF Results
<1>2. CASE call.depth > MaxRecursionDepth
  BY <1>2 DEF Walked, Results
<1>3. CASE call.depth <= MaxRecursionDepth
  <2>1. PICK b : b = Gathered(W, call)
    OBVIOUS
  <2>2. PICK r : r = b[Len(dependencies[call.name])]
    OBVIOUS
  <2>3. r \in Results
    <3>1. PICK z \in Nat : z = Len(dependencies[call.name])
      BY CallTypes
    <3>2. z \in 0 .. z
      OBVIOUS
    <3> QED
      BY <1>3, <2>1, <2>2, <3>1, <3>2, Loop
  <2>4. r = None \/ Append(r, call.name) \in Seq(Names)
    <3>1. r # None => r \in Seq(Names)
      BY <2>3 DEF Results
    <3> QED
      BY <3>1, CallTypes
  <2>5. ~(call.depth > MaxRecursionDepth)
    BY <1>3, CallTypes, NumberAssumption
  <2>6. \/ Walked(W, call) \in {call.done, None}
        \/ r # None /\ Walked(W, call) = Append(r, call.name)
    BY <2>1, <2>2, <2>5 DEF Walked
  <2> QED
    BY <1>1, <2>4, <2>6 DEF Results
<1> QED
  BY <1>2, <1>3, CallTypes, NumberAssumption

\* What a call answers depends on the calls one level down alone.
LEMMA WalkedSame ==
    ASSUME dependencies \in [Names -> Seq(Names)], NEW W, NEW V, NEW call \in WalkCalls,
           \A c \in WalkCalls : c.depth = call.depth + 1 => W[c] \in Results /\ V[c] = W[c]
    PROVE  Walked(V, call) = Walked(W, call)
<1>1. CASE call.depth > MaxRecursionDepth
  BY <1>1 DEF Walked
<1>2. CASE call.depth <= MaxRecursionDepth
  <2>0. PICK z \in Nat : z = Len(dependencies[call.name])
    BY CallTypes
  <2>1. PICK b : b = Gathered(W, call)
    OBVIOUS
  <2>2. PICK g : g = Gathered(V, call)
    OBVIOUS
  <2>3. /\ b = [i \in 0 .. z |-> b[i]] /\ b[0] = call.done
        /\ \A i \in 1 .. z :
              b[i] = IF b[i - 1] = None THEN None
                     ELSE W[CallAt(call.depth + 1, dependencies[call.name][i], b[i - 1])]
        /\ \A i \in 0 .. z : b[i] \in Results
    BY <1>2, <2>0, <2>1, Loop
  <2>4. /\ g = [i \in 0 .. z |-> g[i]] /\ g[0] = call.done
        /\ \A i \in 1 .. z :
              g[i] = IF g[i - 1] = None THEN None
                     ELSE V[CallAt(call.depth + 1, dependencies[call.name][i], g[i - 1])]
    <3>1. \A c \in WalkCalls : c.depth = call.depth + 1 => V[c] \in Results
      OBVIOUS
    <3> QED
      BY <1>2, <2>0, <2>2, <3>1, Loop
  <2> DEFINE M == {i \in Nat : i <= z => g[i] = b[i]}
  <2>5. 0 \in M
    BY <2>3, <2>4
  <2>6. ASSUME NEW k \in M
        PROVE  k + 1 \in M
    <3> SUFFICES ASSUME k + 1 <= z PROVE g[k + 1] = b[k + 1]
      OBVIOUS
    <3>1. k \in 0 .. z /\ k + 1 \in 1 .. z /\ (k + 1) - 1 = k /\ g[k] = b[k]
      BY <2>0
    <3>2. b[k + 1] = IF b[k] = None THEN None
                     ELSE W[CallAt(call.depth + 1, dependencies[call.name][k + 1], b[k])]
      BY <2>3, <3>1
    <3>3. g[k + 1] = IF b[k] = None THEN None
                     ELSE V[CallAt(call.depth + 1, dependencies[call.name][k + 1], b[k])]
      BY <2>4, <3>1
    <3>4. CASE b[k] = None
      BY <3>2, <3>3, <3>4
    <3>5. CASE b[k] # None
      <4>1. PICK x \in Seq(Names) : x = b[k]
        BY <2>3, <3>1, <3>5 DEF Results
      <4>2. PICK m \in Names : m = dependencies[call.name][k + 1]
        BY <2>0, <3>1, CallTypes
      <4>3. PICK c : c = CallAt(call.depth + 1, m, x)
        OBVIOUS
      <4>4. c \in WalkCalls /\ c.depth = call.depth + 1
        BY <1>2, <4>3, CallsBelow
      <4>5. V[c] = W[c]
        BY <4>4
      <4> QED
        BY <3>2, <3>3, <3>5, <4>1, <4>2, <4>3, <4>5
    <3> QED
      BY <3>4, <3>5
  <2>7. M = Nat
    <3>1. M \in SUBSET Nat
      OBVIOUS
    <3> HIDE DEF M
    <3> QED
      BY <2>5, <2>6, <3>1, Induction
  <2>8. \A i \in 0 .. z : g[i] = b[i]
    BY <2>7
  <2>9. g = b
    BY <2>3, <2>4, <2>8
  <2> QED
    BY <2>1, <2>2, <2>9 DEF Walked
<1> QED
  BY <1>1, <1>2, CallTypes, NumberAssumption

LEMMA WalkExists ==
    ASSUME dependencies \in [Names -> Seq(Names)]
    PROVE  \E W : IsWalk(W)
<1>1. PICK D \in Nat : D = MaxRecursionDepth + 1
  BY NumberAssumption
<1> DEFINE Upto(W, k) == \A call \in WalkCalls : call.depth + k >= D => W[call] = Walked(W, call)
           M == {k \in Nat : \E W \in [WalkCalls -> Results] : Upto(W, k)}
<1>2. \A call \in WalkCalls : call.depth \in 0 .. D /\ call.depth \in Nat
  BY <1>1, CallTypes
<1>3. 0 \in M
  <2>1. PICK W : W = [call \in WalkCalls |-> None]
    OBVIOUS
  <2>2. W \in [WalkCalls -> Results]
    BY <2>1 DEF Results
  <2>3. ASSUME NEW call \in WalkCalls, call.depth + 0 >= D
        PROVE  W[call] = Walked(W, call)
    <3>1. call.depth > MaxRecursionDepth
      BY <1>1, <1>2, <2>3, NumberAssumption
    <3> QED
      BY <2>1, <3>1 DEF Walked
  <2> QED
    BY <2>2, <2>3
<1>4. ASSUME NEW k \in M
      PROVE  k + 1 \in M
  <2>0. k \in Nat
    OBVIOUS
  <2>1. PICK W \in [WalkCalls -> Results] : Upto(W, k)
    OBVIOUS
  <2>2. PICK V : V = [call \in WalkCalls |-> Walked(W, call)]
    OBVIOUS
  <2>3. V \in [WalkCalls -> Results]
    <3>1. \A c \in WalkCalls : W[c] \in Results
      OBVIOUS
    <3>2. \A call \in WalkCalls : Walked(W, call) \in Results
      BY <3>1, WalkedType
    <3> QED
      BY <2>2, <3>2
  <2>4. ASSUME NEW call \in WalkCalls, call.depth + (k + 1) >= D
        PROVE  V[call] = Walked(V, call)
    <3>1. ASSUME NEW c \in WalkCalls, c.depth = call.depth + 1
          PROVE  W[c] \in Results /\ V[c] = W[c]
      <4>1. c.depth + k >= D
        BY <1>2, <2>0, <2>4, <3>1
      <4>2. W[c] = Walked(W, c)
        BY <2>1, <4>1
      <4> QED
        BY <2>2, <4>2
    <3>2. Walked(V, call) = Walked(W, call)
      BY <3>1, WalkedSame
    <3> QED
      BY <2>2, <3>2
  <2> QED
    BY <2>0, <2>3, <2>4
<1>5. M = Nat
  <2>1. M \in SUBSET Nat
    OBVIOUS
  <2> HIDE DEF M
  <2> QED
    BY <1>3, <1>4, <2>1, Induction
<1>6. PICK W \in [WalkCalls -> Results] : Upto(W, D)
  BY <1>5
<1>7. \A call \in WalkCalls : W[call] = Walked(W, call)
  BY <1>2, <1>6
<1>8. W = [call \in WalkCalls |-> Walked(W, call)]
  BY <1>7
<1> QED
  BY <1>8 DEF IsWalk

\* The routes an answer lists are usable, and each comes after those it needs.
Ordered(s) ==
    /\ IsInjective(s)
    /\ \A j \in DOMAIN s : /\ Usable(s[j])
                           /\ Range(dependencies[s[j]]) \subseteq {s[i] : i \in 1 .. j - 1}

LEMMA OrderedInside ==
    ASSUME NEW s \in Seq(Names), Ordered(s)
    PROVE  Range(s) \in SUBSET Names /\ NeedsInside(Range(s))
<1>1. PICK z \in Nat : z = Len(s) /\ DOMAIN s = 1 .. z
  OBVIOUS
<1>2. Range(s) \in SUBSET Names
  BY RangeFinite
<1>3. ASSUME NEW n \in Range(s)
      PROVE  Range(dependencies[n]) \subseteq Range(s)
  <2>1. PICK j \in 1 .. z : n = s[j]
    BY <1>1 DEF Range
  <2>2. Range(dependencies[n]) \subseteq {s[i] : i \in 1 .. j - 1}
    BY <1>1, <2>1 DEF Ordered
  <2>3. {s[i] : i \in 1 .. j - 1} \subseteq Range(s)
    BY <1>1, <2>1 DEF Range
  <2> QED
    BY <2>2, <2>3
<1> QED
  BY <1>2, <1>3 DEF NeedsInside

LEMMA OrderedAppends ==
    ASSUME NEW s \in Seq(Names), Ordered(s), NEW n \in Names, n \notin Range(s), Usable(n),
           Range(dependencies[n]) \subseteq Range(s)
    PROVE  Ordered(Append(s, n))
<1>1. PICK z \in Nat : z = Len(s) /\ DOMAIN s = 1 .. z
  OBVIOUS
<1>2. PICK t : t = Append(s, n)
  OBVIOUS
<1>3. /\ DOMAIN t = 1 .. z + 1 /\ t[z + 1] = n
      /\ \A i \in 1 .. z : t[i] = s[i]
  BY <1>1, <1>2
<1>4. IsInjective(t)
  BY <1>2, AppendElements DEF Ordered
<1>5. ASSUME NEW j \in 1 .. z + 1
      PROVE  Usable(t[j]) /\ Range(dependencies[t[j]]) \subseteq {t[i] : i \in 1 .. j - 1}
  <2>1. CASE j = z + 1
    <3>1. Range(s) = {s[i] : i \in 1 .. z}
      BY <1>1 DEF Range
    <3>2. {s[i] : i \in 1 .. z} = {t[i] : i \in 1 .. z}
      BY <1>3
    <3>3. j - 1 = z
      BY <2>1
    <3> QED
      BY <1>3, <2>1, <3>1, <3>2, <3>3
  <2>2. CASE j \in 1 .. z
    <3>1. t[j] = s[j] /\ \A i \in 1 .. j - 1 : t[i] = s[i]
      BY <1>3, <2>2
    <3>2. {s[i] : i \in 1 .. j - 1} = {t[i] : i \in 1 .. j - 1}
      BY <3>1
    <3>3. Usable(s[j]) /\ Range(dependencies[s[j]]) \subseteq {s[i] : i \in 1 .. j - 1}
      BY <1>1, <2>2 DEF Ordered
    <3> QED
      BY <3>1, <3>2, <3>3
  <2>3. j = z + 1 \/ j \in 1 .. z
    OBVIOUS
  <2> QED
    BY <2>1, <2>2, <2>3
<1>6. Ordered(t)
  BY <1>3, <1>4, <1>5 DEF Ordered
<1> QED
  BY <1>2, <1>6

\* The routes that do not need n.  Nothing n depends on needs n.
Avoiding(n) == UNION {S \in SUBSET Names : NeedsInside(S) /\ n \notin S}

LEMMA AvoidingIs ==
    ASSUME Inv, NEW n \in Names
    PROVE  /\ Avoiding(n) \in SUBSET Names /\ NeedsInside(Avoiding(n)) /\ n \notin Avoiding(n)
           /\ \A S \in SUBSET Names : NeedsInside(S) /\ n \notin S => S \subseteq Avoiding(n)
           /\ Range(dependencies[n]) \subseteq Avoiding(n)
<1>1. /\ Avoiding(n) \in SUBSET Names /\ n \notin Avoiding(n)
      /\ \A S \in SUBSET Names : NeedsInside(S) /\ n \notin S => S \subseteq Avoiding(n)
  BY DEF Avoiding
<1>2. NeedsInside(Avoiding(n))
  <2> SUFFICES ASSUME NEW m \in Avoiding(n)
               PROVE  Range(dependencies[m]) \subseteq Avoiding(n)
    BY DEF NeedsInside
  <2>1. PICK S \in SUBSET Names : NeedsInside(S) /\ n \notin S /\ m \in S
    BY DEF Avoiding
  <2>2. Range(dependencies[m]) \subseteq S
    BY <2>1 DEF NeedsInside
  <2> QED
    BY <1>1, <2>1, <2>2
<1>3. PICK A \in SUBSET Names : A = Avoiding(n)
  BY <1>1
<1>4. PICK m \in Names \ A : Range(dependencies[m]) \cap (Names \ A) = {}
  <2>1. DependenciesAcyclic
    BY DEF Inv, Linked
  <2>2. Names \ A \in SUBSET Names /\ Names \ A # {}
    BY <1>1, <1>3
  <2> QED
    BY <2>1, <2>2 DEF DependenciesAcyclic
<1>5. Range(dependencies[m]) \subseteq A
  <2>1. dependencies[m] \in Seq(Names)
    BY DEF Inv, Linked
  <2>2. Range(dependencies[m]) \subseteq Names
    BY <2>1, RangeFinite
  <2> QED
    BY <1>4, <2>2
<1>6. m = n
  <2> SUFFICES ASSUME m # n PROVE FALSE
    OBVIOUS
  <2>1. A \cup {m} \in SUBSET Names /\ n \notin A \cup {m}
    BY <1>1, <1>3
  <2>2. NeedsInside(A \cup {m})
    BY <1>2, <1>3, <1>5 DEF NeedsInside
  <2> QED
    BY <1>1, <1>3, <1>4, <2>1, <2>2
<1> QED
  BY <1>1, <1>2, <1>3, <1>5, <1>6

LEMMA NeededIs ==
    ASSUME Inv, NEW root \in Names
    PROVE  /\ Needed(root) \in SUBSET Names /\ root \in Needed(root) /\ NeedsInside(Needed(root))
           /\ \A S \in SUBSET Names : root \in S /\ NeedsInside(S) => Needed(root) \subseteq S
<1>1. \A n \in Names : Range(dependencies[n]) \subseteq Names
  <2> SUFFICES ASSUME NEW n \in Names PROVE Range(dependencies[n]) \subseteq Names
    OBVIOUS
  <2>1. dependencies[n] \in Seq(Names)
    BY DEF Inv, Linked
  <2> QED
    BY <2>1, RangeFinite
<1>2. NeedsInside(Needed(root))
  <2> SUFFICES ASSUME NEW n \in Needed(root), NEW m \in Range(dependencies[n]),
                      NEW S \in SUBSET Names, root \in S, NeedsInside(S)
               PROVE  m \in S /\ m \in Names
    BY <1>1 DEF NeedsInside, Needed
  <2>1. n \in S
    BY DEF Needed
  <2> QED
    BY <2>1 DEF NeedsInside
<1> QED
  BY <1>2 DEF Needed

\* The levels StepsAway is taken from.
LEMMA StepsAwayIs ==
    ASSUME Inv, NEW root \in Names
    PROVE  /\ StepsAway(root, 0) = {root}
           /\ \A k \in Nat : /\ StepsAway(root, k + 1) =
                                  UNION {Range(dependencies[n]) : n \in StepsAway(root, k)}
                             /\ StepsAway(root, k) \subseteq Needed(root)
<1>1. PICK level : level = [k \in Nat |-> IF k = 0 THEN {root}
                              ELSE UNION {Range(dependencies[n]) : n \in level[k - 1]}]
  BY LevelsExist
<1>2. PICK h : h = level
  OBVIOUS
<1>3. \A k \in Nat : level[k] = IF k = 0 THEN {root}
                                ELSE UNION {Range(dependencies[n]) : n \in h[k - 1]}
  BY <1>1, <1>2
<1> DEFINE Levels(g, k) == g = [i \in 0 .. k |-> IF i = 0 THEN {root}
                                  ELSE UNION {Range(dependencies[n]) : n \in g[i - 1]}]
<1>4. ASSUME NEW k \in Nat
      PROVE  StepsAway(root, k) = level[k]
  <2>1. PICK g : g = CHOOSE f : Levels(f, k)
    OBVIOUS
  <2>2. StepsAway(root, k) = g[k]
    BY <2>1, Zenon DEF StepsAway
  <2>3. \E f : Levels(f, k)
    <3>1. PICK f : f = [i \in 0 .. k |-> level[i]]
      OBVIOUS
    <3>2. ASSUME NEW i \in 0 .. k
          PROVE  f[i] = IF i = 0 THEN {root} ELSE UNION {Range(dependencies[n]) : n \in f[i - 1]}
      <4>1. f[i] = level[i] /\ i \in Nat
        BY <3>1
      <4>2. i # 0 => i - 1 \in 0 .. k
        OBVIOUS
      <4>3. i # 0 => f[i - 1] = h[i - 1]
        BY <1>2, <3>1, <4>2
      <4> QED
        BY <1>3, <4>1, <4>3
    <3>3. Levels(f, k)
      BY <3>1, <3>2
    <3> QED
      BY <3>3
  <2>4. Levels(g, k)
    <3> HIDE DEF Levels
    <3> QED
      BY <2>1, <2>3
  <2>5. PICK e : e = g
    OBVIOUS
  <2>6. \A i \in 0 .. k : g[i] = IF i = 0 THEN {root}
                                 ELSE UNION {Range(dependencies[n]) : n \in e[i - 1]}
    BY <2>4, <2>5
  <2> DEFINE M == {i \in Nat : i <= k => g[i] = level[i]}
  <2>7. 0 \in M
    <3>1. g[0] = {root}
      <4>1. 0 \in 0 .. k
        OBVIOUS
      <4>2. g[0] = IF 0 = 0 THEN {root} ELSE UNION {Range(dependencies[n]) : n \in e[0 - 1]}
        BY <2>6, <4>1
      <4> QED
        BY <4>2
    <3>2. level[0] = {root}
      BY <1>3
    <3> QED
      BY <3>1, <3>2
  <2>8. ASSUME NEW i \in M
        PROVE  i + 1 \in M
    <3> SUFFICES ASSUME i + 1 <= k PROVE g[i + 1] = level[i + 1]
      OBVIOUS
    <3>1. /\ i \in Nat /\ i + 1 \in Nat /\ i + 1 \in 0 .. k /\ i + 1 # 0 /\ (i + 1) - 1 = i
          /\ g[i] = level[i]
      OBVIOUS
    <3>2. g[i + 1] = UNION {Range(dependencies[n]) : n \in e[i]}
      BY <2>6, <3>1
    <3>3. level[i + 1] = UNION {Range(dependencies[n]) : n \in h[i]}
      <4>1. level[i + 1] = IF i + 1 = 0 THEN {root}
                           ELSE UNION {Range(dependencies[n]) : n \in h[(i + 1) - 1]}
        BY <1>3, <3>1
      <4> HIDE DEF M
      <4> QED
        BY <3>1, <4>1
    <3> QED
      BY <1>2, <2>5, <3>1, <3>2, <3>3
  <2>9. M = Nat
    <3>1. M \in SUBSET Nat
      OBVIOUS
    <3> HIDE DEF M
    <3> QED
      BY <2>7, <2>8, <3>1, Induction
  <2> QED
    BY <2>2, <2>9
<1>5. StepsAway(root, 0) = {root}
  BY <1>3, <1>4
<1>6. ASSUME NEW k \in Nat
      PROVE  StepsAway(root, k + 1) = UNION {Range(dependencies[n]) : n \in StepsAway(root, k)}
  <2>1. k + 1 \in Nat /\ k + 1 # 0 /\ (k + 1) - 1 = k
    OBVIOUS
  <2>2. level[k + 1] = UNION {Range(dependencies[n]) : n \in h[k]}
    BY <1>3, <2>1
  <2> QED
    BY <1>2, <1>4, <2>1, <2>2
<1> HIDE DEF Levels
<1> DEFINE T == {k \in Nat : StepsAway(root, k) \subseteq Needed(root)}
<1>7. 0 \in T
  BY <1>5, NeededIs
<1>8. ASSUME NEW k \in T
      PROVE  k + 1 \in T
  <2>1. \A n \in Needed(root) : Range(dependencies[n]) \subseteq Needed(root)
    BY NeededIs DEF NeedsInside
  <2>2. StepsAway(root, k + 1) \subseteq Needed(root)
    BY <1>6, <2>1
  <2> QED
    BY <2>2
<1>9. T = Nat
  <2>1. T \in SUBSET Nat
    OBVIOUS
  <2> HIDE DEF T
  <2> QED
    BY <1>7, <1>8, <2>1, Induction
<1> QED
  BY <1>5, <1>6, <1>9

\* Why the answer for a route may be an error, and a call made on its behalf.
Excused(root) ==
    \/ StepsAway(root, MaxRecursionDepth + 1) # {}
    \/ \E m \in Needed(root) : ~Usable(m)

Failed(call) ==
    \A root \in Names : call.name \in StepsAway(root, call.depth) => Excused(root)

\* What a call answers: s has what was resolved before and what the names of N
\* need, and nothing else.
Resolved(done, N, s) ==
    /\ Ordered(s)
    /\ Range(done) \subseteq Range(s) /\ N \subseteq Range(s)
    /\ \A S \in SUBSET Names :
          NeedsInside(S) /\ Range(done) \cup N \subseteq S => Range(s) \subseteq S

Answers(call, r) ==
    /\ r \in Results
    /\ r = None => Failed(call)
    /\ r # None /\ Ordered(call.done) => Resolved(call.done, {call.name}, r)

\* One call more extends what is resolved.
LEMMA ResolvedMore ==
    ASSUME NEW done, NEW N, NEW s, NEW m, NEW t,
           Resolved(done, N, s), Resolved(s, {m}, t)
    PROVE  Resolved(done, N \cup {m}, t)
  BY DEF Resolved

LEMMA LoopAnswers ==
    ASSUME Inv, NEW W, NEW call \in WalkCalls, call.depth <= MaxRecursionDepth,
           \A c \in WalkCalls : c.depth = call.depth + 1 => Answers(c, W[c]),
           NEW r, r = Gathered(W, call)[Len(dependencies[call.name])]
    PROVE  /\ r \in Results
           /\ r = None => Failed(call)
           /\ r # None /\ Ordered(call.done) =>
                 Resolved(call.done, Range(dependencies[call.name]), r)
<1>0. dependencies \in [Names -> Seq(Names)]
  BY DEF Inv, Linked
<1>1. PICK needs \in Seq(Names) : needs = dependencies[call.name]
  BY <1>0, CallTypes
<1>2. PICK z \in Nat : /\ z = Len(needs) /\ DOMAIN needs = 1 .. z
                       /\ \A i \in 1 .. z : needs[i] \in Names
  OBVIOUS
<1>3. PICK b : b = Gathered(W, call)
  OBVIOUS
<1>4. /\ b[0] = call.done
      /\ \A i \in 1 .. z : b[i] = IF b[i - 1] = None THEN None
                                  ELSE W[CallAt(call.depth + 1, needs[i], b[i - 1])]
      /\ \A i \in 0 .. z : b[i] \in Results
  <2>1. \A c \in WalkCalls : c.depth = call.depth + 1 => W[c] \in Results
    BY DEF Answers
  <2>2. /\ b[0] = call.done
        /\ \A i \in 1 .. Len(dependencies[call.name]) :
              b[i] = IF b[i - 1] = None THEN None
                     ELSE W[CallAt(call.depth + 1, dependencies[call.name][i], b[i - 1])]
        /\ \A i \in 0 .. Len(dependencies[call.name]) : b[i] \in Results
    BY <1>0, <1>3, <2>1, Loop
  <2> QED
    BY <1>1, <1>2, <2>2
<1> DEFINE first(i) == {needs[j] : j \in 1 .. i}
           Good(i) == /\ b[i] = None => Failed(call)
                      /\ b[i] # None /\ Ordered(call.done) => Resolved(call.done, first(i), b[i])
           M == {i \in Nat : i <= z => Good(i)}
<1>5. 0 \in M
  <2>1. first(0) = {}
    OBVIOUS
  <2>2. Ordered(call.done) => Resolved(call.done, {}, call.done)
    BY DEF Resolved
  <2>3. call.done # None
    BY <1>0, CallTypes
  <2> HIDE DEF first
  <2> QED
    BY <1>4, <2>1, <2>2, <2>3
<1>6. ASSUME NEW k \in M
      PROVE  k + 1 \in M
  <2> SUFFICES ASSUME k + 1 <= z PROVE Good(k + 1)
    OBVIOUS
  <2>1. k \in Nat /\ k \in 0 .. z /\ k + 1 \in 1 .. z /\ (k + 1) - 1 = k
    BY <1>2
  <2>2. Good(k)
    BY <2>1
  <2>3. b[k + 1] = IF b[k] = None THEN None
                   ELSE W[CallAt(call.depth + 1, needs[k + 1], b[k])]
    BY <1>4, <2>1
  <2>4. CASE b[k] = None
    BY <2>2, <2>3, <2>4
  <2>5. CASE b[k] # None
    <3>1. PICK x \in Seq(Names) : x = b[k]
      BY <1>4, <2>1, <2>5 DEF Results
    <3>2. PICK m \in Names : m = needs[k + 1]
      BY <1>2, <2>1
    <3>3. PICK c \in WalkCalls : c = CallAt(call.depth + 1, m, x)
      BY CallsBelow
    <3>4. c.depth = call.depth + 1 /\ c.name = m /\ c.done = x
      BY <3>3, CallsBelow
    <3>5. b[k + 1] = W[c] /\ Answers(c, W[c])
      BY <2>3, <2>5, <3>1, <3>2, <3>3, <3>4
    <3>6. ASSUME b[k + 1] = None
          PROVE  Failed(call)
      <4> SUFFICES ASSUME NEW root \in Names, call.name \in StepsAway(root, call.depth)
                   PROVE  Excused(root)
        BY DEF Failed
      <4>1. Failed(c)
        BY <3>5, <3>6 DEF Answers
      <4>2. m \in Range(dependencies[call.name])
        BY <1>1, <1>2, <2>1, <3>2 DEF Range
      <4>3. call.depth \in Nat
        BY <1>0, CallTypes
      <4>4. m \in StepsAway(root, call.depth + 1)
        BY <4>2, <4>3, StepsAwayIs
      <4> QED
        BY <3>4, <4>1, <4>4 DEF Failed
    <3>7. ASSUME b[k + 1] # None, Ordered(call.done)
          PROVE  Resolved(call.done, first(k + 1), b[k + 1])
      <4>1. Resolved(call.done, first(k), x)
        BY <2>2, <2>5, <3>1, <3>7
      <4>2. Ordered(x)
        BY <4>1 DEF Resolved
      <4>3. Resolved(x, {m}, b[k + 1])
        BY <3>4, <3>5, <3>7, <4>2 DEF Answers
      <4>4. first(k + 1) = first(k) \cup {m}
        <5>1. \A j \in 1 .. k + 1 : j \in 1 .. k \/ j = k + 1
          BY <2>1
        <5>2. \A j \in 1 .. k : j \in 1 .. k + 1
          BY <2>1
        <5> QED
          BY <2>1, <3>2, <5>1, <5>2
      <4>5. Resolved(call.done, first(k) \cup {m}, b[k + 1])
        BY <4>1, <4>3, ResolvedMore
      <4> HIDE DEF first
      <4> QED
        BY <4>4, <4>5
    <3> QED
      BY <3>6, <3>7
  <2> QED
    BY <2>4, <2>5
<1>7. M = Nat
  <2>1. M \in SUBSET Nat
    OBVIOUS
  <2> HIDE DEF M
  <2> QED
    BY <1>5, <1>6, <2>1, Induction
<1>8. Good(z)
  <2>1. z \in M
    BY <1>7
  <2> HIDE DEF Good
  <2> QED
    BY <2>1
<1>9. first(z) = Range(needs)
  BY <1>2 DEF Range
<1>10. r = b[z] /\ z \in 0 .. z
  BY <1>1, <1>2, <1>3
<1> HIDE DEF first
<1> QED
  BY <1>1, <1>4, <1>8, <1>9, <1>10

LEMMA CallAnswers ==
    ASSUME Inv, NEW W, NEW call \in WalkCalls,
           \A c \in WalkCalls : c.depth = call.depth + 1 => Answers(c, W[c])
    PROVE  Answers(call, Walked(W, call))
<1>0. dependencies \in [Names -> Seq(Names)]
  BY DEF Inv, Linked
<1>1. /\ call.depth \in 0 .. MaxRecursionDepth + 1 /\ call.depth \in Nat
      /\ call.name \in Names /\ call.done \in Seq(Names) /\ call.done # None
  BY <1>0, CallTypes
<1>2. CASE call.depth > MaxRecursionDepth
  <2>1. Walked(W, call) = None
    BY <1>2 DEF Walked
  <2>2. call.depth = MaxRecursionDepth + 1
    BY <1>1, <1>2, NumberAssumption
  <2>3. Failed(call)
    BY <2>2 DEF Failed, Excused
  <2> QED
    BY <2>1, <2>3 DEF Answers, Results
<1>3. CASE call.depth <= MaxRecursionDepth /\ call.name \in Range(call.done)
  <2>1. Walked(W, call) = call.done
    BY <1>1, <1>3, NumberAssumption DEF Walked
  <2>2. Ordered(call.done) => Resolved(call.done, {call.name}, call.done)
    BY <1>3 DEF Resolved
  <2> QED
    BY <1>1, <2>1, <2>2 DEF Answers, Results
<1>4. CASE call.depth <= MaxRecursionDepth /\ call.name \notin Range(call.done)
  <2>1. PICK r : r = Gathered(W, call)[Len(dependencies[call.name])]
    OBVIOUS
  <2>2. /\ r \in Results
        /\ r = None => Failed(call)
        /\ r # None /\ Ordered(call.done) =>
              Resolved(call.done, Range(dependencies[call.name]), r)
    BY <1>4, <2>1, LoopAnswers
  <2>3. Walked(W, call) = IF r = None \/ ~Usable(call.name) THEN None ELSE Append(r, call.name)
    BY <1>1, <1>4, <2>1, NumberAssumption DEF Walked
  <2>4. CASE r = None
    BY <2>2, <2>3, <2>4 DEF Answers, Results
  <2>5. CASE r # None /\ ~Usable(call.name)
    <3>1. ASSUME NEW root \in Names, call.name \in StepsAway(root, call.depth)
          PROVE  Excused(root)
      <4>1. call.name \in Needed(root)
        BY <1>1, <3>1, StepsAwayIs
      <4> QED
        BY <2>5, <4>1 DEF Excused
    <3> QED
      BY <2>3, <2>5, <3>1 DEF Answers, Results, Failed
  <2>6. CASE r # None /\ Usable(call.name)
    <3>1. PICK s \in Seq(Names) : s = r
      BY <2>2, <2>6 DEF Results
    <3>2. PICK n \in Names : n = call.name
      BY <1>1
    <3>3. PICK t : t = Append(s, n)
      OBVIOUS
    <3>4. t \in Seq(Names) /\ Range(t) = Range(s) \cup {n} /\ Walked(W, call) = t /\ t # None
      <4>1. t \in Seq(Names) /\ Range(t) = Range(s) \cup {n}
        BY <3>3, AppendElements
      <4> QED
        BY <2>3, <2>6, <3>1, <3>2, <3>3, <4>1, NoneAssumption
    <3>5. ASSUME Ordered(call.done)
          PROVE  Resolved(call.done, {n}, t)
      <4>1. Resolved(call.done, Range(dependencies[n]), s)
        BY <2>2, <2>6, <3>1, <3>2, <3>5
      <4>2. Range(call.done) \in SUBSET Names /\ NeedsInside(Range(call.done))
        BY <1>1, <3>5, OrderedInside
      <4>3. Range(call.done) \cup Range(dependencies[n]) \subseteq Avoiding(n)
        BY <1>4, <3>2, <4>2, AvoidingIs
      <4>4. n \notin Range(s)
        BY <4>1, <4>3, AvoidingIs DEF Resolved
      <4>5. Ordered(t)
        BY <2>6, <3>2, <3>3, <4>1, <4>4, OrderedAppends DEF Resolved
      <4>6. ASSUME NEW S \in SUBSET Names, NeedsInside(S), Range(call.done) \cup {n} \subseteq S
            PROVE  Range(t) \subseteq S
        <5>1. Range(dependencies[n]) \subseteq S
          BY <4>6 DEF NeedsInside
        <5>2. Range(s) \subseteq S
          BY <4>1, <4>6, <5>1 DEF Resolved
        <5> QED
          BY <3>4, <4>6, <5>2
      <4>7. Range(call.done) \subseteq Range(t) /\ {n} \subseteq Range(t)
        BY <3>4, <4>1 DEF Resolved
      <4> QED
        BY <4>5, <4>6, <4>7 DEF Resolved
    <3> QED
      BY <3>2, <3>4, <3>5 DEF Answers, Results
  <2> QED
    BY <2>4, <2>5, <2>6
<1> QED
  BY <1>1, <1>2, <1>3, <1>4, NumberAssumption

LEMMA WalkAnswers ==
    ASSUME Inv, NEW W, IsWalk(W), NEW call \in WalkCalls
    PROVE  Answers(call, W[call])
<1>1. PICK D \in Nat : D = MaxRecursionDepth + 1
  BY NumberAssumption
<1>2. \A c \in WalkCalls : c.depth \in 0 .. D /\ c.depth \in Nat
  BY <1>1, CallTypes DEF Inv, Linked
<1>3. \A c \in WalkCalls : W[c] = Walked(W, c)
  <2>1. PICK V : V = W
    OBVIOUS
  <2>2. W = [c \in WalkCalls |-> Walked(V, c)]
    BY <2>1 DEF IsWalk
  <2> QED
    BY <2>1, <2>2
<1> DEFINE M == {k \in Nat : \A c \in WalkCalls : c.depth + k >= D => Answers(c, W[c])}
<1>4. ASSUME NEW c \in WalkCalls, \A d \in WalkCalls : d.depth = c.depth + 1 => Answers(d, W[d])
      PROVE  Answers(c, W[c])
  BY <1>3, <1>4, CallAnswers
<1>5. 0 \in M
  <2> SUFFICES ASSUME NEW c \in WalkCalls, c.depth + 0 >= D PROVE Answers(c, W[c])
    OBVIOUS
  <2>1. \A d \in WalkCalls : d.depth # c.depth + 1
    BY <1>2
  <2> QED
    BY <1>4, <2>1
<1>6. ASSUME NEW k \in M
      PROVE  k + 1 \in M
  <2>0. k \in Nat
    OBVIOUS
  <2> SUFFICES ASSUME NEW c \in WalkCalls, c.depth + (k + 1) >= D PROVE Answers(c, W[c])
    OBVIOUS
  <2>1. ASSUME NEW d \in WalkCalls, d.depth = c.depth + 1
        PROVE  Answers(d, W[d])
    <3>1. d.depth + k >= D
      BY <1>2, <2>0, <2>1
    <3> QED
      BY <3>1
  <2> QED
    BY <1>4, <2>1
<1>7. M = Nat
  <2>1. M \in SUBSET Nat
    OBVIOUS
  <2> HIDE DEF M
  <2> QED
    BY <1>5, <1>6, <2>1, Induction
<1>8. D \in M
  BY <1>7
<1> QED
  BY <1>2, <1>8

LEMMA AnswersInOrder == Inv => ResolvesInOrder
<1> SUFFICES ASSUME Inv, NEW n \in DOMAIN routes, NEW answer, answer = WithDependencies(n)
             PROVE  IF answer # None
                      THEN /\ IsInjective(answer)
                           /\ Range(answer) = Needed(n)
                           /\ \A j \in DOMAIN answer :
                                /\ Usable(answer[j])
                                /\ Range(dependencies[answer[j]])
                                     \subseteq {answer[i] : i \in 1 .. j - 1}
                      ELSE \/ StepsAway(n, MaxRecursionDepth + 1) # {}
                           \/ \E m \in Needed(n) : ~Usable(m)
  BY DEF ResolvesInOrder
<1>1. n \in Names
  BY NameAssumption DEF Inv, Listed
<1>2. PICK call : call = CallAt(0, n, << >>)
  OBVIOUS
<1>3. call \in WalkCalls /\ call.depth = 0 /\ call.name = n /\ call.done = << >>
  BY <1>1, <1>2, NumberAssumption DEF CallAt, WalkCalls
<1>4. PICK W : IsWalk(W) /\ answer = W[call]
  <2>1. answer = (CHOOSE W : IsWalk(W))[call]
    BY <1>2, WalkChosen DEF WithDependencies
  <2>2. \E W : IsWalk(W)
    BY WalkExists DEF Inv, Linked
  <2> QED
    BY <2>1, <2>2
<1>5. Answers(call, answer)
  BY <1>3, <1>4, WalkAnswers
<1>6. CASE answer = None
  <2>1. n \in StepsAway(n, 0)
    BY <1>1, StepsAwayIs
  <2>2. Excused(n)
    BY <1>1, <1>3, <1>5, <1>6, <2>1 DEF Answers, Failed
  <2> QED
    BY <1>6, <2>2 DEF Excused
<1>7. CASE answer # None
  <2>1. Ordered(<< >>) /\ Range(<< >>) = {}
    BY DEF Ordered, IsInjective, Range
  <2>2. Resolved(<< >>, {n}, answer)
    BY <1>3, <1>5, <1>7, <2>1 DEF Answers
  <2>3. answer \in Seq(Names) /\ Ordered(answer)
    BY <1>5, <1>7, <2>2 DEF Answers, Results, Resolved
  <2>4. Range(answer) \in SUBSET Names /\ NeedsInside(Range(answer)) /\ n \in Range(answer)
    BY <2>2, <2>3, OrderedInside DEF Resolved
  <2>5. Needed(n) \subseteq Range(answer)
    BY <1>1, <2>4, NeededIs
  <2>6. Range(answer) \subseteq Needed(n)
    BY <1>1, <2>1, <2>2, NeededIs DEF Resolved
  <2>7. Range(answer) = Needed(n)
    BY <2>5, <2>6
  <2>8. /\ IsInjective(answer)
        /\ \A j \in DOMAIN answer :
              /\ Usable(answer[j])
              /\ Range(dependencies[answer[j]]) \subseteq {answer[i] : i \in 1 .. j - 1}
    BY <2>3 DEF Ordered
  <2> QED
    BY <1>7, <2>7, <2>8, Zenon
<1> QED
  BY <1>6, <1>7

\* An answer of resolve_with_dependencies lists each route needed once, after
\* those it needs itself, and an error has its reason, for every graph, in
\* whatever order its edges were added, and every recursion limit.
THEOREM AnswersStayInOrder == Spec => []ResolvesInOrder
  BY Invariance, AnswersInOrder, PTL

-----------------------------------------------------------------------------
(* What the listings show.                                                 *)

\* Nothing is registered before initialize.
Owned == admin = None => DOMAIN routes = {}

LEMMA OwnedStep == Owned /\ [Next]_vars => Owned'
<1> SUFFICES ASSUME Owned, [Next]_vars PROVE Owned'
  OBVIOUS
<1>1. ASSUME NEW a \in Addresses, ManageRoutes(a) \/ ManageDetails(a) \/ Configure(a)
      PROVE  admin' \in Addresses
  <2>1. CASE ManageRoutes(a)
    BY <2>1 DEF ManageRoutes, RegisterRoute, RegisterRouteWithTtl, Register, RegisterRoutesBatch,
       ExtendRouteTtl, UpdateRoute, RemoveRoute, RemoveRoutesBatch, ForgetRoutes, SetRoutePaused,
       SetRouteDependency, settings
  <2>2. CASE ManageDetails(a)
    BY <2>2 DEF ManageDetails, UpdateMetadata, AddRouteTag, RemoveRouteTag, AddAlias, RemoveAlias,
       SetRouteScores, settings
  <2>3. CASE Configure(a)
    BY <2>3 DEF Configure, SetPaused, SetMaxRoutes, SetScoringWeights, TransferAdmin
  <2> QED
    BY <1>1, <2>1, <2>2, <2>3
<1>2. ASSUME NEW a \in Addresses, NEW cap \in Caps \cup {None}, Initialize(a, cap)
      PROVE  admin' \in Addresses
  BY <1>2 DEF Initialize
<1>3. ASSUME (\E n \in Names : Resolve(n)) \/ (\E ns \in BatchesOf(Names) : BatchResolve(ns))
              \/ Tick \/ UNCHANGED vars
      PROVE  admin' = admin /\ routes' = routes
  BY <1>3 DEF Resolve, BatchResolve, Tick, vars, settings, directory
<1>4. admin' \in Addresses => admin' # None
  BY NoneAssumption
<1> QED
  BY <1>1, <1>2, <1>3, <1>4 DEF Next, Owned

\* The first elements of a vector and those that follow make up the vector.
LEMMA PagesJoin ==
    ASSUME NEW S, NEW s \in Seq(S), NEW k \in 0 .. Len(s)
    PROVE  SubSeq(s, 1, k) \o SubSeq(s, k + 1, Len(s)) = s
<1>1. PICK n \in Nat : n = Len(s) /\ DOMAIN s = 1 .. n
  OBVIOUS
<1>2. PICK t, u : t = SubSeq(s, 1, k) /\ u = SubSeq(s, k + 1, n)
  OBVIOUS
<1>3. /\ t \in Seq(S) /\ Len(t) = k /\ \A i \in 1 .. k : t[i] = s[i]
  BY <1>1, <1>2
<1>4. /\ u \in Seq(S) /\ Len(u) = n - k /\ \A i \in 1 .. n - k : u[i] = s[k + i]
  BY <1>1, <1>2
<1>5. PICK v : v = t \o u
  OBVIOUS
<1>6. /\ v \in Seq(S) /\ Len(v) = n
      /\ \A i \in 1 .. n : v[i] = IF i <= k THEN t[i] ELSE u[i - k]
  BY <1>1, <1>3, <1>4, <1>5
<1>7. ASSUME NEW i \in 1 .. n
      PROVE  v[i] = s[i]
  <2>1. CASE i <= k
    BY <1>3, <1>6, <2>1
  <2>2. CASE i > k
    <3>1. PICK j \in 1 .. n - k : j = i - k /\ k + j = i
      BY <1>1, <2>2
    <3> QED
      BY <1>1, <1>4, <1>6, <2>2, <3>1
  <2> QED
    BY <1>1, <2>1, <2>2
<1>8. v = s
  BY <1>1, <1>6, <1>7
<1> QED
  BY <1>1, <1>2, <1>5, <1>8

\* A query over RouteNames counts the registered routes it asks for.
LEMMA CountedOnce ==
    ASSUME Inv, NEW T
    PROVE  /\ Among(names, T) \in Seq(Names)
           /\ Range(Among(names, T)) = DOMAIN routes \cap T
           /\ Len(Among(names, T)) = Cardinality(DOMAIN routes \cap T)
           /\ Len(Among(names, T)) <= Len(names)
           /\ IsFiniteSet(DOMAIN routes)
<1>1. names \in Seq(Names) /\ IsInjective(names) /\ Range(names) = DOMAIN routes
  BY DEF Inv, Listed
<1>2. /\ Among(names, T) \in Seq(Names)
      /\ Range(Among(names, T)) = DOMAIN routes \cap T
      /\ Len(Among(names, T)) = Cardinality(DOMAIN routes \cap T)
  BY <1>1, AmongElements
<1>3. IsFiniteSet(DOMAIN routes)
  BY <1>1, RangeFinite
<1>4. Len(Among(names, T)) <= Len(names)
  <2>1. PICK I : I = {i \in 1 .. Len(names) : names[i] \in T}
    OBVIOUS
  <2>2. I \in SUBSET (1 .. Len(names)) /\ Among(names, T) = Kept(names, I)
    BY <2>1 DEF Among
  <2> QED
    BY <1>1, <2>2, KeptLen
<1> QED
  BY <1>2, <1>3, <1>4

\* The number of routes is the count the cap is compared with.
LEMMA CountIs ==
    ASSUME Inv
    PROVE  count = Cardinality(DOMAIN routes) /\ count \in Nat
<1>1. names \in Seq(Names) /\ IsInjective(names) /\ Range(names) = DOMAIN routes
      /\ count = Len(names)
  BY DEF Inv, Listed
<1> QED
  BY <1>1, VectorSize

LEMMA ListingsTrue == Inv /\ Owned => ListingsAgree
<1> SUFFICES ASSUME Inv, Owned PROVE ListingsAgree
  OBVIOUS
<1> DEFINE expired == {n \in DOMAIN routes : Expired(n)}
           idle    == {n \in DOMAIN routes : ~Expired(n) /\ routes[n].paused}
           active  == {n \in DOMAIN routes : ~Expired(n) /\ ~routes[n].paused}
           shown   == {n \in Names : n \in DOMAIN routes => ~Expired(n)}
<1>1. DOMAIN routes \subseteq Names
  BY DEF Inv, Listed, Range
<1>2. PICK all : all = AllRoutes
  OBVIOUS
<1>3. /\ all \in Seq(Names) /\ IsInjective(all)
      /\ Range(all) = {n \in DOMAIN routes : ~Expired(n)}
      /\ Len(all) = Cardinality(idle \cup active) /\ Len(all) <= Len(names)
  <2>1. DOMAIN routes \cap shown = {n \in DOMAIN routes : ~Expired(n)}
    BY <1>1
  <2>2. idle \cup active = DOMAIN routes \cap shown
    BY <1>1
  <2> HIDE DEF idle, active, shown
  <2>3. all = Among(names, shown)
    BY <1>2 DEF AllRoutes, shown
  <2>4. IsInjective(all)
    BY <2>3, AmongElements DEF Inv, Listed
  <2> QED
    BY <2>1, <2>2, <2>3, <2>4, CountedOnce
<1>4. /\ Stats.expired = Cardinality(expired)
      /\ Stats.paused = Cardinality(idle)
      /\ Stats.active = Cardinality(active)
      /\ Stats.scored = Cardinality(DOMAIN score)
  <2>1. /\ DOMAIN routes \cap expired = expired /\ DOMAIN routes \cap idle = idle
        /\ DOMAIN routes \cap active = active /\ DOMAIN routes \cap DOMAIN score = DOMAIN score
    BY DEF Inv, Attached
  <2>2. Stats = [total   |-> Len(names),
                 expired |-> Len(Among(names, expired)),
                 paused  |-> Len(Among(names, idle)),
                 active  |-> Len(Among(names, active)),
                 scored  |-> Len(Among(names, DOMAIN score))]
    BY DEF Stats
  <2> HIDE DEF expired, idle, active
  <2>3. /\ Len(Among(names, expired)) = Cardinality(expired)
        /\ Len(Among(names, idle)) = Cardinality(idle)
        /\ Len(Among(names, active)) = Cardinality(active)
        /\ Len(Among(names, DOMAIN score)) = Cardinality(DOMAIN score)
    BY <2>1, CountedOnce
  <2> QED
    BY <2>2, <2>3
<1>5. /\ Cardinality(idle \cup active) = Cardinality(idle) + Cardinality(active)
      /\ Cardinality(DOMAIN routes)
           = Cardinality(idle) + Cardinality(active) + Cardinality(expired)
  <2>1. PICK a, b, c, d : a = idle /\ b = active /\ c = expired /\ d = DOMAIN routes
    OBVIOUS
  <2>2. a \cap b = {} /\ (a \cup b) \cap c = {}
    BY <2>1
  <2>3. a \cup b \cup c = d /\ a \in SUBSET d /\ b \in SUBSET d /\ c \in SUBSET d
    BY <2>1
  <2>4. IsFiniteSet(d)
    BY <2>1, CountedOnce
  <2>5. IsFiniteSet(a) /\ IsFiniteSet(b) /\ IsFiniteSet(c)
    BY <2>3, <2>4, FS_Subset
  <2> HIDE DEF idle, active, expired
  <2>6. /\ IsFiniteSet(a \cup b \cup c)
        /\ Cardinality(a \cup b) = Cardinality(a) + Cardinality(b)
        /\ Cardinality(a \cup b \cup c) = Cardinality(a) + Cardinality(b) + Cardinality(c)
    BY <2>2, <2>5, DisjointCardinality, SMTT(30)
  <2> QED
    BY <2>1, <2>3, <2>6
<1>6. /\ Cardinality(idle) \in Nat /\ Cardinality(active) \in Nat /\ Cardinality(expired) \in Nat
  <2>1. /\ idle \in SUBSET DOMAIN routes /\ active \in SUBSET DOMAIN routes
        /\ expired \in SUBSET DOMAIN routes
    OBVIOUS
  <2> HIDE DEF idle, active, expired
  <2> QED
    BY <2>1, CountedOnce, FS_Subset, FS_CardinalityType
<1>7. /\ Stats.active + Stats.paused + Stats.expired = count
      /\ Stats.active + Stats.paused = Len(AllRoutes)
      /\ Stats.active = Cardinality({n \in DOMAIN routes : ~Expired(n) /\ ~routes[n].paused})
      /\ Stats.scored = Cardinality(DOMAIN score)
  <2>1. Stats.active = Cardinality({n \in DOMAIN routes : ~Expired(n) /\ ~routes[n].paused})
    BY <1>4
  <2> HIDE DEF idle, active, expired
  <2> QED
    BY <1>2, <1>3, <1>4, <1>5, <1>6, <2>1, CountIs
<1>8. AllTags = {t \in Tags : RoutesByTag(t) # << >>}
  <2>1. ASSUME NEW t
        PROVE  RoutesByTag(t) # << >> <=>
                 \E n \in Range(all) \cap DOMAIN tags : t \in tags[n]
    <3>1. PICK T : T = {n \in DOMAIN tags : t \in tags[n]}
      OBVIOUS
    <3>2. PICK r : r = Among(all, T)
      OBVIOUS
    <3>3. r \in Seq(Names) /\ Range(r) = Range(all) \cap T
      BY <1>3, <3>2, AmongElements
    <3>4. r # << >> <=> Range(r) # {}
      BY <3>3 DEF Range
    <3>5. r = RoutesByTag(t)
      BY <1>2, <3>1, <3>2 DEF RoutesByTag
    <3> QED
      BY <3>1, <3>3, <3>4, <3>5
  <2>2. \A n \in DOMAIN tags : tags[n] \subseteq Tags
    BY DEF Inv, Attached
  <2> QED
    BY <1>2, <2>1, <2>2 DEF AllTags
<1>9. ASSUME NEW k \in 0 .. Len(names)
      PROVE  RoutesPage(0, k) \o RoutesPage(k, Len(names)) = AllRoutes
  <2>1. all \in Seq(Names) /\ Len(all) <= Len(names) /\ names \in Seq(Names)
    BY <1>3 DEF Inv, Listed
  <2>2. PICK m \in Nat, l \in Nat : m = Len(names) /\ l = Len(all)
    BY <2>1
  <2>3. l <= m /\ k \in 0 .. m /\ k \in Nat
    BY <2>1, <2>2
  <2>4. RoutesPage(k, m) = SubSeq(all, k + 1, l)
    BY <1>2, <2>2, <2>3 DEF RoutesPage
  <2>5. CASE k <= l
    <3>1. RoutesPage(0, k) = SubSeq(all, 1, k)
      BY <1>2, <2>2, <2>3, <2>5 DEF RoutesPage
    <3>2. k \in 0 .. Len(all)
      BY <2>2, <2>3, <2>5
    <3>3. SubSeq(all, 1, k) \o SubSeq(all, k + 1, Len(all)) = all
      BY <2>1, <3>2, PagesJoin
    <3> QED
      BY <1>2, <2>2, <2>4, <3>1, <3>3
  <2>6. CASE k > l
    <3>1. RoutesPage(0, k) = SubSeq(all, 1, l)
      BY <1>2, <2>2, <2>3, <2>6 DEF RoutesPage
    <3>2. SubSeq(all, k + 1, l) = << >> /\ SubSeq(all, 1, l) \in Seq(Names)
      BY <2>1, <2>2, <2>3, <2>6
    <3>3. SubSeq(all, 1, l) = all
      BY <2>1, <2>2
    <3>4. RoutesPage(0, k) = all /\ RoutesPage(k, m) = << >>
      BY <2>4, <3>1, <3>2, <3>3
    <3>5. all \o << >> = all
      BY <2>1
    <3> QED
      BY <1>2, <2>2, <3>4, <3>5
  <2> QED
    BY <2>2, <2>3, <2>5, <2>6
<1>10. ASSUME NEW n \in Range(AllRoutes), ~routes[n].paused, ~paused, CachedBest = None
       PROVE  Resolves(n)
  <2>1. n \in DOMAIN routes /\ ~Expired(n)
    BY <1>2, <1>3
  <2>2. n \notin DOMAIN alias /\ admin # None
    BY <2>1 DEF Inv, Aliased, Owned
  <2>3. FinalName(n) = n
    BY <1>10, <2>2 DEF FinalName
  <2> QED
    BY <1>10, <2>1, <2>2, <2>3 DEF Resolves
<1> QED
  BY <1>7, <1>8, <1>9, <1>10 DEF ListingsAgree

\* The listings, pages, tags and counts show exactly the live routes, and the
\* cached best route is the best of them: what a query shows would resolve.
THEOREM ShownAsServed == Spec => []ServedAsListed
<1>1. Init => Owned
  BY DEF Init, Owned
<1>2. Inv /\ Owned => ServedAsListed
  BY BestCurrent, ListingsTrue DEF ServedAsListed
<1> QED
  BY <1>1, <1>2, OwnedStep, Invariance, PTL DEF Spec

-----------------------------------------------------------------------------
(* The contract implements RouteDirectory.                                 *)

\* What is attached to a route.
LEMMA EnteredIs ==
    /\ DOMAIN Entered = DOMAIN routes /\ DOMAIN Entered' = DOMAIN routes'
    /\ \A n \in DOMAIN routes :
          Entered[n] = [needs |-> Range(dependencies[n]),
                        score |-> IF n \in DOMAIN score THEN score[n] ELSE None,
                        tags  |-> IF n \in DOMAIN tags THEN tags[n] ELSE None]
    /\ \A n \in DOMAIN routes' :
          Entered'[n] = [needs |-> Range(dependencies'[n]),
                         score |-> IF n \in DOMAIN score' THEN score'[n] ELSE None,
                         tags  |-> IF n \in DOMAIN tags' THEN tags'[n] ELSE None]
    /\ Entered = [n \in DOMAIN routes |-> Entered[n]]
    /\ Entered' = [n \in DOMAIN routes' |-> Entered'[n]]
  BY DEF Entered

LEMMA EnteredSame ==
    ASSUME DOMAIN routes' = DOMAIN routes, UNCHANGED <<dependencies, score, tags>>
    PROVE  Entered' = Entered
  BY DEF Entered

\* The number of routes is the count the cap is compared with.
LEMMA CountIsNext ==
    ASSUME Inv'
    PROVE  count' = Cardinality(DOMAIN routes') /\ count' \in Nat
<1>1. names' \in Seq(Names) /\ IsInjective(names') /\ Range(names') = DOMAIN routes'
      /\ count' = Len(names')
  BY DEF Inv, Listed
<1> QED
  BY <1>1, VectorSize

\* Routes entered under the cap are registered with nothing attached.
LEMMA EnterKeepsDirectory ==
    ASSUME Inv, Inv', NEW fresh \in Seq(Names), \A n \in Range(fresh) : Available(n),
           NEW entry, EnterRoutes(fresh, entry),
           Range(fresh) # {} => count + Len(fresh) <= maxRoutes,
           UNCHANGED <<settings, aliasing, score, graph>>,
           \A n \in DOMAIN routes : /\ n \in DOMAIN tags' <=> n \in DOMAIN tags
                                    /\ n \in DOMAIN tags => tags'[n] = tags[n]
    PROVE  Directory!Register(Range(fresh))
<1>1. /\ DOMAIN routes' = DOMAIN routes \cup Range(fresh) /\ count' = count + Len(fresh)
      /\ alias' = alias /\ maxRoutes' = maxRoutes /\ score' = score
      /\ dependencies' = dependencies
  BY DEF EnterRoutes, settings, aliasing, graph
<1>2. \A n \in Range(fresh) : n \notin DOMAIN routes /\ n \notin DOMAIN alias /\ n \in Names
  BY NameAssumption DEF Available
<1>3. Range(fresh) \cap (DOMAIN Entered \cup DOMAIN alias) = {}
  BY <1>2, EnteredIs
<1>4. Range(fresh) # {} => Cardinality(DOMAIN Entered \cup Range(fresh)) <= maxRoutes
  BY <1>1, EnteredIs, CountIsNext
<1>5. \A n \in DOMAIN Entered : Entered'[n] = Entered[n]
  <2> SUFFICES ASSUME NEW n \in DOMAIN routes PROVE Entered'[n] = Entered[n]
    BY EnteredIs
  <2>1. Entered[n] = [needs |-> Range(dependencies[n]),
                      score |-> IF n \in DOMAIN score THEN score[n] ELSE None,
                      tags  |-> IF n \in DOMAIN tags THEN tags[n] ELSE None]
    BY EnteredIs
  <2>2. Entered'[n] = [needs |-> Range(dependencies'[n]),
                       score |-> IF n \in DOMAIN score' THEN score'[n] ELSE None,
                       tags  |-> IF n \in DOMAIN tags' THEN tags'[n] ELSE None]
    BY <1>1, EnteredIs
  <2>3. (IF n \in DOMAIN tags' THEN tags'[n] ELSE None) = IF n \in DOMAIN tags THEN tags[n] ELSE None
    OBVIOUS
  <2> QED
    BY <1>1, <2>1, <2>2, <2>3
<1>6. \A n \in Range(fresh) : Entered'[n].needs = {} /\ Entered'[n].score = None
  <2> SUFFICES ASSUME NEW n \in Range(fresh)
               PROVE  Entered'[n].needs = {} /\ Entered'[n].score = None
    OBVIOUS
  <2>1. Range(dependencies[n]) = {}
    <3>1. Range(dependencies[n]) \subseteq Names
      BY <1>2, RangeFinite DEF Inv, Linked
    <3> QED
      BY <1>2, <3>1 DEF Inv, Linked, EdgesMirrored
  <2>2. n \notin DOMAIN score
    BY <1>2 DEF Inv, Attached
  <2>3. Entered'[n] = [needs |-> Range(dependencies'[n]),
                       score |-> IF n \in DOMAIN score' THEN score'[n] ELSE None,
                       tags  |-> IF n \in DOMAIN tags' THEN tags'[n] ELSE None]
    BY <1>1, EnteredIs
  <2>4. dependencies' = dependencies /\ score' = score
    BY <1>1
  <2> QED
    BY <2>1, <2>2, <2>3, <2>4
<1>7. Directory!Cardinality(DOMAIN Entered \cup Range(fresh))
        = Cardinality(DOMAIN Entered \cup Range(fresh))
  BY DEF Directory!Cardinality, Cardinality
<1> QED
  BY <1>1, <1>3, <1>4, <1>5, <1>6, <1>7, EnteredIs DEF Directory!Register

LEMMA RegisterKeepsDirectory ==
    ASSUME Inv, Inv', NEW n \in Names, NEW address \in Contracts, NEW metadata,
           NEW expires, Register(n, address, metadata, expires)
    PROVE  Directory!Next
<1>1. PICK fresh, entry : fresh = <<n>> /\ EnterRoutes(fresh, entry)
  BY DEF Register
<1>2. fresh \in Seq(Names) /\ Range(fresh) = {n} /\ Len(fresh) = 1
  <2>1. DOMAIN fresh = {1} /\ fresh[1] = n
    BY <1>1
  <2> QED
    BY <1>1, <2>1 DEF Range
<1>3. /\ Available(n) /\ n \notin DOMAIN routes /\ count < maxRoutes
      /\ tags' = IF metadata = None THEN tags ELSE Put(tags, n, metadata)
      /\ UNCHANGED <<settings, aliasing, score, graph>>
  BY DEF Register, Available
<1>4. count + Len(fresh) <= maxRoutes
  BY <1>2, <1>3, CountIs DEF Inv, Settled
<1>5. \A m \in DOMAIN routes : /\ m \in DOMAIN tags' <=> m \in DOMAIN tags
                               /\ m \in DOMAIN tags => tags'[m] = tags[m]
  BY <1>3 DEF Put
<1>6. Directory!Register(Range(fresh))
  BY <1>1, <1>2, <1>3, <1>4, <1>5, EnterKeepsDirectory
<1>7. Range(fresh) \in SUBSET Names
  BY <1>2
<1> QED
  BY <1>6, <1>7 DEF Directory!Next

LEMMA RegisterBatchKeepsDirectory ==
    ASSUME Inv, Inv', NEW caller \in Addresses, NEW items \in Seq(Items), NEW failFast \in BOOLEAN,
           RegisterRoutesBatch(caller, items, failFast)
    PROVE  Directory!Next
<1>1. PICK fresh, entry :
         /\ fresh \in Seq(Names)
         /\ EnterRoutes(fresh, entry)
         /\ Range(fresh) = {items[i].name : i \in Accepted(items, failFast)}
         /\ Len(fresh) = Cardinality(Accepted(items, failFast))
         /\ \A n \in Range(fresh) : Available(n)
  BY BatchEntered
<1>2. Range(fresh) # {} => count + Len(fresh) <= maxRoutes
  <2>1. Range(fresh) # {} => Accepted(items, failFast) # {}
    BY <1>1
  <2> QED
    BY <1>1, <2>1, AcceptedItems
<1>3. UNCHANGED <<settings, aliasing, score, graph>> /\ tags' = tags
  BY DEF RegisterRoutesBatch
<1>4. Directory!Register(Range(fresh))
  BY <1>1, <1>2, <1>3, EnterKeepsDirectory
<1>5. Range(fresh) \in SUBSET Names
  BY <1>1, RangeFinite
<1> QED
  BY <1>4, <1>5 DEF Directory!Next

\* Routes go together with those that need them, and with their aliases.
LEMMA ForgetKeepsDirectory ==
    ASSUME Inv, NEW S \in SUBSET Names, Free(S), ForgetRoutes(S)
    PROVE  Directory!Next
<1>1. /\ DOMAIN routes' = DOMAIN routes \ S
      /\ tags' = Delete(tags, S) /\ score' = Delete(score, S)
      /\ DOMAIN alias' = {a \in DOMAIN alias : alias[a] \notin S}
      /\ \A a \in DOMAIN alias' : alias'[a] = alias[a]
      /\ \A n \in Names : dependencies'[n] = IF n \in S THEN << >> ELSE dependencies[n]
      /\ UNCHANGED <<now, settings>>
  BY ForgetParts
<1>2. S \subseteq DOMAIN routes /\ DOMAIN routes \subseteq Names
  BY NameAssumption DEF Free, Inv, Listed
<1>3. \A n \in DOMAIN Entered \ S : Entered[n].needs \cap S = {}
  <2> SUFFICES ASSUME NEW n \in DOMAIN routes \ S, NEW m \in S, m \in Range(dependencies[n])
               PROVE  FALSE
    BY EnteredIs
  <2>1. n \in dependents[m]
    BY <1>2 DEF Inv, Linked, EdgesMirrored
  <2> QED
    BY <2>1 DEF Free
<1>4. Entered' = [n \in DOMAIN Entered \ S |-> Entered[n]]
  <2>1. \A n \in DOMAIN routes \ S : Entered'[n] = Entered[n]
    <3> SUFFICES ASSUME NEW n \in DOMAIN routes \ S PROVE Entered'[n] = Entered[n]
      OBVIOUS
    <3>1. dependencies'[n] = dependencies[n]
      BY <1>1, <1>2
    <3>2. /\ n \in DOMAIN tags' <=> n \in DOMAIN tags
          /\ n \in DOMAIN tags => tags'[n] = tags[n]
          /\ n \in DOMAIN score' <=> n \in DOMAIN score
          /\ n \in DOMAIN score => score'[n] = score[n]
      BY <1>1 DEF Delete
    <3> QED
      BY <1>1, <3>1, <3>2, EnteredIs
  <2> QED
    BY <1>1, <2>1, EnteredIs
<1>5. alias' = [a \in {a \in DOMAIN alias : alias[a] \notin S} |-> alias[a]]
  <2>1. alias' = [a \in DOMAIN alias' |-> alias'[a]]
    BY DEF ForgetRoutes, ClearAliases, Delete
  <2> QED
    BY <1>1, <2>1
<1>6. maxRoutes' = maxRoutes
  BY <1>1 DEF settings
<1>7. Directory!Remove(S)
  BY <1>2, <1>3, <1>4, <1>5, <1>6, EnteredIs DEF Directory!Remove
<1> QED
  BY <1>7 DEF Directory!Next

\* A dependency closes no circle.
LEMMA DependencyKeepsDirectory ==
    ASSUME Inv, Inv', NEW caller \in Addresses, NEW n \in Names, NEW dependency \in Names,
           SetRouteDependency(caller, n, dependency)
    PROVE  Directory!Next
<1>1. /\ {n, dependency} \subseteq DOMAIN routes
      /\ routes' = routes /\ score' = score /\ tags' = tags /\ alias' = alias
      /\ maxRoutes' = maxRoutes
  BY DEF SetRouteDependency, directory, settings, aliasing
<1>2. /\ DOMAIN routes \subseteq Names
      /\ \A m \in Names : Range(dependencies'[m]) = IF m = n
                            THEN Range(dependencies[m]) \cup {dependency}
                            ELSE Range(dependencies[m])
  BY NameAssumption, DependencyEdges DEF Inv, Listed
<1>3. Entered' = [Entered EXCEPT ![n].needs = Entered[n].needs \cup {dependency}]
  <2>1. \A m \in DOMAIN routes : m # n => Entered'[m] = Entered[m]
    BY <1>1, <1>2, EnteredIs
  <2>2. Entered'[n] = [Entered[n] EXCEPT !.needs = Entered[n].needs \cup {dependency}]
    <3>1. n \in DOMAIN routes /\ n \in DOMAIN routes'
          /\ score' = score /\ tags' = tags
          /\ Range(dependencies'[n]) = Range(dependencies[n]) \cup {dependency}
      BY <1>1, <1>2
    <3>2. PICK needs, s, t : Entered[n] = [needs |-> needs, score |-> s, tags |-> t]
                             /\ needs = Range(dependencies[n])
                             /\ s = (IF n \in DOMAIN score THEN score[n] ELSE None)
                             /\ t = (IF n \in DOMAIN tags THEN tags[n] ELSE None)
      BY <3>1, EnteredIs
    <3>3. Entered'[n] = [needs |-> needs \cup {dependency}, score |-> s, tags |-> t]
      BY <3>1, <3>2, EnteredIs
    <3> QED
      BY <3>2, <3>3
  <2> QED
    BY <1>1, <2>1, <2>2, EnteredIs
<1>4. ~\E S \in SUBSET DOMAIN Entered : Directory!Circle(S)'
  <2> SUFFICES ASSUME NEW S \in SUBSET DOMAIN routes, S # {},
                      \A m \in S : Entered'[m].needs \cap S # {}
               PROVE  FALSE
    BY EnteredIs DEF Directory!Circle
  <2>1. \A m \in S : Range(dependencies'[m]) \cap S # {}
    BY <1>1, EnteredIs
  <2>2. S \in SUBSET Names
    BY <1>2
  <2> QED
    BY <2>1, <2>2 DEF Inv, Linked, DependenciesAcyclic
<1>5. Directory!Link(n, dependency)
  BY <1>1, <1>3, <1>4, EnteredIs DEF Directory!Link
<1> QED
  BY <1>5 DEF Directory!Next

\* Scores and metadata.
LEMMA AnnotateKeepsDirectory ==
    ASSUME DOMAIN routes' = DOMAIN routes, UNCHANGED <<dependencies, alias, maxRoutes>>
    PROVE  Directory!Next
<1>1. \A n \in DOMAIN Entered : Entered'[n].needs = Entered[n].needs
  BY EnteredIs
<1>2. Directory!Annotate
  BY <1>1, EnteredIs DEF Directory!Annotate
<1> QED
  BY <1>2 DEF Directory!Next

LEMMA AliasKeepsDirectory ==
    ASSUME NEW a \in Names, UNCHANGED <<settings, directory, tags, score, graph>>,
           \/ \E n \in Names : /\ n \in DOMAIN routes /\ a \notin DOMAIN routes \cup DOMAIN alias
                               /\ alias' = Put(alias, a, n)
           \/ a \in DOMAIN alias /\ alias' = Delete(alias, {a})
    PROVE  Directory!Next
<1>1. Entered' = Entered /\ maxRoutes' = maxRoutes
  BY EnteredSame DEF directory, settings, graph
<1>2. CASE \E n \in Names : /\ n \in DOMAIN routes /\ a \notin DOMAIN routes \cup DOMAIN alias
                            /\ alias' = Put(alias, a, n)
  <2>1. PICK n \in Names : /\ n \in DOMAIN routes /\ a \notin DOMAIN routes \cup DOMAIN alias
                           /\ alias' = Put(alias, a, n)
    BY <1>2
  <2>2. Directory!Point(a, n)
    BY <1>1, <2>1, EnteredIs DEF Directory!Point, Put
  <2> QED
    BY <2>2 DEF Directory!Next
<1>3. CASE a \in DOMAIN alias /\ alias' = Delete(alias, {a})
  <2>1. Directory!Unpoint(a)
    BY <1>1, <1>3 DEF Directory!Unpoint, Delete
  <2> QED
    BY <2>1 DEF Directory!Next
<1> QED
  BY <1>2, <1>3

LEMMA SameDirectory ==
    ASSUME DOMAIN routes' = DOMAIN routes, UNCHANGED <<dependencies, score, tags, alias, maxRoutes>>
    PROVE  UNCHANGED Directory!vars
  BY EnteredSame DEF Directory!vars

LEMMA ManageKeepsDirectory ==
    ASSUME Inv, Inv', NEW a \in Addresses, ManageRoutes(a)
    PROVE  Directory!Next \/ UNCHANGED Directory!vars
<1>1. ASSUME NEW n \in Names, NEW c \in Contracts, NEW m \in Metadata, RegisterRoute(a, n, c, m)
      PROVE  Directory!Next
  BY <1>1, RegisterKeepsDirectory DEF RegisterRoute
<1>2. ASSUME NEW n \in Names, NEW c \in Contracts, NEW t \in Ttls \cup {None},
             RegisterRouteWithTtl(a, n, c, t)
      PROVE  Directory!Next
  BY <1>2, RegisterKeepsDirectory DEF RegisterRouteWithTtl
<1>3. ASSUME NEW items \in BatchesOf(Items), NEW f \in BOOLEAN, RegisterRoutesBatch(a, items, f)
      PROVE  Directory!Next
  BY <1>3, BatchType, RegisterBatchKeepsDirectory
<1>4. ASSUME NEW n \in Names, RemoveRoute(a, n)
      PROVE  Directory!Next
  <2>1. Free({n}) /\ ForgetRoutes({n}) /\ {n} \in SUBSET Names
    BY <1>4, RemoveRouteFree DEF RemoveRoute
  <2> QED
    BY <2>1, ForgetKeepsDirectory
<1>5. ASSUME NEW ns \in BatchesOf(Names), NEW f \in BOOLEAN, RemoveRoutesBatch(a, ns, f)
      PROVE  Directory!Next
  BY <1>5, RemoveRoutesBatchFree, ForgetKeepsDirectory
<1>6. ASSUME NEW n \in Names, NEW t \in Ttls, ExtendRouteTtl(a, n, t)
      PROVE  UNCHANGED Directory!vars
  <2>1. DOMAIN routes' = DOMAIN routes /\ UNCHANGED <<dependencies, score, tags, alias, maxRoutes>>
    BY <1>6 DEF ExtendRouteTtl, aliasing, graph, settings
  <2> QED
    BY <2>1, SameDirectory
<1>7. ASSUME NEW n \in Names, NEW c \in Contracts, UpdateRoute(a, n, c)
      PROVE  UNCHANGED Directory!vars
  <2>1. DOMAIN routes' = DOMAIN routes /\ UNCHANGED <<dependencies, score, tags, alias, maxRoutes>>
    BY <1>7 DEF UpdateRoute, aliasing, graph, settings
  <2> QED
    BY <2>1, SameDirectory
<1>8. ASSUME NEW n \in Names, NEW on \in BOOLEAN, SetRoutePaused(a, n, on)
      PROVE  UNCHANGED Directory!vars
  <2>1. DOMAIN routes' = DOMAIN routes /\ UNCHANGED <<dependencies, score, tags, alias, maxRoutes>>
    BY <1>8 DEF SetRoutePaused, aliasing, graph, settings
  <2> QED
    BY <2>1, SameDirectory
<1> QED
  BY <1>1, <1>2, <1>3, <1>4, <1>5, <1>6, <1>7, <1>8, DependencyKeepsDirectory DEF ManageRoutes

LEMMA DetailsKeepDirectory ==
    ASSUME NEW a \in Addresses, ManageDetails(a)
    PROVE  Directory!Next
<1>1. ASSUME NEW n \in Names, NEW m \in Metadata, UpdateMetadata(a, n, m)
      PROVE  Directory!Next
  BY <1>1, AnnotateKeepsDirectory DEF UpdateMetadata, directory, graph, aliasing, settings
<1>2. ASSUME NEW n \in Names, NEW t \in Tags, AddRouteTag(a, n, t) \/ RemoveRouteTag(a, n, t)
      PROVE  Directory!Next
  BY <1>2, AnnotateKeepsDirectory
     DEF AddRouteTag, RemoveRouteTag, directory, graph, aliasing, settings
<1>3. ASSUME NEW n \in Names, NEW x \in Names, AddAlias(a, n, x)
      PROVE  Directory!Next
  <2>1. /\ n \in DOMAIN routes /\ x \notin DOMAIN routes \cup DOMAIN alias
        /\ alias' = Put(alias, x, n)
        /\ UNCHANGED <<settings, directory, tags, score, graph>>
    BY <1>3 DEF AddAlias, Available
  <2> QED
    BY <2>1, AliasKeepsDirectory
<1>4. ASSUME NEW x \in Names, RemoveAlias(a, x)
      PROVE  Directory!Next
  <2>1. /\ x \in DOMAIN alias /\ alias' = Delete(alias, {x})
        /\ UNCHANGED <<settings, directory, tags, score, graph>>
    BY <1>4 DEF RemoveAlias
  <2> QED
    BY <2>1, AliasKeepsDirectory
<1>5. ASSUME NEW scores \in ScoreMaps, SetRouteScores(a, scores)
      PROVE  Directory!Next
  BY <1>5, AnnotateKeepsDirectory DEF SetRouteScores, directory, graph, aliasing, settings
<1> QED
  BY <1>1, <1>2, <1>3, <1>4, <1>5 DEF ManageDetails

\* Only the cap of the directory is a setting of the contract.
LEMMA CapKeepsDirectory ==
    ASSUME Inv', UNCHANGED <<directory, alias, tags, score, graph>>
    PROVE  Directory!Next
<1>1. Entered' = Entered /\ maxRoutes' \in Nat \ {0}
  BY EnteredSame DEF directory, graph, Inv, Settled
<1>2. Directory!SetCap
  BY <1>1 DEF Directory!SetCap
<1> QED
  BY <1>2 DEF Directory!Next

LEMMA ConfigureKeepsDirectory ==
    ASSUME Inv', NEW a \in Addresses, Configure(a)
    PROVE  Directory!Next
<1>1. ASSUME NEW on \in BOOLEAN, SetPaused(a, on)
      PROVE  Directory!Next
  BY <1>1, CapKeepsDirectory DEF SetPaused, aliasing
<1>2. ASSUME NEW cap \in Caps, SetMaxRoutes(a, cap)
      PROVE  Directory!Next
  BY <1>2, CapKeepsDirectory DEF SetMaxRoutes, aliasing
<1>3. ASSUME NEW w \in Weights, SetScoringWeights(a, w)
      PROVE  Directory!Next
  BY <1>3, CapKeepsDirectory DEF SetScoringWeights, aliasing
<1>4. ASSUME NEW b \in Addresses, TransferAdmin(a, b)
      PROVE  Directory!Next
  BY <1>4, CapKeepsDirectory DEF TransferAdmin, aliasing
<1> QED
  BY <1>1, <1>2, <1>3, <1>4 DEF Configure

LEMMA StepKeepsDirectory ==
    Inv /\ Inv' /\ [Next]_vars => [Directory!Next]_(Directory!vars)
<1> SUFFICES ASSUME Inv, Inv', [Next]_vars PROVE Directory!Next \/ UNCHANGED Directory!vars
  OBVIOUS
<1>1. ASSUME NEW a \in Addresses, NEW cap \in Caps \cup {None}, Initialize(a, cap)
      PROVE  Directory!Next
  BY <1>1, CapKeepsDirectory DEF Initialize, aliasing
<1>2. ASSUME NEW n \in Names, Resolve(n)
      PROVE  Directory!Next
  BY <1>2, CapKeepsDirectory DEF Resolve, aliasing
<1>3. ASSUME NEW ns \in BatchesOf(Names), BatchResolve(ns)
      PROVE  Directory!Next
  BY <1>3, CapKeepsDirectory DEF BatchResolve, aliasing
<1>4. ASSUME Tick
      PROVE  Directory!Next
  BY <1>4, CapKeepsDirectory DEF Tick, aliasing
<1>5. CASE UNCHANGED vars
  BY <1>5, CapKeepsDirectory DEF vars, aliasing
<1> QED
  BY <1>1, <1>2, <1>3, <1>4, <1>5, ManageKeepsDirectory, DetailsKeepDirectory,
     ConfigureKeepsDirectory DEF Next

\* The indexes never mislead an entry point: every call does to the directory
\* what the abstract one allows, which has no index and no recursion limit.
THEOREM ImplementsDirectory == Spec => KeepsDirectory
<1>1. Init => Directory!Init
  <2> SUFFICES ASSUME Init PROVE Directory!Init
    OBVIOUS
  <2>1. DOMAIN routes = {} /\ DOMAIN alias = {} /\ maxRoutes \in Nat \ {0}
    BY NumberAssumption DEF Init
  <2> QED
    BY <2>1, EnteredIs DEF Directory!Init
<1>2. Inv /\ Inv' /\ [Next]_vars => [Directory!Next]_(Directory!vars)
  BY StepKeepsDirectory
<1> QED
  BY <1>1, <1>2, Invariance, PTL DEF Spec, KeepsDirectory, Directory!Spec

=============================================================================
