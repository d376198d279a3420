---------------------------- MODULE MetricsServer ---------------------------
(***************************************************************************)
(* The metrics exporter's HTTP server: what a request goes through before  *)
(* its handler.  The rate limiter sees every request, authentication and   *)
(* the nonce cache those for /metrics.                                     *)
(*                                                                         *)
(* Requests are served in parallel, and limiter and cache are concurrent   *)
(* maps: a step of this module is one access to such a map, or what is     *)
(* done under the limiter's mutex.  A request keeps in its record what its *)
(* task keeps on its stack.                                                *)
(*                                                                         *)
(* Nothing uses the definitions named Slip: each misstates the definition  *)
(* after it the way a plausible mistake would.                             *)
(***************************************************************************)
EXTENDS HttpRequests, Sequences, FiniteSets, Vectors

CONSTANTS
    Clients,       \* remote IPs
    Nonces,        \* values of the X-Nonce header
    MaxPerWindow,  \* RateLimitConfig::max_requests
    Window,        \* RateLimitConfig::window
    MaxBuckets,    \* RateLimitConfig::max_buckets, at least 1 (RateLimiter::new)
    CacheSize,     \* ReplayProtectionConfig::cache_size
    Ttl,           \* ReplayProtectionConfig::nonce_ttl_secs
    SweepInterval, \* a tenth of it, at least 1
    MaxTime        \* a bound for TLC on the clock

ASSUME ServerNone == None \notin Clients \cup Nonces \cup Nat
ASSUME ServerLimits ==
    /\ {MaxPerWindow, Window, CacheSize, Ttl, MaxTime, MaxRequests} \subseteq Nat
    /\ {MaxBuckets, SweepInterval} \subseteq Nat \ {0}

VARIABLES
    now,       \* the clock, in seconds
    buckets,   \* RateLimiter.buckets: client -> [count, start]
    order,     \* RateLimiter.eviction_order
    cache,     \* NonceCache.cache: nonce -> timestamp
    swept,     \* NonceCache.last_swept_at
    progress   \* per request, where it is and what it remembers

\* What happened, which the server does not keep.
VARIABLES
    rivals,    \* per request, those with its nonce that were checked while it was
    evicted,   \* nonces that were evicted to make room
    counted,   \* per request, when it was counted
    looked     \* per request, when its nonce was looked up

limiter == <<buckets, order>>
replay == <<cache, swept>>
history == <<rivals, evicted, counted, looked>>
serverVars == <<now, limiter, replay, progress, history>>

New == [at |-> "new", client |-> None, arrived |-> 0, first |-> FALSE, allowed |-> FALSE,
        nonce |-> None, stamp |-> 0, victim |-> None]

\* In check_and_add.
Checking(r) == progress[r].at \in {"looking", "room", "evicting", "adding"}

ServerInit ==
    /\ now = 0
    /\ buckets = << >>
    /\ order = << >>
    /\ cache = << >>
    /\ swept = 0
    /\ progress = [r \in Requests |-> New]
    /\ rivals = [r \in Requests |-> {}]
    /\ evicted = {}
    /\ counted = [r \in Requests |-> None]
    /\ looked = [r \in Requests |-> None]

Tick ==
    /\ now < MaxTime
    /\ now' = now + 1
    /\ UNCHANGED <<limiter, replay, progress, history>>

-----------------------------------------------------------------------------
(* RateLimiter::check.                                                     *)

\* get(key).is_none()
Arrive(r, client) ==
    /\ progress[r].at = "new" /\ \A q \in 1 .. (r - 1) : progress[q].at # "new"
    /\ progress' = [progress EXCEPT ![r] =
            [New EXCEPT !.at = IF client \in DOMAIN buckets THEN "known" ELSE "unknown",
                        !.client = client, !.arrived = now,
                        !.first = client \notin DOMAIN buckets]]
    /\ UNCHANGED <<now, limiter, replay, history>>

\* A bucket that appeared meanwhile is overwritten.
InsertBucket(r) ==
    /\ progress[r].at = "unknown"
    /\ buckets' = Put(buckets, progress[r].client, [count |-> 0, start |-> progress[r].arrived])
    /\ progress' = [progress EXCEPT ![r].at = "known"]
    /\ UNCHANGED <<now, order, replay, history>>

CountedSlip(bucket, t) ==
    [count |-> bucket.count + 1, start |-> IF t - bucket.start >= Window THEN t ELSE bucket.start]

\* duration_since is zero for a time that lies in the past of the window.
Counted(bucket, t) ==
    IF t - bucket.start >= Window THEN [count |-> 1, start |-> t]
                                  ELSE [bucket EXCEPT !.count = @ + 1]

\* What is left of a request when check returns.
Checked(req, allowed) ==
    [req EXCEPT !.at = IF allowed THEN "admitted" ELSE "refused",
                !.arrived = IF allowed THEN 0 ELSE @, !.first = FALSE, !.allowed = FALSE]

\* get_mut(key).unwrap(): the bucket may have been evicted since, and the task
\* panics.
Count(r) ==
    /\ progress[r].at = "known"
    /\ LET client == progress[r].client
       IN \/ /\ client \notin DOMAIN buckets
             /\ progress' = [progress EXCEPT ![r].at = "panicked"]
             /\ UNCHANGED <<buckets, counted>>
          \/ /\ client \in DOMAIN buckets
             /\ LET bucket == Counted(buckets[client], progress[r].arrived)
                       allowed == bucket.count <= MaxPerWindow
                   IN /\ buckets' = Put(buckets, client, bucket)
                      /\ progress' = [progress EXCEPT ![r] =
                            IF @.first THEN [@ EXCEPT !.at = "counted", !.allowed = allowed]
                                       ELSE Checked(@, allowed)]
             /\ counted' = [counted EXCEPT ![r] = now]
    /\ UNCHANGED <<now, order, replay, rivals, evicted, looked>>

\* Under the mutex: the new bucket is listed, and the oldest are removed.
Track(r) ==
    /\ progress[r].at = "counted"
    /\ LET o == Append(order, progress[r].client)
           surplus == IF Len(o) > MaxBuckets THEN Len(o) - MaxBuckets ELSE 0
       IN /\ order' = SubSeq(o, surplus + 1, Len(o))
          /\ buckets' = [k \in DOMAIN buckets \ {o[i] : i \in 1 .. surplus} |-> buckets[k]]
    /\ progress' = [progress EXCEPT ![r] = Checked(@, @.allowed)]
    /\ UNCHANGED <<now, replay, history>>

-----------------------------------------------------------------------------
(* The layers inside.  An admitted request is answered, unless it asks for *)
(* /metrics: then it is authenticated and must carry a nonce.              *)

\* maybe_cleanup_expired, for the one of several tasks that wins the exchange.
SweptSlip(t) == [n \in {m \in DOMAIN cache : t - cache[m] < SweepInterval} |-> cache[n]]

Swept(t) == [n \in {m \in DOMAIN cache : t - cache[m] < Ttl} |-> cache[n]]

\* NonceCache::check_and_add begins.
CheckNonce(r, nonce) ==
    /\ progress[r].at = "admitted"
    /\ progress' = [progress EXCEPT ![r].at = "looking", ![r].nonce = nonce, ![r].stamp = now]
    /\ \/ /\ now - swept < SweepInterval
          /\ UNCHANGED replay
       \/ /\ now - swept >= SweepInterval
          /\ swept' = now
          /\ cache' = Swept(now)
    /\ LET others == {q \in Requests : Checking(q) /\ progress[q].nonce = nonce}
       IN rivals' = [q \in Requests |-> IF q = r THEN others
                                        ELSE IF q \in others THEN rivals[q] \cup {r}
                                        ELSE rivals[q]]
    /\ UNCHANGED <<now, limiter, evicted, counted, looked>>

\* contains_key
LookUp(r) ==
    /\ progress[r].at = "looking"
    /\ progress' = [progress EXCEPT ![r].at =
            IF progress[r].nonce \in DOMAIN cache THEN "duplicate" ELSE "room"]
    /\ looked' = [looked EXCEPT ![r] = now]
    /\ UNCHANGED <<now, limiter, replay, rivals, evicted, counted>>

Oldest == {n \in DOMAIN cache : \A m \in DOMAIN cache : cache[n] <= cache[m]}

\* The length is compared, and evict_oldest picks whom to remove ...
MakeRoom(r) ==
    /\ progress[r].at = "room"
    /\ \/ /\ Cardinality(DOMAIN cache) < CacheSize \/ cache = << >>
          /\ progress' = [progress EXCEPT ![r].at = "adding"]
       \/ /\ Cardinality(DOMAIN cache) >= CacheSize
          /\ \E n \in Oldest :
                progress' = [progress EXCEPT ![r].at = "evicting", ![r].victim = n]
    /\ UNCHANGED <<now, limiter, replay, history>>

\* ... and removes it, if it is still there.
EvictOldest(r) ==
    /\ progress[r].at = "evicting"
    /\ cache' = Delete(cache, {progress[r].victim})
    /\ evicted' = evicted \cup {progress[r].victim}
    /\ progress' = [progress EXCEPT ![r].at = "adding", ![r].victim = None]
    /\ UNCHANGED <<now, limiter, swept, rivals, counted, looked>>

AddNonce(r) ==
    /\ progress[r].at = "adding"
    /\ cache' = Put(cache, progress[r].nonce, progress[r].stamp)
    /\ progress' = [progress EXCEPT ![r].at = "accepted"]
    /\ UNCHANGED <<now, limiter, swept, history>>

-----------------------------------------------------------------------------
Step(r) ==
    \/ InsertBucket(r) \/ Count(r) \/ Track(r)
    \/ LookUp(r) \/ MakeRoom(r) \/ EvictOldest(r) \/ AddNonce(r)

ServerNext ==
    \/ Tick
    \/ \E r \in Requests :
          \/ Step(r)
          \/ \E c \in Clients : Arrive(r, c)
          \/ \E n \in Nonces : CheckNonce(r, n)

ServerSpec == ServerInit /\ [][ServerNext]_serverVars

-----------------------------------------------------------------------------
(* Properties.                                                             *)

States == {"new", "known", "unknown", "counted", "admitted", "refused", "panicked",
           "looking", "room", "evicting", "adding", "accepted", "duplicate"}

\* Every variable has its type.
ServerTypeOK ==
    /\ now \in 0 .. MaxTime
    /\ DOMAIN buckets \subseteq Clients
    /\ \A k \in DOMAIN buckets : buckets[k] \in [count : Nat, start : 0 .. MaxTime]
    /\ order \in Seq(Clients)
    /\ DOMAIN cache \subseteq Nonces
    /\ \A n \in DOMAIN cache : cache[n] \in 0 .. MaxTime
    /\ swept \in 0 .. MaxTime
    /\ progress \in [Requests ->
          [at : States, client : Clients \cup {None}, arrived : 0 .. MaxTime, first : BOOLEAN,
           allowed : BOOLEAN, nonce : Nonces \cup {None}, stamp : 0 .. MaxTime,
           victim : Nonces \cup {None}]]
    /\ rivals \in [Requests -> SUBSET Requests]
    /\ evicted \subseteq Nonces
    /\ {counted, looked} \subseteq [Requests -> 0 .. MaxTime \cup {None}]

\* A request that may have put its client's bucket there and has not listed it.
Inserting(r) == progress[r].first /\ progress[r].at \in {"known", "counted"}

Listed(k) == \E i \in 1 .. Len(order) : order[i] = k

\* Every bucket is in the eviction order, or will be once the request that
\* inserted it gets to it: however requests race, no bucket escapes eviction,
\* and the limiter keeps no more of them than it may.
BucketsTracked ==
    /\ Len(order) <= MaxBuckets
    /\ \A k \in DOMAIN buckets :
          Listed(k) \/ \E r \in Requests : Inserting(r) /\ progress[r].client = k

\* Nobody is refused early: a client that is has made as many requests as it
\* may within the last window, whatever was evicted or overwritten meanwhile.
NoEarlyRefusal ==
    \A r \in Requests : progress[r].at = "refused" =>
        Cardinality({q \in Requests \ {r} :
              /\ progress[q].client = progress[r].client
              /\ counted[q] # None /\ counted[q] > progress[r].arrived - Window}) >= MaxPerWindow

\* The limiter, whatever the order in which requests get to its map and its
\* list: no bucket escapes eviction, nobody is refused early, all in their type.
LimiterSound == ServerTypeOK /\ BucketsTracked /\ NoEarlyRefusal

\* A nonce is accepted twice within its time to live only if it was checked
\* twice at the same time, or evicted to make room.
ReplaysExplained ==
    \A r, q \in Requests :
        (/\ r # q
         /\ progress[r].at = "accepted" /\ progress[q].at = "accepted"
         /\ progress[r].nonce = progress[q].nonce /\ progress[r].nonce \notin evicted)
            => \/ rivals[r] # {} \/ rivals[q] # {}
               \/ looked[q] - progress[r].stamp >= Ttl
               \/ looked[r] - progress[q].stamp >= Ttl

-----------------------------------------------------------------------------
(* What the code does not keep.                                            *)

\* check_and_add returns true for a nonce not seen before (replay_protection.rs,
\* line 78).  Two requests may both look it up before either adds it.
AcceptedOnce ==
    \A r, q \in Requests :
        r # q /\ progress[r].at = "accepted" /\ progress[q].at = "accepted"
            => \/ progress[r].nonce # progress[q].nonce
               \/ progress[r].nonce \in evicted
               \/ progress[r].stamp - progress[q].stamp >= Ttl
               \/ progress[q].stamp - progress[r].stamp >= Ttl

\* The oldest is evicted to bound memory use (replay_protection.rs, line 97).
\* Two requests may pick the same, and the cache stays one too large.
CacheWithinSize ==
    (\A r \in Requests : ~Checking(r)) => Cardinality(DOMAIN cache) <= CacheSize

\* A request is allowed or rejected (rate_limit.rs, line 80).
NeverPanics == \A r \in Requests : progress[r].at # "panicked"

=============================================================================
