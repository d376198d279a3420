--------------------------- MODULE RouterRegistry ---------------------------
(***************************************************************************)
(* The router-registry contract: contract addresses by name and version.   *)
(* Versions of a name only go up, an entry is never removed, only          *)
(* deprecated, and lookups answer the newest entry that is not.            *)
(*                                                                         *)
(* Entry(name, version) holds the facts; Versions, ContractNames and       *)
(* AddressIndex are indexes of them, written by write_entry alone.         *)
(*                                                                         *)
(* As elsewhere, nothing uses the definitions named Slip: each misstates   *)
(* the definition after it the way a plausible mistake would.              *)
(***************************************************************************)
EXTENDS Accounts

CONSTANTS
    Contracts,  \* addresses of registered contracts
    Names,      \* contract names
    Reasons,    \* deprecation reasons, the absent one included
    MaxVersion, \* the largest u32
    MaxBulk     \* MAX_BULK_BATCH_SIZE, 50 in the code

CONSTANT
    MaxBatch    \* bound on the length of the batches a run passes

ASSUME RegistryNumbers == {MaxVersion, MaxBulk, MaxBatch} \subseteq Nat

VARIABLES
    admin,     \* Admin
    entries,   \* Entry(name, version) -> [address, by, retired]
    versions,  \* Versions(name), empty when absent
    names,     \* ContractNames
    index      \* AddressIndex(address) -> <<name, version>>

vars == <<admin, entries, versions, names, index>>

Keys == Names \X (1 .. MaxVersion)

\* retired is None while the entry is current, then the reason given.
Entries == [address : Contracts, by : Addresses, retired : Reasons \cup {None}]

Current(k) == entries[k].retired = None

-----------------------------------------------------------------------------
(* Lookups.  A constraint is an operator and a number; Malformed stands    *)
(* for the strings parse_constraint rejects.                               *)

Comparisons == {">=", "<=", ">", "<", "^", "~", "="}
Malformed == [op |-> "malformed", base |-> 0]
Constraints == [op : Comparisons, base : 0 .. MaxVersion] \cup {Malformed}

ASSUME RegistryNone == None \notin Reasons \cup Entries \cup Constraints

Matches(v, c) ==
    \/ c.op = ">=" /\ v >= c.base
    \/ c.op = "<=" /\ v <= c.base
    \/ c.op = ">" /\ v > c.base
    \/ c.op = "<" /\ v < c.base
    \/ c.op \in {"^", "~", "="} /\ v = c.base

Found(v) == [error |-> "none", version |-> v]
Error(e) == [error |-> e, version |-> 0]

\* latest_matching, with the errors its callers make of what it answers: the
\* walk from the newest version stops at the first that is allowed and is
\* current, or has no entry.
LatestMatching(n, allowed) ==
    LET hits == {i \in DOMAIN versions[n] : versions[n][i] \in allowed}
        stops == {i \in hits : LET k == <<n, versions[n][i]>>
                               IN  k \in DOMAIN entries => Current(k)}
        last == CHOOSE i \in stops : \A j \in stops : j <= i
    IN  IF hits = {} THEN Error("NotFound")
        ELSE IF stops = {} THEN Error("AllVersionsDeprecated")
        ELSE IF <<n, versions[n][last]>> \in DOMAIN entries THEN Found(versions[n][last])
        ELSE Error("NotFound")

GetLatest(n) == LatestMatching(n, Range(versions[n]))

LookupSlip(n, c) ==
    LET latest == GetLatest(n)
    IN  IF c = None THEN latest
        ELSE IF c = Malformed THEN Error("InvalidConstraint")
        ELSE IF latest.error # "none" \/ Matches(latest.version, c) THEN latest
        ELSE Error("NotFound")

\* get_latest_with_constraint.
Lookup(n, c) ==
    IF c = None THEN GetLatest(n)
    ELSE IF c = Malformed THEN Error("InvalidConstraint")
    ELSE LatestMatching(n, {v \in Range(versions[n]) : Matches(v, c)})

\* get, get_all_versions and get_entry_by_address.
Get(k) == IF k \in DOMAIN entries THEN entries[k] ELSE None

AllVersions(n) ==
    LET stored == Among(versions[n], {v \in 1 .. MaxVersion : Get(<<n, v>>) # None})
    IN  [i \in DOMAIN stored |-> Get(<<n, stored[i]>>)]

EntryByAddress(a) == IF a \in DOMAIN index THEN Get(index[a]) ELSE None

-----------------------------------------------------------------------------
(* Entry points.                                                           *)

Init ==
    /\ admin = None
    /\ entries = << >>
    /\ versions = [n \in Names |-> << >>]
    /\ names = << >>
    /\ index = << >>

Initialize(newAdmin) ==
    /\ admin = None
    /\ admin' = newAdmin
    /\ UNCHANGED <<entries, versions, names, index>>

\* validate_registration.
ValidRegistration(n, v) ==
    /\ v > 0
    /\ <<n, v>> \notin DOMAIN entries
    /\ versions[n] # << >> => v > versions[n][Len(versions[n])]

\* The items of a batch that are entered when failures are passed over: those
\* valid and above every earlier item of their name.  A rejected earlier item
\* is no obstacle the accepted ones are not.
Accepted(items) ==
    {i \in DOMAIN items :
        /\ ValidRegistration(items[i].name, items[i].version)
        /\ \A j \in 1 .. i - 1 : items[j].name = items[i].name
                                  => items[j].version < items[i].version}

Key(item) == <<item.name, item.version>>

\* A name is listed when its first version is written.
WriteNames(items, I) ==
    names' = names \o Kept([i \in DOMAIN items |-> items[i].name],
        {i \in I : /\ versions[items[i].name] = << >>
                   /\ \A j \in I : items[j].name = items[i].name => i <= j})

WriteIndexSlip(items, I) ==
    LET fresh == {items[i].address : i \in I} \ DOMAIN index
        last(a) == CHOOSE i \in I : items[i].address = a
    IN  index' = [a \in DOMAIN index \cup fresh |->
                    IF a \in fresh THEN Key(items[last(a)]) ELSE index[a]]

\* The address index follows the last entry written for an address.
WriteIndex(items, I) ==
    LET written == {items[i].address : i \in I}
        last(a) == CHOOSE i \in I : /\ items[i].address = a
                                    /\ \A j \in I : items[j].address = a => j <= i
    IN  index' = [a \in DOMAIN index \cup written |->
                    IF a \in written THEN Key(items[last(a)]) ELSE index[a]]

\* write_entry, for the items at the positions I, in order.
WriteEntries(caller, items, I) ==
    LET written == {Key(items[i]) : i \in I}
        source(k) == CHOOSE i \in I : Key(items[i]) = k
    IN  /\ entries' = [k \in DOMAIN entries \cup written |->
                         IF k \in written
                           THEN [address |-> items[source(k)].address, by |-> caller,
                                 retired |-> None]
                           ELSE entries[k]]
        /\ versions' = [n \in Names |-> versions[n] \o
                          Kept([i \in DOMAIN items |-> items[i].version],
                               {i \in I : items[i].name = n})]
        /\ WriteNames(items, I)
        /\ WriteIndex(items, I)
        /\ UNCHANGED admin

\* With fail_fast an item that would be rejected leaves the whole batch out.
BulkRegister(caller, items, failFast) ==
    /\ caller = admin
    /\ Len(items) <= MaxBulk
    /\ failFast => Accepted(items) = DOMAIN items
    /\ WriteEntries(caller, items, Accepted(items))

Register(caller, n, address, v) ==
    /\ caller = admin
    /\ ValidRegistration(n, v)
    /\ WriteEntries(caller, <<[name |-> n, address |-> address, version |-> v]>>, {1})

Probes == {"none", "answers", "fails", "forbidden"}

\* The probe calls the contract to be registered; only health and ping are
\* allowed, and only an answer lets the registration through.
RegisterWithCheck(caller, n, address, v, probe) ==
    /\ probe \in {"none", "answers"}
    /\ Register(caller, n, address, v)

RetireSlip(keys, reason) ==
    /\ entries' = [k \in DOMAIN entries |->
                     IF k \in keys THEN [entries[k] EXCEPT !.retired = reason[k]] ELSE entries[k]]
    /\ UNCHANGED <<admin, versions, names, index>>

\* deprecate_one, for each of the keys; those already deprecated stay as they are.
Retire(keys, reason) ==
    /\ entries' = [k \in DOMAIN entries |->
                     IF k \in keys /\ Current(k)
                       THEN [entries[k] EXCEPT !.retired = reason[k]]
                       ELSE entries[k]]
    /\ UNCHANGED <<admin, versions, names, index>>

Deprecate(caller, k, reason) ==
    /\ caller = admin
    /\ k \in DOMAIN entries
    /\ Current(k)
    /\ Retire({k}, [x \in {k} |-> reason])

DeprecateAllVersions(caller, n, reason) ==
    /\ caller = admin
    /\ versions[n] # << >>
    /\ LET keys == {n} \X Range(versions[n])
       IN  Retire(keys, [k \in keys |-> reason])

\* The items of deprecate_many that succeed; with fail_fast, up to the first
\* that does not.
Deprecable(items, failFast) ==
    LET succeeds(i) == /\ items[i].key \in DOMAIN entries
                       /\ Current(items[i].key)
                       /\ \A j \in 1 .. i - 1 : items[j].key # items[i].key
    IN  {i \in DOMAIN items : /\ succeeds(i)
                              /\ failFast => \A j \in 1 .. i - 1 : succeeds(j)}

DeprecateMany(caller, items, failFast) ==
    LET done == Deprecable(items, failFast)
        reason == [k \in {items[i].key : i \in done} |->
                     items[CHOOSE i \in done : items[i].key = k].reason]
    IN  /\ caller = admin
        /\ Len(items) <= MaxBulk
        /\ Retire(DOMAIN reason, reason)

TransferAdmin(caller, newAdmin) ==
    /\ caller = admin
    /\ admin' = newAdmin
    /\ UNCHANGED <<entries, versions, names, index>>

BatchesOf(S) == UNION {[1 .. k -> S] : k \in 0 .. MaxBatch}
Registrations == [name : Names, address : Contracts, version : 0 .. MaxVersion]
Deprecations == [key : Keys, reason : Reasons]

Next ==
    \/ \E a \in Addresses : Initialize(a)
    \/ \E a \in Addresses, items \in BatchesOf(Registrations), f \in BOOLEAN :
          BulkRegister(a, items, f)
    \/ \E a \in Addresses, n \in Names, c \in Contracts, v \in 0 .. MaxVersion :
          \/ Register(a, n, c, v)
          \/ \E p \in Probes : RegisterWithCheck(a, n, c, v, p)
    \/ \E a \in Addresses, k \in Keys, r \in Reasons : Deprecate(a, k, r)
    \/ \E a \in Addresses, n \in Names, r \in Reasons : DeprecateAllVersions(a, n, r)
    \/ \E a \in Addresses, items \in BatchesOf(Deprecations), f \in BOOLEAN :
          DeprecateMany(a, items, f)
    \/ \E a, b \in Addresses : TransferAdmin(a, b)

Spec == Init /\ [][Next]_vars

-----------------------------------------------------------------------------
(* Properties.                                                             *)

TypeOK ==
    /\ admin \in Addresses \cup {None}
    /\ DOMAIN entries \subseteq Keys
    /\ entries \in [DOMAIN entries -> Entries]
    /\ versions \in [Names -> Seq(1 .. MaxVersion)]
    /\ names \in Seq(Names)
    /\ DOMAIN index \subseteq Contracts
    /\ index \in [DOMAIN index -> Keys]

\* Each version list is strictly ascending and lists exactly the stored
\* versions of its name, and the names are those with a version, once each:
\* the invariant the comment in versions() claims and every walk relies on.
Ascending(s) == \A i, j \in DOMAIN s : i < j => s[i] < s[j]

VersionsExact ==
    /\ \A n \in Names : /\ Ascending(versions[n])
                        /\ Range(versions[n]) = {v \in 1 .. MaxVersion : <<n, v>> \in DOMAIN entries}
    /\ IsInjective(names)
    /\ Range(names) = {n \in Names : versions[n] # << >>}

\* Exactly the registered addresses are found by address, and what is found is
\* an entry with that address, the newest one under its name.
AddressIndexNewest ==
    \A a \in Contracts :
        LET keys == {k \in DOMAIN entries : entries[k].address = a}
        IN  IF keys = {}
              THEN EntryByAddress(a) = None
              ELSE /\ index[a] \in keys
                   /\ EntryByAddress(a) = entries[index[a]]
                   /\ \A k \in keys : k[1] = index[a][1] => k[2] <= index[a][2]

\* The indexes that write_entry keeps beside the entries are exact, after
\* batches in which names, versions and addresses repeat as well.
IndexesExact == TypeOK /\ VersionsExact /\ AddressIndexNewest

\* What a lookup means, in terms of the entries alone: the greatest current
\* version the constraint allows, or the error that says why there is none.
Allowed(n, c) == {v \in 1 .. MaxVersion : <<n, v>> \in DOMAIN entries /\ Matches(v, c)}

Answer(n, c) ==
    LET current == {v \in Allowed(n, c) : Current(<<n, v>>)}
    IN  IF c = Malformed THEN Error("InvalidConstraint")
        ELSE IF Allowed(n, c) = {} THEN Error("NotFound")
        ELSE IF current = {} THEN Error("AllVersionsDeprecated")
        ELSE Found(CHOOSE v \in current : \A w \in current : w <= v)

\* The walk over the version list answers every lookup as it is meant, one
\* without a constraint as one that allows every version; and the list of all
\* versions ends, but for deprecated ones, with the latest.
LookupsMeanWhatTheySay ==
    \A n \in Names :
        /\ \A c \in Constraints : Lookup(n, c) = Answer(n, c)
        /\ Lookup(n, None) = Answer(n, [op |-> ">=", base |-> 0])
        /\ LET all == AllVersions(n)
           IN  /\ Len(all) = Cardinality({k \in DOMAIN entries : k[1] = n})
               /\ GetLatest(n).error = "none" =>
                    \E i \in DOMAIN all :
                       /\ all[i] = Get(<<n, GetLatest(n).version>>)
                       /\ \A j \in i + 1 .. Len(all) : all[j].retired # None

\* The abstract catalog: a history per name and the reasons for retiring.
Published == [n \in Names |->
    [i \in DOMAIN versions[n] |->
       [version |-> versions[n][i], address |-> entries[<<n, versions[n][i]>>].address,
        by |-> entries[<<n, versions[n][i]>>].by]]]

RetiredFor == [k \in {k \in DOMAIN entries : ~Current(k)} |-> entries[k].retired]

Latest == [n \in Names |-> GetLatest(n).version]

Catalog == INSTANCE VersionCatalog
    WITH published <- Published, retired <- RetiredFor, latest <- Latest

\* No call rewrites history: versions are only added at the end of a name's
\* list, what was registered keeps its address, what was deprecated stays so
\* with the reason first given, and the latest version follows from that.
KeepsCatalog == Catalog!Spec

=============================================================================
