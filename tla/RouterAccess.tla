---------------------------- MODULE RouterAccess ----------------------------
(***************************************************************************)
(* The router-access contract: who holds which role, until when, under     *)
(* which parent role, and who is barred from all of them.                  *)
(*                                                                         *)
(* A grant of a role to an account is recorded four times: HasRole and     *)
(* RoleExpiry under the pair, RoleMembers under the role, AddressRoles     *)
(* under the account.  RoleMemberCount counts what is active, without      *)
(* looking; time makes grants inactive without any call.                   *)
(*                                                                         *)
(* As elsewhere, nothing uses the definitions named Slip: each misstates   *)
(* the definition after it the way a plausible mistake would.              *)
(***************************************************************************)
EXTENDS Vectors

CONSTANTS
    None,         \* an absent Option or storage key
    Accounts,     \* accounts, the super admin among them
    Roles,        \* role names
    Forever,      \* the largest u64, the expiry of a grant without one
    MaxHierarchy, \* MAX_HIERARCHY_DEPTH, 16 in the code
    DefaultLimits \* DEFAULT_MAX_ROLES and DEFAULT_MAX_GRANTS_PER_ROLE

CONSTANTS         \* the inputs a run enumerates, and its bounds
    Durations,    \* values of expires_in, None among them
    SomeLimits,   \* limits [roles, grants] passed to set_role_limits
    Parents,      \* roles that are made parents
    MaxBatch,     \* bound on the accounts of a batch
    MaxTime       \* bound on the ledger time

ASSUME AccessNone == None \notin Accounts \cup Roles \cup Nat
ASSUME AccessNumbers ==
    /\ {MaxBatch, MaxTime, Forever} \subseteq Nat
    /\ MaxTime < Forever
    /\ MaxHierarchy \in Nat \ {0}
    /\ Durations \subseteq (0 .. Forever) \cup {None}
    /\ SomeLimits \cup {DefaultLimits} \subseteq [roles : Nat, grants : Nat]
    /\ Parents \subseteq Roles

VARIABLES
    now,          \* the ledger's timestamp
    superAdmin,   \* SuperAdmin
    roleAdmin,    \* RoleAdmin(role)
    blacklisted,  \* the accounts with Blacklisted(account)
    holds,        \* the pairs with HasRole(role, account)
    expiry,       \* RoleExpiry(role, account)
    members,      \* RoleMembers(role), empty when absent
    addressRoles, \* AddressRoles(account), empty when absent
    count,        \* RoleMemberCount(role), 0 when absent
    parent,       \* RoleParent(role)
    allRoles,     \* AllRoles
    limits        \* RoleLimits, the defaults when absent

grants == <<holds, expiry, members, addressRoles, count>>
authority == <<superAdmin, roleAdmin, limits>>
vars == <<now, authority, blacklisted, grants, parent, allRoles>>

-----------------------------------------------------------------------------
(* What a role check sees.                                                 *)

\* n steps up from r by the function up, None past the top.
Climb(up, r, n) ==
    LET at[i \in 0 .. n] == IF i = 0 THEN r
                            ELSE IF at[i - 1] = None THEN None
                            ELSE up[at[i - 1]]
    IN  at[n]

Ancestor(r, n) == Climb(parent, r, n)

HasDirectRoleSlip(a, r) ==
    /\ <<r, a>> \in holds
    /\ <<r, a>> \in DOMAIN expiry => now < expiry[<<r, a>>]

\* has_direct_role_internal; expiry is the last valid time.
HasDirectRole(a, r) ==
    /\ <<r, a>> \in holds
    /\ <<r, a>> \in DOMAIN expiry => now <= expiry[<<r, a>>]

\* The roles whose holders hold r: itself and those above, as far as the walk
\* of has_role_internal goes.
Lineage(r) == {Ancestor(r, n) : n \in 0 .. MaxHierarchy - 1} \ {None}

HasRole(a, r) == a \notin blacklisted /\ \E q \in Lineage(r) : HasDirectRole(a, q)

\* is_role_expired and get_role_members.
IsRoleExpired(r, a) ==
    ~HasRole(a, r) /\ <<r, a>> \in DOMAIN expiry /\ now > expiry[<<r, a>>]
RoleMembers(r) == Among(members[r], {a \in Accounts : HasRole(a, r)})

IsSuperAdmin(a) == a = superAdmin /\ a \notin blacklisted
IsRoleManager(a, r) ==
    a \notin blacklisted /\ superAdmin # None /\ a \in {superAdmin, roleAdmin[r]}

-----------------------------------------------------------------------------
(* Granting and withdrawing.                                               *)

\* checked_add of the ledger time: None when the sum overflows.
ExpiryOf(duration) ==
    IF duration = None THEN Forever
    ELSE IF now + duration <= Forever THEN now + duration
    ELSE None

CanTrack(r) == r \in Range(allRoles) \/ Len(allRoles) < limits.roles
Track(s, r) == IF r \in Range(s) THEN s ELSE Append(s, r)

\* An account that gets a grant for the role, or another expiry.
Grantable(a, r, until) ==
    /\ a \notin blacklisted
    /\ until # None
    /\ <<r, a>> \in holds /\ HasRole(a, r) /\ <<r, a>> \in DOMAIN expiry
         => expiry[<<r, a>>] # until
    /\ CanTrack(r)

\* Whether the i-th account of a batch gets the grant after those at the
\* positions done did: a repeated account finds the grant it already got, and
\* the cap is compared with a count the earlier ones raised.
GetsGrant(batch, i, done, r, until, failFast) ==
    LET woken == {j \in done : ~(<<r, batch[j]>> \in holds /\ HasRole(batch[j], r))}
    IN  /\ Grantable(batch[i], r, until)
        /\ \A j \in done : batch[j] # batch[i]
        /\ batch[i] \notin Range(members[r]) => count[r] + Cardinality(woken) < limits.grants
        /\ failFast => done = 1 .. i - 1

\* The positions of a batch that are granted, each judged after those before it.
Granted(batch, r, until, failFast) ==
    CHOOSE D \in SUBSET DOMAIN batch : \A i \in DOMAIN batch :
        i \in D <=> GetsGrant(batch, i, {j \in D : j < i}, r, until, failFast)

\* activate_role_grant for the accounts of S, in order.
Activate(r, S, until) ==
    LET new == Kept(S, {i \in DOMAIN S : S[i] \notin Range(members[r])})
        woken == {a \in Range(S) : ~(<<r, a>> \in holds /\ HasRole(a, r))}
    IN  /\ holds' = holds \cup ({r} \X Range(S))
        /\ expiry' = [k \in DOMAIN expiry \cup ({r} \X Range(S)) |->
                        IF k \in {r} \X Range(S) THEN until ELSE expiry[k]]
        /\ members' = [members EXCEPT ![r] = @ \o new]
        /\ addressRoles' = [a \in Accounts |-> IF a \in Range(S) THEN Track(addressRoles[a], r)
                                               ELSE addressRoles[a]]
        /\ count' = [count EXCEPT ![r] = @ + Cardinality(woken)]

\* A role's count after one account less, a saturating difference.
Fewer(n) == IF n = 0 THEN 0 ELSE n - 1

DeactivateSlip(r, a) ==
    /\ holds' = holds \ {<<r, a>>}
    /\ expiry' = Delete(expiry, {<<r, a>>})
    /\ members' = [members EXCEPT ![r] = Without(@, {a})]
    /\ addressRoles' = addressRoles
    /\ count' = IF HasRole(a, r) THEN [count EXCEPT ![r] = Fewer(@)] ELSE count

\* deactivate_role_grant: only an account that still holds the role, in its own
\* right or through a parent, is counted out.
Deactivate(r, a) ==
    /\ holds' = holds \ {<<r, a>>}
    /\ expiry' = Delete(expiry, {<<r, a>>})
    /\ members' = [members EXCEPT ![r] = Without(@, {a})]
    /\ addressRoles' = [addressRoles EXCEPT ![a] = Without(@, {r})]
    /\ count' = IF HasRole(a, r) THEN [count EXCEPT ![r] = Fewer(@)] ELSE count

-----------------------------------------------------------------------------
(* Entry points.                                                           *)

Init ==
    /\ now = 0
    /\ superAdmin = None
    /\ roleAdmin = [r \in Roles |-> None]
    /\ blacklisted = {}
    /\ holds = {}
    /\ expiry = << >>
    /\ members = [r \in Roles |-> << >>]
    /\ addressRoles = [a \in Accounts |-> << >>]
    /\ count = [r \in Roles |-> 0]
    /\ parent = [r \in Roles |-> None]
    /\ allRoles = << >>
    /\ limits = DefaultLimits

Initialize(a) ==
    /\ superAdmin = None
    /\ superAdmin' = a
    /\ UNCHANGED <<now, roleAdmin, limits, blacklisted, grants, parent, allRoles>>

SetRoleLimits(caller, new) ==
    /\ IsSuperAdmin(caller)
    /\ limits' = new
    /\ UNCHANGED <<now, superAdmin, roleAdmin, blacklisted, grants, parent, allRoles>>

\* Some account of the batch is granted the role; the others' failures stay
\* without effect.  grant_role is a batch of one, whose failure is an error.
GrantRoleBatch(caller, batch, r, duration, failFast) ==
    LET until == ExpiryOf(duration)
        done == Granted(batch, r, until, failFast)
    IN  /\ IsRoleManager(caller, r)
        /\ done # {}
        /\ Activate(r, Kept(batch, done), until)
        /\ allRoles' = Track(allRoles, r)
        /\ UNCHANGED <<now, authority, blacklisted, parent>>

GrantRole(caller, a, r, duration) == GrantRoleBatch(caller, <<a>>, r, duration, TRUE)

RevokeRole(caller, r, a) ==
    /\ IsRoleManager(caller, r)
    /\ <<r, a>> \in holds
    /\ Deactivate(r, a)
    /\ UNCHANGED <<now, authority, blacklisted, parent, allRoles>>

ExpireRole(caller, r, a) ==
    /\ IsSuperAdmin(caller)
    /\ <<r, a>> \in holds
    /\ Deactivate(r, a)
    /\ UNCHANGED <<now, authority, blacklisted, parent, allRoles>>

\* The grant moves with its expiry, whatever made the account hold the role.
TransferRoleMembership(caller, r, from, to) ==
    /\ IsRoleManager(caller, r)
    /\ HasRole(from, r)
    /\ ~HasRole(to, r)
    /\ <<r, from>> \in DOMAIN expiry
    /\ to \notin blacklisted
    /\ CanTrack(r)
    /\ holds' = (holds \ {<<r, from>>}) \cup {<<r, to>>}
    /\ expiry' = Put(Delete(expiry, {<<r, from>>}), <<r, to>>, expiry[<<r, from>>])
    /\ members' = [members EXCEPT ![r] = Track(Without(@, {from}), to)]
    /\ addressRoles' = [addressRoles EXCEPT ![from] = Without(@, {r}), ![to] = Track(@, r)]
    /\ count' = [count EXCEPT ![r] = Fewer(@) + 1]
    /\ allRoles' = Track(allRoles, r)
    /\ UNCHANGED <<now, authority, blacklisted, parent>>

SetRoleAdmin(caller, r, a) ==
    /\ IsSuperAdmin(caller)
    /\ a \notin blacklisted
    /\ CanTrack(r)
    /\ allRoles' = Track(allRoles, r)
    /\ roleAdmin' = [roleAdmin EXCEPT ![r] = a]
    /\ UNCHANGED <<now, superAdmin, limits, blacklisted, grants, parent>>

NoRoleParentCycleSlip(r, p) == Ancestor(p, MaxHierarchy - 1) = None /\ p # r

\* ensure_no_role_parent_cycle: the walk up from p comes to a top, within the
\* depth allowed, without meeting r.
NoRoleParentCycle(r, p) ==
    /\ Ancestor(p, MaxHierarchy - 1) = None
    /\ \A n \in 0 .. MaxHierarchy - 2 : Ancestor(p, n) # r

SetRoleParentSlip(caller, r, p) ==
    /\ IsSuperAdmin(caller)
    /\ NoRoleParentCycle(r, p)
    /\ CanTrack(r)
    /\ CanTrack(p)
    /\ allRoles' = Track(Track(allRoles, r), p)
    /\ parent' = [parent EXCEPT ![r] = p]
    /\ UNCHANGED <<now, authority, blacklisted, grants>>

\* Both roles are tracked, the second under what the first left of the cap.
SetRoleParent(caller, r, p) ==
    LET tracked == Track(allRoles, r)
    IN  /\ IsSuperAdmin(caller)
        /\ NoRoleParentCycle(r, p)
        /\ CanTrack(r)
        /\ p \in Range(tracked) \/ Len(tracked) < limits.roles
        /\ allRoles' = Track(tracked, p)
        /\ parent' = [parent EXCEPT ![r] = p]
        /\ UNCHANGED <<now, authority, blacklisted, grants>>

\* Blacklisting takes the account's own active grants out of the counts, and
\* lifting it puts back those that are active then.
Blacklist(caller, a) ==
    /\ IsSuperAdmin(caller)
    /\ a # caller
    /\ a \notin blacklisted
    /\ count' = [r \in Roles |-> IF r \in Range(addressRoles[a]) /\ HasDirectRole(a, r)
                                   THEN Fewer(count[r]) ELSE count[r]]
    /\ blacklisted' = blacklisted \cup {a}
    /\ UNCHANGED <<now, authority, holds, expiry, members, addressRoles, parent, allRoles>>

UnblacklistSlip(caller, a) ==
    /\ IsSuperAdmin(caller)
    /\ a \in blacklisted
    /\ blacklisted' = blacklisted \ {a}
    /\ UNCHANGED <<now, authority, grants, parent, allRoles>>

Unblacklist(caller, a) ==
    /\ IsSuperAdmin(caller)
    /\ a \in blacklisted
    /\ count' = [r \in Roles |-> IF r \in Range(addressRoles[a]) /\ HasDirectRole(a, r)
                                   THEN count[r] + 1 ELSE count[r]]
    /\ blacklisted' = blacklisted \ {a}
    /\ UNCHANGED <<now, authority, holds, expiry, members, addressRoles, parent, allRoles>>

TransferSuperAdmin(current, a) ==
    /\ IsSuperAdmin(current)
    /\ a \notin blacklisted
    /\ superAdmin' = a
    /\ UNCHANGED <<now, roleAdmin, limits, blacklisted, grants, parent, allRoles>>

\* A later ledger closes, however much later.
Tick ==
    /\ now' \in now + 1 .. MaxTime
    /\ UNCHANGED <<authority, blacklisted, grants, parent, allRoles>>

Batches == UNION {[1 .. n -> Accounts] : n \in 1 .. MaxBatch}

ManageRole ==
    \E caller \in Accounts, r \in Roles :
        \/ \E a \in Accounts :
              \/ \E d \in Durations : GrantRole(caller, a, r, d)
              \/ RevokeRole(caller, r, a)
              \/ ExpireRole(caller, r, a)
              \/ SetRoleAdmin(caller, r, a)
              \/ \E b \in Accounts : TransferRoleMembership(caller, r, a, b)
        \/ \E batch \in Batches, d \in Durations, f \in BOOLEAN :
              GrantRoleBatch(caller, batch, r, d, f)
        \/ \E p \in Parents : SetRoleParent(caller, r, p)

ManageAccounts ==
    \E caller \in Accounts :
        \/ Initialize(caller)
        \/ \E new \in SomeLimits : SetRoleLimits(caller, new)
        \/ \E a \in Accounts :
              \/ Blacklist(caller, a)
              \/ Unblacklist(caller, a)
              \/ TransferSuperAdmin(caller, a)

Next == Tick \/ ManageRole \/ ManageAccounts

Spec == Init /\ [][Next]_vars

-----------------------------------------------------------------------------
(* Properties.                                                             *)

TypeOK ==
    /\ now \in 0 .. MaxTime
    /\ superAdmin \in Accounts \cup {None}
    /\ roleAdmin \in [Roles -> Accounts \cup {None}]
    /\ blacklisted \subseteq Accounts
    /\ holds \subseteq Roles \X Accounts
    /\ DOMAIN expiry \subseteq Roles \X Accounts
    /\ expiry \in [DOMAIN expiry -> 0 .. Forever]
    /\ members \in [Roles -> Seq(Accounts)]
    /\ addressRoles \in [Accounts -> Seq(Roles)]
    /\ count \in [Roles -> Nat]
    /\ parent \in [Roles -> Roles \cup {None}]
    /\ allRoles \in Seq(Roles)
    /\ limits \in [roles : Nat, grants : Nat]

\* The four records of a grant agree, whatever grants, batches, transfers,
\* revocations and expiries came before, no list names anyone twice, and every
\* role granted, administered or linked is listed.
RecordsAgree ==
    /\ DOMAIN expiry = holds
    /\ \A r \in Roles : /\ IsInjective(members[r])
                        /\ Range(members[r]) = {a \in Accounts : <<r, a>> \in holds}
    /\ \A a \in Accounts : /\ IsInjective(addressRoles[a])
                           /\ Range(addressRoles[a]) = {r \in Roles : <<r, a>> \in holds}
    /\ IsInjective(allRoles)
    /\ {r \in Roles : members[r] # << >> \/ roleAdmin[r] # None \/ parent[r] # None}
         \cup (Range(parent) \ {None}) \subseteq Range(allRoles)

\* What becomes of a grant's record is explained: whoever is recorded as a member
\* of a role is listed, reported expired, or barred, nobody is listed who is also
\* one of the others, and nobody else is listed.  Whoever holds a role does so by
\* a grant that has not run out and that the list of the account names.  It need
\* not be a grant of that role: get_role_members does not list who holds a role
\* of another that inherits it.
MembersAccountedFor ==
    \A r \in Roles, a \in Accounts :
        LET listed  == a \in Range(RoleMembers(r))
            expired == IsRoleExpired(r, a)
        IN  /\ a \in Range(members[r]) => listed \/ expired \/ a \in blacklisted
            /\ ~(listed /\ expired)
            /\ listed => a \in Range(members[r]) \ blacklisted
            /\ HasRole(a, r) =>
                 \E q \in Range(addressRoles[a]) : q \in Lineage(r) /\ ~IsRoleExpired(q, a)

\* The list of roles grows only up to the cap in force, also by two at once.
RolesWithinCap == [][Len(allRoles') > Len(allRoles) => Len(allRoles') <= limits.roles]_vars

\* No role is its own ancestor, so walks up the hierarchy end by themselves.
HierarchyAcyclic ==
    \A r \in Roles : \A n \in 1 .. Cardinality(Roles) : Ancestor(r, n) # r

\* Blacklisting never locks the contract: once there is a super admin there is
\* one who can act, through transfers and blacklistings in any order.
SuperAdminCanAct == superAdmin # None => IsSuperAdmin(superAdmin)

\* The accounts that hold r by a grant of their own.
Active(r) == {a \in Accounts \ blacklisted : HasDirectRole(a, r)}

\* The count of a role without parents never falls below its active members,
\* so a grant the cap admits leaves no more than that.  It may well lie above:
\* see CountIsActive.
NeverUndercounts == \A r \in Roles : parent[r] = None => count[r] >= Cardinality(Active(r))

\* What the comments on RoleMemberCount say: it counts the active members.
CountIsActive == \A r \in Roles : count[r] = Cardinality(Active(r))

\* What set_role_limits says of its cap: no more accounts come to hold a role
\* at the same time.
CapHolds ==
    [][\A r \in Roles : Cardinality(Active(r)') > Cardinality(Active(r))
          => Cardinality(Active(r)') <= limits.grants]_vars

\* What the comment on the check of parents says: every chain it accepts is
\* walked to its top by the role check.
ChainsWalkable == \A r \in Roles : Ancestor(r, MaxHierarchy) = None

\* What the doc of transfer_role_membership says: expired grants are not
\* transferred, so no call makes a grant that has expired already.
NoExpiredGrantMade == [][\A k \in holds' \ holds : now <= expiry'[k]]_vars

=============================================================================
