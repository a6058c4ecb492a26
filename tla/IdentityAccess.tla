--------------------------- MODULE IdentityAccess ---------------------------
(***************************************************************************)
(* The users of one tenant, what they may do, and the sessions that carry  *)
(* it: the deployment commands that seed the first administrator and the   *)
(* public reviewer before the API is started, the API requests that create *)
(* and suspend users and replace their access, login, refresh and logout.  *)
(*                                                                         *)
(* A request is a database transaction of several statements: get the      *)
(* principal, lock the tenant row, lock the target's row and check, write  *)
(* and commit. Another request may run between any two of them, so what    *)
(* was read before a lock may be old when it is used. The foreign keys of  *)
(* the rows written take a share lock on the tenant's and on the user's    *)
(* row: a writer waits for the one who holds it FOR UPDATE. A wait ends    *)
(* when the lock is free or when the database gives up on it.              *)
(*                                                                         *)
(* Left out: passwords (a login is correct or it is not attempted), the    *)
(* statuses of tenant and stores, the lifetimes of tokens (they only end a *)
(* session sooner), the read-only endpoints, and the audit records of      *)
(* logins, which change nobody's access.                                   *)
(***************************************************************************)
EXTENDS Naturals, FiniteSets, Sequences

CONSTANTS
    User,           \* email addresses
    Admin,          \* BOOTSTRAP_ADMIN_EMAIL
    Reviewer,       \* BOOTSTRAP_PUBLIC_REVIEWER_EMAIL
    NoUser,
    Store,
    Everywhere,     \* store_id NULL
    Request,        \* requests being served at a time
    Nobody,         \* no request holds the lock
    MaxLogins,      \* bound on the logins
    MaxRotations,   \* bound on the refreshes of one login
    MaxVersion,     \* bound on a user's token_version
    MaxRestarts,    \* bound on the times the hosted container is started again
    AccessRequests, \* the <<roles, stores>> asked for
    LegacyAccess    \* the access grants of users the earlier API created

ASSUME UserAssumption ==
    /\ {Admin, Reviewer} \subseteq User /\ Admin # Reviewer /\ NoUser \notin User
    /\ Everywhere \notin Store /\ Nobody \notin Request
ASSUME BoundAssumption ==
    {MaxLogins, MaxRotations, MaxRestarts} \subseteq Nat /\ MaxVersion \in Nat \ {0}

TenantWide == {"TENANT_ADMIN", "CORPORATE_USER"}
StoreScoped == {"STORE_MANAGER", "STORE_ASSOCIATE"}
Role == TenantWide \cup StoreScoped
AdminGrant == <<"CORPORATE_ADMIN", Everywhere>>
Grant == {AdminGrant} \cup (StoreScoped \X Store)
Scope == Role \X (Store \cup {Everywhere})
Session == 1..MaxLogins

ASSUME RequestAssumption ==
    /\ AccessRequests \subseteq ((SUBSET Role) \ {{}}) \X SUBSET Store
    /\ LegacyAccess \subseteq [User -> SUBSET Grant]

VARIABLES
    user,       \* users: status and token_version
    roles,      \* user_roles
    stores,     \* user_store_assignments
    grants,     \* user_access_grants, the compatibility half of the access
    session,    \* per login its auth_sessions: the family has one row that is
                \* not rotated yet, and as many that are as it was refreshed
    audit,      \* per user the new_token_version of its audit records, in order
    req,        \* the requests being served
    tenantLock, \* who holds the tenant row FOR UPDATE
    userLock,   \* who holds a users row FOR UPDATE
    phase,      \* what the hosted supervisor is doing
    restarts

rows == <<user, roles, stores, grants, audit>>
locks == <<tenantLock, userLock>>
vars == <<rows, session, req, locks, phase, restarts>>

Idle == [pc |-> "idle", op |-> "none", actor |-> NoUser, target |-> NoUser,
         scopes |-> {}, roles |-> {}, stores |-> {}, version |-> 0,
         session |-> 0, refreshes |-> 0]
NoSession == [state |-> "none", refreshes |-> 0, user |-> NoUser, version |-> 0,
              access |-> {}]

TypeOK ==
    /\ user \in [User -> [status: {"absent", "ACTIVE", "SUSPENDED"},
                          version: 0..MaxVersion]]
    /\ roles \in [User -> SUBSET Role]
    /\ stores \in [User -> SUBSET Store]
    /\ grants \in [User -> SUBSET Grant]
    /\ session \in [Session ->
            [state: {"none", "live", "revoked"}, refreshes: 0..MaxRotations,
             user: User \cup {NoUser}, version: 0..MaxVersion,
             access: SUBSET Scope]]
    /\ audit \in [User -> Seq(1..MaxVersion)]
    /\ req \in [Request ->
            [pc: {"idle", "authorized", "serialized", "checked", "login", "updating",
                  "refreshed", "rotating", "reused"},
             op: {"none", "create", "suspend", "access", "roles", "stores",
                  "login", "rotate"},
             actor: User \cup {NoUser}, target: User \cup {NoUser},
             scopes: SUBSET Scope, roles: SUBSET Role, stores: SUBSET Store,
             version: 0..MaxVersion, session: Session \cup {0},
             refreshes: 0..MaxRotations]]
    /\ tenantLock \in Request \cup {Nobody}
    /\ userLock \in [User -> Request \cup {Nobody}]
    /\ phase \in {"seedAdmin", "seedReviewer", "serving", "failed"}
    /\ restarts \in 0..MaxRestarts

Active(u) == user[u].status = "ACTIVE"

-----------------------------------------------------------------------------
(* What a user may do.                                                      *)

\* _canonical_role_for_legacy
CanonicalRole(legacy) ==
    IF legacy = "CORPORATE_ADMIN" THEN "TENANT_ADMIN" ELSE legacy

\* _load_canonical_access: a missing half is taken from the grants.
Roles(u) == IF roles[u] # {} THEN roles[u] ELSE {CanonicalRole(g[1]) : g \in grants[u]}

Stores(u) ==
    IF stores[u] # {} THEN stores[u] ELSE {g[2] : g \in grants[u]} \cap Store

\* The role_scopes of get_current_principal.
Scopes(u) ==
    IF roles[u] = {}
    THEN {<<CanonicalRole(g[1]), g[2]>> : g \in grants[u]}
    ELSE ((roles[u] \cap TenantWide) \X {Everywhere})
         \cup ((roles[u] \cap StoreScoped) \X stores[u])

\* has_tenant_permission and store_ids_for_permission, for USERS_CREATE and
\* USERS_SUSPEND: ROLE_PERMISSIONS gives both to the same roles.
TenantAdmin(scopes) == <<"TENANT_ADMIN", Everywhere>> \in scopes
ManagedStores(scopes) == {s \in Store : <<"STORE_MANAGER", s>> \in scopes}
MayManageUsers(scopes) == TenantAdmin(scopes) \/ ManagedStores(scopes) # {}

\* _compatibility_grant_specs
CompatibilityGrants(rs, ss) ==
    {AdminGrant : r \in rs \cap {"TENANT_ADMIN"}}
    \cup (IF "STORE_MANAGER" \in rs THEN {"STORE_MANAGER"} \X ss
          ELSE IF rs \cap {"STORE_ASSOCIATE", "CORPORATE_USER"} # {}
          THEN {"STORE_ASSOCIATE"} \X ss ELSE {})

\* _ensure_valid_canonical_access_pair
ValidPair(rs, ss) == rs \cap StoreScoped # {} <=> ss # {}

IsAdmin(u) == "TENANT_ADMIN" \in roles[u] \/ AdminGrant \in grants[u]

\* _ensure_another_active_tenant_admin
AnotherActiveAdmin(u) == \E v \in User \ {u} : Active(v) /\ IsAdmin(v)

\* get_current_principal accepts an access token of the login's newest session.
Usable(s) ==
    /\ session[s].state = "live"
    /\ Active(session[s].user)
    /\ user[session[s].user].version = session[s].version
    /\ Roles(session[s].user) # {}

-----------------------------------------------------------------------------
(* The hosted supervisor: both deployment commands run to their end before  *)
(* the API is started; one that fails ends the start.                       *)

\* _add_audit_record, _audit_access_change
Audited(u, version) == [audit EXCEPT ![u] = Append(@, version)]

NewUser(u) ==
    /\ user' = [user EXCEPT ![u] = [status |-> "ACTIVE", version |-> 1]]
    /\ audit' = Audited(u, 1)

SeedAdminFinds ==
    /\ AdminGrant \in grants[Admin]
    /\ roles' = [roles EXCEPT ![Admin] = @ \cup {"TENANT_ADMIN"}]
    /\ phase' = "seedReviewer"
    /\ UNCHANGED <<user, stores, grants, audit>>

SeedAdminCreates ==
    /\ \A u \in User : AdminGrant \notin grants[u]
    /\ user[Admin].status = "absent"
    /\ NewUser(Admin)
    /\ roles' = [roles EXCEPT ![Admin] = {"TENANT_ADMIN"}]
    /\ grants' = [grants EXCEPT ![Admin] = {AdminGrant}]
    /\ phase' = "seedReviewer"
    /\ UNCHANGED stores

\* bootstrap_admin_exists, bootstrap_user_conflict
SeedAdminFails ==
    /\ AdminGrant \notin grants[Admin]
    /\ \/ \E u \in User : AdminGrant \in grants[u]
       \/ user[Admin].status # "absent"
    /\ phase' = "failed"
    /\ UNCHANGED rows

\* bootstrap_corporate_admin
SeedAdmin ==
    /\ phase = "seedAdmin"
    /\ SeedAdminFinds \/ SeedAdminCreates \/ SeedAdminFails
    /\ UNCHANGED <<session, req, locks, restarts>>

SeedReviewerCreates ==
    /\ user[Reviewer].status = "absent"
    /\ NewUser(Reviewer)
    /\ roles' = [roles EXCEPT ![Reviewer] = {"CORPORATE_USER"}]
    /\ phase' = "serving"
    /\ UNCHANGED <<stores, grants>>

\* public_reviewer_admin_conflict
SeedReviewerFails ==
    /\ user[Reviewer].status # "absent"
    /\ IsAdmin(Reviewer)
    /\ phase' = "failed"
    /\ UNCHANGED rows

\* Mutant: a reactivated reviewer keeps the sessions it had.
MustInvalidateButStatus(passwordRotated) ==
    \/ passwordRotated
    \/ roles[Reviewer] # {"CORPORATE_USER"} \/ stores[Reviewer] # {}
    \/ grants[Reviewer] # {}

MustInvalidate(passwordRotated) ==
    \/ user[Reviewer].status # "ACTIVE"
    \/ passwordRotated
    \/ roles[Reviewer] # {"CORPORATE_USER"} \/ stores[Reviewer] # {}
    \/ grants[Reviewer] # {}

\* A new display name is a change that invalidates nothing.
SeedReviewerReconciles(passwordRotated, renamed) ==
    /\ user[Reviewer].status # "absent"
    /\ ~IsAdmin(Reviewer)
    /\ LET old == user[Reviewer].version
           new == IF MustInvalidate(passwordRotated) THEN old + 1 ELSE old
       IN  /\ new <= MaxVersion
           /\ user' = [user EXCEPT ![Reviewer] = [status |-> "ACTIVE", version |-> new]]
           /\ audit' = IF renamed \/ new # old
                       THEN Audited(Reviewer, new) ELSE audit
    /\ roles' = [roles EXCEPT ![Reviewer] = {"CORPORATE_USER"}]
    /\ stores' = [stores EXCEPT ![Reviewer] = {}]
    /\ grants' = [grants EXCEPT ![Reviewer] = {}]
    /\ phase' = "serving"

\* BOOTSTRAP_PUBLIC_REVIEWER_ENABLED is off: the address is free for others.
SeedReviewerDisabled ==
    /\ phase' = "serving"
    /\ UNCHANGED rows

\* bootstrap_public_reviewer
SeedReviewer ==
    /\ phase = "seedReviewer"
    /\ \/ SeedReviewerDisabled
       \/ SeedReviewerCreates
       \/ SeedReviewerFails
       \/ \E password, name \in BOOLEAN : SeedReviewerReconciles(password, name)
    /\ UNCHANGED <<session, req, locks, restarts>>

\* A child exits, or the platform stops the container: the others are terminated,
\* open transactions are rolled back, and the container starts again.
Restart ==
    /\ phase \in {"serving", "failed"}
    /\ restarts < MaxRestarts
    /\ restarts' = restarts + 1
    /\ phase' = "seedAdmin"
    /\ req' = [r \in Request |-> Idle]
    /\ tenantLock' = Nobody
    /\ userLock' = [u \in User |-> Nobody]
    /\ UNCHANGED <<rows, session>>

-----------------------------------------------------------------------------
(* Requests and the locks they take.                                        *)

\* get_current_principal of an idle server thread, or no principal needed.
Begins(r, q) ==
    /\ phase = "serving"
    /\ req[r] = Idle
    /\ req' = [req EXCEPT ![r] = q]

\* The transaction ends, by commit or rollback.
Ends(r) ==
    /\ req' = [req EXCEPT ![r] = Idle]
    /\ tenantLock' = IF tenantLock = r THEN Nobody ELSE tenantLock
    /\ userLock' = [u \in User |-> IF userLock[u] = r THEN Nobody ELSE userLock[u]]

\* A row that references the tenant and user u can be inserted. The UPDATE of a
\* login leaves the key of its row alone and does not stand in the way.
CanReference(r, u) ==
    /\ tenantLock \in {r, Nobody}
    /\ \A q \in Request \ {r} : userLock[u] = q => req[q].op = "login"

\* Mutant: a suspension does not take the tenant lock.
SerializedButSuspend == {"access", "roles"}

\* The operations that could remove the last administrator.
Serialized == {"suspend", "access", "roles"}

AccessChanged(q) ==
    \/ q.roles # Roles(q.target)
    \/ q.stores # Stores(q.target)
    \/ CompatibilityGrants(q.roles, q.stores) # grants[q.target]

\* access_changed, roles_missing or assignments_missing: rows are written.
Writes(q) ==
    q.op = "suspend" \/ AccessChanged(q) \/ roles[q.target] = {} \/ stores[q.target] = {}

WantsTenant(q) == q.pc = "authorized" /\ q.op \in Serialized

WantsTarget(q) ==
    \/ q.pc = "serialized"
    \/ q.pc = "authorized" /\ q.op \notin Serialized \cup {"create"}
    \/ q.pc = "login"

WantsShare(q) ==
    \/ q.pc \in {"updating", "refreshed", "rotating"}
    \/ q.pc = "checked" /\ Writes(q)
    \/ q.pc = "authorized" /\ q.op = "create"

Blocked(r) ==
    LET q == req[r] IN
    \/ WantsTenant(q) /\ tenantLock # Nobody
    \/ WantsTarget(q) /\ userLock[q.target] # Nobody
    \/ WantsShare(q) /\ ~CanReference(r, q.actor)

\* The deadlock detector or lock_timeout ends a wait: the transaction is rolled
\* back and the request answered with an error.
LockWaitAborted(r) ==
    /\ Blocked(r)
    /\ Ends(r)
    /\ UNCHANGED <<rows, session, phase, restarts>>

-----------------------------------------------------------------------------
(* services/identity.py: users and their access.                            *)

\* What the endpoint and the first lines of the service ask of the principal; a
\* user that is there is not created, and one that is not cannot be changed.
MayAsk(op, actor, scopes, target, rs, ss) ==
    /\ MayManageUsers(scopes)
    /\ op = "create" <=> user[target].status = "absent"
    /\ op = "suspend" => target # actor
    /\ op \in {"access", "roles"} => TenantAdmin(scopes)
    /\ op \in {"access", "create"} => ValidPair(rs, ss)
    /\ op = "create" => \/ TenantAdmin(scopes)
                        \/ rs = {"STORE_ASSOCIATE"} /\ ss \subseteq ManagedStores(scopes)

\* Any active user with a role may have a token by now: which session it is from
\* does not matter.
Authorized(r, actor, op, target, rs, ss) ==
    /\ Begins(r, [Idle EXCEPT !.pc = "authorized", !.op = op, !.actor = actor,
                              !.target = target, !.scopes = Scopes(actor),
                              !.roles = rs, !.stores = ss])
    /\ Active(actor) /\ Roles(actor) # {}
    /\ MayAsk(op, actor, Scopes(actor), target, rs, ss)
    /\ UNCHANGED <<rows, session, locks, phase, restarts>>

LocksTenant(r) ==
    /\ WantsTenant(req[r])
    /\ tenantLock = Nobody
    /\ tenantLock' = r
    /\ req' = [req EXCEPT ![r].pc = "serialized"]
    /\ UNCHANGED <<rows, session, userLock, phase, restarts>>

\* The access a request leads to: what it does not name stays.
RequestedRoles(q) == IF q.op = "stores" THEN Roles(q.target) ELSE q.roles
RequestedStores(q) == IF q.op = "roles" THEN Stores(q.target) ELSE q.stores

\* _ensure_can_suspend, _ensure_not_suspending_last_tenant_admin
MaySuspend(q) ==
    /\ Active(q.target)
    /\ \/ TenantAdmin(q.scopes)
       \/ /\ grants[q.target] # {}
          /\ grants[q.target] \subseteq {"STORE_ASSOCIATE"} \X ManagedStores(q.scopes)
    /\ IsAdmin(q.target) => AnotherActiveAdmin(q.target)

\* The checks of the three PUT endpoints under their locks, with
\* _ensure_not_removing_last_tenant_admin.
MayReplace(q) ==
    LET t == q.target IN
    /\ RequestedRoles(q) # {}
    /\ ValidPair(RequestedRoles(q), RequestedStores(q))
    /\ ("TENANT_ADMIN" \in Roles(t) /\ "TENANT_ADMIN" \notin RequestedRoles(q))
            => AnotherActiveAdmin(t)
    /\ TenantAdmin(q.scopes)
        \/ /\ q.op = "stores"
           /\ Roles(t) = {"STORE_ASSOCIATE"}
           /\ q.stores \cup Stores(t) \subseteq ManagedStores(q.scopes)

Permitted(q) ==
    /\ user[q.target].version < MaxVersion
    /\ IF q.op = "suspend" THEN MaySuspend(q) ELSE MayReplace(q)

\* Mutant: the target is read without locking it.
TargetIsFreeUnlocked(r) == TRUE

TargetIsFree(r) == userLock[req[r].target] = Nobody

\* _lock_access_target, and the checks that follow it.
LocksTarget(r) ==
    LET q == req[r] IN
    /\ WantsTarget(q) /\ q.op # "login"
    /\ TargetIsFree(r)
    /\ IF Permitted(q)
       THEN /\ userLock' = [userLock EXCEPT ![q.target] = r]
            /\ req' = [req EXCEPT ![r] = [q EXCEPT
                    !.pc = "checked", !.scopes = {}, !.version = user[q.target].version,
                    !.roles = RequestedRoles(q), !.stores = RequestedStores(q)]]
            /\ UNCHANGED tenantLock
       ELSE Ends(r)
    /\ UNCHANGED <<rows, session, phase, restarts>>

SuspendCommits(r) ==
    LET q == req[r] IN
    /\ q.pc = "checked" /\ q.op = "suspend"
    /\ CanReference(r, q.actor)
    /\ user' = [user EXCEPT ![q.target] = [status |-> "SUSPENDED",
                                           version |-> q.version + 1]]
    /\ audit' = Audited(q.target, q.version + 1)
    /\ Ends(r)
    /\ UNCHANGED <<roles, stores, grants, session, phase, restarts>>

\* Mutant: the service and its caller both increment the version.
NewVersionTwice(q) == IF AccessChanged(q) THEN q.version + 2 ELSE q.version

NewVersion(q) == IF AccessChanged(q) THEN q.version + 1 ELSE q.version

\* _persist_role_rows, _persist_assignment_rows, _persist_compatibility_grants
Persisted(q) ==
    /\ roles' = [roles EXCEPT ![q.target] = q.roles]
    /\ stores' = [stores EXCEPT ![q.target] = q.stores]
    /\ grants' = [grants EXCEPT ![q.target] = CompatibilityGrants(q.roles, q.stores)]

\* The three services write what is missing or different: the same rows result.
AccessCommits(r) ==
    LET q == req[r] IN
    /\ q.pc = "checked" /\ q.op # "suspend"
    /\ Writes(q) => CanReference(r, q.actor)
    /\ Persisted(q)
    /\ user' = [user EXCEPT ![q.target].version = NewVersion(q)]
    /\ audit' = IF AccessChanged(q) THEN Audited(q.target, NewVersion(q)) ELSE audit
    /\ Ends(r)
    /\ UNCHANGED <<session, phase, restarts>>

\* create_canonical_user: the unique email decides between two creations.
CreateCommits(r) ==
    LET q == req[r] IN
    /\ q.pc = "authorized" /\ q.op = "create"
    /\ CanReference(r, q.actor)
    /\ IF user[q.target].status = "absent"
       THEN /\ NewUser(q.target)
            /\ Persisted(q)
       ELSE UNCHANGED rows
    /\ Ends(r)
    /\ UNCHANGED <<session, phase, restarts>>

-----------------------------------------------------------------------------
(* Login, refresh and logout.                                               *)

\* What u may do: nothing when suspended; TENANT_ADMIN includes every permission.
Access(u) ==
    IF ~Active(u) THEN {}
    ELSE IF TenantAdmin(Scopes(u)) THEN {<<"TENANT_ADMIN", Everywhere>>} ELSE Scopes(u)

NotOpened == {s \in Session : session[s] = NoSession}

\* authenticate_user finds an active user and the password is right.
LoginReads(r, u) ==
    /\ Cardinality({q \in Request : req[q].op = "login"}) < Cardinality(NotOpened)
    /\ Active(u)
    /\ Begins(r, [Idle EXCEPT !.pc = "login", !.op = "login", !.actor = u, !.target = u])
    /\ UNCHANGED <<rows, session, locks, phase, restarts>>

\* The flush: UPDATE users SET last_login_at, then INSERT the audit record.
LoginUpdates(r) ==
    LET q == req[r] IN
    /\ q.pc = "login"
    /\ userLock[q.target] = Nobody
    /\ userLock' = [userLock EXCEPT ![q.target] = r]
    /\ req' = [req EXCEPT ![r].pc = "updating"]
    /\ UNCHANGED <<rows, session, tenantLock, phase, restarts>>

\* The commit, and db.refresh(user) in the next transaction: what was committed
\* since the first read is seen now, a suspension even. What others commit
\* between the two they might as well have committed before LoginUpdates.
LoginCommits(r) ==
    LET q == req[r] IN
    /\ q.pc = "updating"
    /\ CanReference(r, q.target)
    /\ userLock' = [userLock EXCEPT ![q.target] = Nobody]
    /\ req' = [req EXCEPT ![r] = [q EXCEPT !.pc = "refreshed",
                    !.version = user[q.target].version, !.scopes = Access(q.target)]]
    /\ UNCHANGED <<rows, session, tenantLock, phase, restarts>>

\* create_auth_session
LoginOpensSession(r) ==
    LET q == req[r] IN
    /\ q.pc = "refreshed"
    /\ CanReference(r, q.target)
    /\ \E s \in NotOpened :
        /\ \A x \in NotOpened : s <= x
        /\ session' = [session EXCEPT ![s] =
                [NoSession EXCEPT !.state = "live", !.user = q.target,
                                  !.version = q.version, !.access = q.scopes]]
    /\ Ends(r)
    /\ UNCHANGED <<rows, phase, restarts>>

BeingRotated(s) == \E r \in Request : req[r].pc = "rotating" /\ req[r].session = s

MayRotate(s) ==
    Active(session[s].user) /\ user[session[s].user].version = session[s].version

\* rotate_auth_session with the newest refresh token: its session and then the
\* user are locked. A session that may not be refreshed any more is revoked.
RotateLocks(r, s) ==
    LET u == session[s].user IN
    /\ session[s].state = "live"
    /\ ~BeingRotated(s)
    /\ userLock[u] = Nobody
    /\ IF MayRotate(s)
       THEN /\ session[s].refreshes < MaxRotations
            /\ Begins(r, [Idle EXCEPT !.pc = "rotating", !.op = "rotate", !.actor = u,
                    !.target = u, !.version = user[u].version, !.session = s])
            /\ userLock' = [userLock EXCEPT ![u] = r]
            /\ UNCHANGED <<session, tenantLock>>
       ELSE /\ phase = "serving" /\ req[r] = Idle
            /\ session' = [session EXCEPT ![s].state = "revoked"]
            /\ UNCHANGED <<req, locks>>
    /\ UNCHANGED <<rows, phase, restarts>>

\* The replacement belongs to the same family, and by it to the same login.
RotateCommits(r) ==
    LET q == req[r] IN
    /\ q.pc = "rotating"
    /\ CanReference(r, q.target)
    /\ session' = [session EXCEPT ![q.session].refreshes = @ + 1,
                                  ![q.session].version = q.version]
    /\ Ends(r)
    /\ UNCHANGED <<rows, phase, restarts>>

\* rotate_auth_session with a refresh token that was already used: the UPDATE
\* finds the rows the family has now and waits for the one being rotated.
ReuseDetected(r, s) ==
    /\ session[s].refreshes > 0
    /\ Begins(r, [Idle EXCEPT !.pc = "reused", !.op = "rotate", !.session = s,
                              !.refreshes = session[s].refreshes])
    /\ UNCHANGED <<rows, session, locks, phase, restarts>>

\* A replacement that was inserted after the UPDATE had begun is not among them.
ReuseRevokes(r) ==
    LET q == req[r] IN
    /\ q.pc = "reused"
    /\ ~BeingRotated(q.session)
    /\ session' = IF session[q.session].refreshes = q.refreshes
                  THEN [session EXCEPT ![q.session].state = "revoked"] ELSE session
    /\ Ends(r)
    /\ UNCHANGED <<rows, phase, restarts>>

\* revoke_auth_session: every token the API issues names its session.
Logout(s) ==
    /\ phase = "serving"
    /\ Usable(s) /\ ~BeingRotated(s)
    /\ session' = [session EXCEPT ![s].state = "revoked"]
    /\ UNCHANGED <<rows, req, locks, phase, restarts>>

-----------------------------------------------------------------------------
\* A fresh database, or one with users the earlier API created: they have grants
\* and no canonical rows.
Init ==
    /\ grants \in LegacyAccess
    /\ user = [u \in User |-> IF grants[u] # {}
                THEN [status |-> "ACTIVE", version |-> 1]
                ELSE [status |-> "absent", version |-> 0]]
    /\ roles = [u \in User |-> {}]
    /\ stores = [u \in User |-> {}]
    /\ session = [s \in Session |-> NoSession]
    /\ audit = [u \in User |-> <<>>]
    /\ req = [r \in Request |-> Idle]
    /\ tenantLock = Nobody
    /\ userLock = [u \in User |-> Nobody]
    /\ phase = "seedAdmin"
    /\ restarts = 0

Arrives(r) ==
    \/ \E u, t \in User, a \in AccessRequests :
        \/ \E op \in {"create", "access"} : Authorized(r, u, op, t, a[1], a[2])
        \/ Authorized(r, u, "suspend", t, {}, {})
        \/ Authorized(r, u, "roles", t, a[1], {})
        \/ Authorized(r, u, "stores", t, {}, a[2])
    \/ \E u \in User : LoginReads(r, u)
    \/ \E s \in Session : RotateLocks(r, s) \/ ReuseDetected(r, s)

Continues(r) ==
    \/ LocksTenant(r) \/ LocksTarget(r)
    \/ SuspendCommits(r) \/ AccessCommits(r) \/ CreateCommits(r)
    \/ LoginUpdates(r) \/ LoginCommits(r) \/ LoginOpensSession(r)
    \/ RotateCommits(r) \/ ReuseRevokes(r)

Next ==
    \/ SeedAdmin \/ SeedReviewer \/ Restart
    \/ \E r \in Request : Arrives(r) \/ Continues(r) \/ LockWaitAborted(r)
    \/ \E s \in Session : Logout(s)

Spec == Init /\ [][Next]_vars

-----------------------------------------------------------------------------
(* Properties.                                                              *)

\* Whatever administrators do to each other at the same time, on principals that
\* may be out of date, an active user with the TENANT_ADMIN role remains.
AdminRemains ==
    phase = "serving" => \E u \in User : Active(u) /\ TenantAdmin(Scopes(u))

\* A session that is accepted, however often it was refreshed, was logged in
\* under the very access its user has now: a change of access, a suspension or
\* a reactivation in between ends it, also when it raced the login.
SessionsCarryCurrentAccess ==
    \A s \in Session : Usable(s) => session[s].access = Access(session[s].user)

\* Every change of what a user may do has a token version of its own, and an
\* audit record with it, whatever runs beside it.
ChangesAreAudited ==
    [][\A u \in User :
        Access(u) # Access(u)' =>
            /\ user'[u].version > user[u].version
            /\ audit'[u] = Append(audit[u], user'[u].version)]_vars

=============================================================================
