------------------------- MODULE IdentityAccessProofs -------------------------
(***************************************************************************)
(* Proofs about IdentityAccess for every set of users, stores and requests:*)
(* an administrator remains, every change of access has a version and an   *)
(* audit record of its own, and a session carries the access of its user.  *)
(***************************************************************************)
EXTENDS IdentityAccess, SequenceTheorems, TLAPS

-----------------------------------------------------------------------------
(* The access of one user, from its row, its canonical rows and its grants. *)

RolesOf(rs, gs) == IF rs # {} THEN rs ELSE {CanonicalRole(g[1]) : g \in gs}

StoresOf(ss, gs) == IF ss # {} THEN ss ELSE {g[2] : g \in gs} \cap Store

ScopesOf(rs, ss, gs) ==
    IF rs = {} THEN {<<CanonicalRole(g[1]), g[2]>> : g \in gs}
    ELSE ((rs \cap TenantWide) \X {Everywhere}) \cup ((rs \cap StoreScoped) \X ss)

AccessOf(usr, rs, ss, gs) ==
    IF usr.status # "ACTIVE" THEN {}
    ELSE IF TenantAdmin(ScopesOf(rs, ss, gs)) THEN {<<"TENANT_ADMIN", Everywhere>>}
    ELSE ScopesOf(rs, ss, gs)

UserRow == [status: {"absent", "ACTIVE", "SUSPENDED"}, version: 0..MaxVersion]

\* What is written of a user fits together: nothing of one that is absent, both halves
\* say whether it is an administrator, and a role in stores has some.
Fits(usr, rs, ss, gs) ==
    /\ usr \in UserRow /\ rs \subseteq Role /\ ss \subseteq Store /\ gs \subseteq Grant
    /\ usr.status = "absent" => usr.version = 0 /\ rs = {} /\ ss = {} /\ gs = {}
    /\ usr.status # "absent" => usr.version > 0
    /\ rs # {} => ("TENANT_ADMIN" \in rs <=> AdminGrant \in gs)
    /\ rs \cap StoreScoped # {} => ss # {}

LEMMA AccessIs ==
    ASSUME NEW u \in User
    PROVE  /\ Roles(u) = RolesOf(roles[u], grants[u])
           /\ Stores(u) = StoresOf(stores[u], grants[u])
           /\ Scopes(u) = ScopesOf(roles[u], stores[u], grants[u])
           /\ Access(u) = AccessOf(user[u], roles[u], stores[u], grants[u])
BY DEF Roles, Stores, Scopes, Access, Active, RolesOf, StoresOf, ScopesOf, AccessOf

LEMMA GrantParts ==
    ASSUME NEW g \in Grant
    PROVE  \/ g = AdminGrant /\ g[1] = "CORPORATE_ADMIN" /\ g[2] = Everywhere
                /\ CanonicalRole(g[1]) = "TENANT_ADMIN"
           \/ g # AdminGrant /\ g = <<g[1], g[2]>> /\ g[1] \in StoreScoped /\ g[2] \in Store
                /\ CanonicalRole(g[1]) = g[1]
<1>1. CASE g = AdminGrant
    BY <1>1 DEF AdminGrant, CanonicalRole
<1>2. CASE g \in StoreScoped \X Store
    <2>1. g = <<g[1], g[2]>> /\ g[1] \in StoreScoped /\ g[2] \in Store
        BY <1>2
    <2>2. g[1] # "CORPORATE_ADMIN"
        BY <2>1 DEF StoreScoped
    <2>3. g # AdminGrant
        BY <2>2 DEF AdminGrant
    <2> QED BY <2>1, <2>2, <2>3 DEF CanonicalRole
<1> QED BY <1>1, <1>2 DEF Grant

LEMMA RolesAndStores ==
    ASSUME NEW rs \in SUBSET Role, NEW ss \in SUBSET Store, NEW gs \in SUBSET Grant
    PROVE  /\ RolesOf(rs, gs) \subseteq Role /\ StoresOf(ss, gs) \subseteq Store
           /\ ScopesOf(rs, ss, gs) \subseteq Scope
           /\ rs = {} => ("TENANT_ADMIN" \in RolesOf(rs, gs) <=> AdminGrant \in gs)
           /\ TenantAdmin(ScopesOf(rs, ss, gs)) <=> "TENANT_ADMIN" \in RolesOf(rs, gs)
<1>1. \A g \in gs : /\ CanonicalRole(g[1]) \in Role
                    /\ CanonicalRole(g[1]) = "TENANT_ADMIN" <=> g = AdminGrant
                    /\ g[2] \in Store \cup {Everywhere}
                    /\ g = AdminGrant => g[2] = Everywhere
    <2> SUFFICES ASSUME NEW g \in gs
                 PROVE  /\ CanonicalRole(g[1]) \in Role
                        /\ CanonicalRole(g[1]) = "TENANT_ADMIN" <=> g = AdminGrant
                        /\ g[2] \in Store \cup {Everywhere}
                        /\ g = AdminGrant => g[2] = Everywhere
        OBVIOUS
    <2>1. g \in Grant
        OBVIOUS
    <2> QED BY <2>1, GrantParts DEF Role, StoreScoped, TenantWide
<1>2. RolesOf(rs, gs) \subseteq Role
    BY <1>1 DEF RolesOf
<1>3. StoresOf(ss, gs) \subseteq Store
    BY DEF StoresOf
<1>4. rs = {} => ("TENANT_ADMIN" \in RolesOf(rs, gs) <=> AdminGrant \in gs)
    BY <1>1 DEF RolesOf
<1>5. CASE rs = {}
    <2> DEFINE scope(g) == <<CanonicalRole(g[1]), g[2]>>
    <2>1. ScopesOf(rs, ss, gs) = {scope(g) : g \in gs}
        BY <1>5 DEF ScopesOf
    <2>2. \A g \in gs : scope(g) \in Scope
        BY <1>1 DEF Scope
    <2>3. \A g \in gs : scope(g) = <<"TENANT_ADMIN", Everywhere>> <=> g = AdminGrant
        BY <1>1
    <2> HIDE DEF scope
    <2>4. TenantAdmin(ScopesOf(rs, ss, gs)) <=> AdminGrant \in gs
        BY <2>1, <2>3 DEF TenantAdmin
    <2> QED BY <1>2, <1>3, <1>4, <1>5, <2>1, <2>2, <2>4
<1>6. CASE rs # {}
    <2>1. /\ ScopesOf(rs, ss, gs)
                = ((rs \cap TenantWide) \X {Everywhere}) \cup ((rs \cap StoreScoped) \X ss)
          /\ RolesOf(rs, gs) = rs
        BY <1>6 DEF ScopesOf, RolesOf
    <2>2. ScopesOf(rs, ss, gs) \subseteq Scope
        BY <2>1 DEF Scope
    <2>3. <<"TENANT_ADMIN", Everywhere>> \in ScopesOf(rs, ss, gs) <=> "TENANT_ADMIN" \in rs
        <3>1. "TENANT_ADMIN" \in TenantWide
            BY DEF TenantWide
        <3>2. Everywhere \notin ss
            BY UserAssumption
        <3> QED BY <2>1, <3>1, <3>2
    <2> QED BY <1>2, <1>3, <1>6, <2>1, <2>2, <2>3 DEF TenantAdmin
<1> QED BY <1>5, <1>6

LEMMA AccessType ==
    ASSUME NEW usr, NEW rs \in SUBSET Role, NEW ss \in SUBSET Store, NEW gs \in SUBSET Grant
    PROVE  AccessOf(usr, rs, ss, gs) \subseteq Scope
<1>1. ScopesOf(rs, ss, gs) \subseteq Scope
    BY RolesAndStores
<1>2. <<"TENANT_ADMIN", Everywhere>> \in Scope
    BY DEF Scope, Role, TenantWide
<1> QED BY <1>1, <1>2 DEF AccessOf

\* What the API writes as grants.
LEMMA GrantsWritten ==
    ASSUME NEW rs \in SUBSET Role, NEW ss \in SUBSET Store
    PROVE  /\ CompatibilityGrants(rs, ss) \subseteq Grant
           /\ AdminGrant \in CompatibilityGrants(rs, ss) <=> "TENANT_ADMIN" \in rs
<1> DEFINE adm == {AdminGrant : r \in rs \cap {"TENANT_ADMIN"}}
           scoped == IF "STORE_MANAGER" \in rs THEN {"STORE_MANAGER"} \X ss
                     ELSE IF rs \cap {"STORE_ASSOCIATE", "CORPORATE_USER"} # {}
                     THEN {"STORE_ASSOCIATE"} \X ss ELSE {}
<1>1. CompatibilityGrants(rs, ss) = adm \cup scoped
    BY DEF CompatibilityGrants
<1>2. scoped \subseteq StoreScoped \X Store
    BY DEF StoreScoped
<1>3. AdminGrant \notin StoreScoped \X Store
    BY DEF AdminGrant, StoreScoped
<1>4. AdminGrant \in adm <=> "TENANT_ADMIN" \in rs
    OBVIOUS
<1>5. adm \subseteq {AdminGrant}
    OBVIOUS
<1> HIDE DEF adm, scoped
<1> QED BY <1>1, <1>2, <1>3, <1>4, <1>5 DEF Grant

\* Rows that say what the access was already leave the access as it was.
LEMMA SameAccess ==
    ASSUME NEW usr, NEW rs, NEW ss, NEW gs, Fits(usr, rs, ss, gs),
           CompatibilityGrants(RolesOf(rs, gs), StoresOf(ss, gs)) = gs
    PROVE  AccessOf(usr, RolesOf(rs, gs), StoresOf(ss, gs), gs) = AccessOf(usr, rs, ss, gs)
<1> DEFINE R == RolesOf(rs, gs)
           S == StoresOf(ss, gs)
<1>1. rs \in SUBSET Role /\ ss \in SUBSET Store /\ gs \in SUBSET Grant
    BY DEF Fits
<1>2. R \in SUBSET Role /\ S \in SUBSET Store /\ RolesOf(R, gs) = R
    <2>1. R \subseteq Role /\ S \subseteq Store
        BY <1>1, RolesAndStores
    <2>2. RolesOf(R, gs) = R
        BY DEF RolesOf
    <2> QED BY <2>1, <2>2
<1>3. TenantAdmin(ScopesOf(R, S, gs)) <=> TenantAdmin(ScopesOf(rs, ss, gs))
    BY <1>1, <1>2, RolesAndStores
<1>4. ASSUME ~TenantAdmin(ScopesOf(rs, ss, gs))
      PROVE  ScopesOf(R, S, gs) = ScopesOf(rs, ss, gs)
    <2>1. "TENANT_ADMIN" \notin R
        BY <1>1, <1>4, RolesAndStores
    <2>2. CASE rs # {}
        <3>1. R = rs
            BY <2>2 DEF RolesOf
        <3>2. CASE rs \cap StoreScoped = {}
            <4>1. \A T : (rs \cap StoreScoped) \X T = {}
                BY <3>2
            <4> HIDE DEF R, S
            <4> QED BY <2>2, <3>1, <4>1 DEF ScopesOf
        <3>3. CASE rs \cap StoreScoped # {}
            <4>1. S = ss
                BY <3>3 DEF Fits, StoresOf
            <4> HIDE DEF R, S
            <4> QED BY <3>1, <4>1
        <3> QED BY <3>2, <3>3
    <2>3. CASE rs = {} /\ gs = {}
        <3>1. R = {}
            BY <2>3 DEF RolesOf
        <3> HIDE DEF R, S
        <3> QED BY <2>3, <3>1 DEF ScopesOf
    <2>4. CASE rs = {} /\ gs # {}
        <3>1. R = {CanonicalRole(g[1]) : g \in gs}
            BY <2>4 DEF RolesOf
        <3>2. \A g \in gs : g = <<g[1], g[2]>> /\ g[1] \in StoreScoped /\ g[2] \in Store
                            /\ CanonicalRole(g[1]) = g[1]
            <4>1. AdminGrant \notin gs
                BY <1>1, <2>1, <2>4, RolesAndStores
            <4> QED BY <1>1, <4>1, GrantParts
        <3> HIDE DEF R, S
        <3>3. gs = (IF "STORE_MANAGER" \in R THEN {"STORE_MANAGER"} \X S
                    ELSE IF R \cap {"STORE_ASSOCIATE", "CORPORATE_USER"} # {}
                    THEN {"STORE_ASSOCIATE"} \X S ELSE {})
            <4>1. CompatibilityGrants(R, S) = gs
                BY DEF R, S
            <4> QED BY <2>1, <4>1 DEF CompatibilityGrants
        <3>4. PICK role \in StoreScoped : gs = {role} \X S
            BY <2>4, <3>3 DEF StoreScoped
        <3>5. R = {role}
            BY <2>4, <3>1, <3>2, <3>4
        <3>6. ScopesOf(R, S, gs) = gs
            <4>1. R # {} /\ R \cap TenantWide = {} /\ R \cap StoreScoped = {role}
                BY <3>5 DEF TenantWide, StoreScoped
            <4> QED BY <3>4, <4>1 DEF ScopesOf
        <3>7. ScopesOf(rs, ss, gs) = gs
            <4>1. ScopesOf(rs, ss, gs) = {<<CanonicalRole(g[1]), g[2]>> : g \in gs}
                BY <2>4 DEF ScopesOf
            <4>2. \A g \in gs : <<CanonicalRole(g[1]), g[2]>> = g
                BY <3>2
            <4> QED BY <4>1, <4>2
        <3> QED BY <3>6, <3>7
    <2> QED BY <2>2, <2>3, <2>4
<1> HIDE DEF R, S
<1>5. AccessOf(usr, R, S, gs) = AccessOf(usr, rs, ss, gs)
    BY <1>3, <1>4 DEF AccessOf
<1> QED BY <1>5 DEF R, S

-----------------------------------------------------------------------------
(* The requests: what a request in each place is known to be, and hold.     *)

ReqRow ==
    [pc: {"idle", "authorized", "serialized", "checked", "login", "updating",
          "refreshed", "rotating", "reused"},
     op: {"none", "create", "suspend", "access", "roles", "stores", "login", "rotate"},
     actor: User \cup {NoUser}, target: User \cup {NoUser},
     scopes: SUBSET Scope, roles: SUBSET Role, stores: SUBSET Store,
     version: 0..MaxVersion, session: Session \cup {0}, refreshes: 0..MaxRotations]

SessionRow ==
    [state: {"none", "live", "revoked"}, refreshes: 0..MaxRotations,
     user: User \cup {NoUser}, version: 0..MaxVersion, access: SUBSET Scope]

\* The operation a request is at and the parts of it that are filled in.
Shape(q) ==
    /\ q \in ReqRow
    /\ q.pc = "authorized" => /\ q.op \in Serialized \cup {"stores", "create"}
                              /\ q.op = "create" => ValidPair(q.roles, q.stores)
    /\ q.pc = "serialized" => q.op \in Serialized
    /\ q.pc = "checked" => q.op \in Serialized \cup {"stores"}
    /\ q.pc \in {"login", "updating", "refreshed"} => q.op = "login"
    /\ q.pc \in {"rotating", "reused"} => q.op = "rotate" /\ q.session \in Session
    /\ q.pc \notin {"idle", "reused"} => q.target \in User /\ q.actor \in User

Holds(r) ==
    /\ req[r].pc \in {"checked", "updating", "rotating"} => userLock[req[r].target] = r
    /\ (req[r].pc = "serialized" \/ (req[r].pc = "checked" /\ req[r].op \in Serialized))
            => tenantLock = r

LEMMA IdleShape == Shape(Idle)
<1>1. Idle \in ReqRow
    BY BoundAssumption DEF Idle, ReqRow
<1> QED BY <1>1 DEF Idle, Shape

LEMMA LoginShape ==
    ASSUME NEW q, NEW u \in User,
           q = [Idle EXCEPT !.pc = "login", !.op = "login", !.actor = u, !.target = u]
    PROVE  Shape(q) /\ q.pc = "login" /\ q.target = u
<1>1. q = [pc |-> "login", op |-> "login", actor |-> u, target |-> u, scopes |-> {},
           roles |-> {}, stores |-> {}, version |-> 0, session |-> 0, refreshes |-> 0]
    BY DEF Idle
<1>2. q \in ReqRow
    BY <1>1, BoundAssumption DEF ReqRow
<1> QED BY <1>1, <1>2 DEF Shape

LEMMA RotateShape ==
    ASSUME NEW q, NEW u \in User, NEW s \in Session, NEW v \in 0..MaxVersion,
           q = [Idle EXCEPT !.pc = "rotating", !.op = "rotate", !.actor = u, !.target = u,
                            !.version = v, !.session = s]
    PROVE  Shape(q) /\ q.pc = "rotating" /\ q.target = u /\ q.version = v /\ q.session = s
<1>1. q = [pc |-> "rotating", op |-> "rotate", actor |-> u, target |-> u, scopes |-> {},
           roles |-> {}, stores |-> {}, version |-> v, session |-> s, refreshes |-> 0]
    BY DEF Idle
<1>2. q \in ReqRow
    BY <1>1, BoundAssumption DEF ReqRow
<1> QED BY <1>1, <1>2 DEF Shape

LEMMA ReuseShape ==
    ASSUME NEW q, NEW s \in Session, NEW n \in 0..MaxRotations,
           q = [Idle EXCEPT !.pc = "reused", !.op = "rotate", !.session = s, !.refreshes = n]
    PROVE  Shape(q) /\ q.pc = "reused"
<1>1. q = [pc |-> "reused", op |-> "rotate", actor |-> NoUser, target |-> NoUser,
           scopes |-> {}, roles |-> {}, stores |-> {}, version |-> 0, session |-> s,
           refreshes |-> n]
    BY DEF Idle
<1>2. q \in ReqRow
    BY <1>1, BoundAssumption DEF ReqRow
<1> QED BY <1>1, <1>2 DEF Shape

LEMMA MovedShape ==
    ASSUME NEW q, Shape(q), NEW pc \in {"serialized", "updating"}, NEW x,
           pc = "serialized" => q.pc = "authorized" /\ q.op \in Serialized,
           pc = "updating" => q.pc = "login",
           x = [q EXCEPT !.pc = pc]
    PROVE  Shape(x) /\ x.pc = pc /\ x.op = q.op /\ x.target = q.target
<1>1. q \in ReqRow /\ q.target \in User /\ q.actor \in User
    BY DEF Shape
<1>2. x \in ReqRow /\ x.pc = pc /\ x.op = q.op /\ x.target = q.target /\ x.actor = q.actor
    BY <1>1 DEF ReqRow
<1> QED BY <1>1, <1>2 DEF Shape

-----------------------------------------------------------------------------
(* The invariant of rows, locks and requests.                               *)

RowsOK ==
    /\ user \in [User -> UserRow]
    /\ roles \in [User -> SUBSET Role]
    /\ stores \in [User -> SUBSET Store]
    /\ grants \in [User -> SUBSET Grant]
    /\ audit \in [User -> Seq(1..MaxVersion)]
    /\ \A u \in User : Fits(user[u], roles[u], stores[u], grants[u])

SessionsTyped ==
    /\ session \in [Session -> SessionRow]
    /\ \A s \in Session : session[s].state = "live" => session[s].user \in User

LocksTyped ==
    /\ tenantLock \in Request \cup {Nobody}
    /\ userLock \in [User -> Request \cup {Nobody}]

\* Nobody is ever absent again.
AuthorizedStands(r) ==
    (req[r].pc \in {"authorized", "serialized"} /\ req[r].op # "create")
        => user[req[r].target].status # "absent"

\* What was checked under the lock of the target is true until the request ends.
CheckedStands(r) ==
    req[r].pc = "checked" =>
        /\ user[req[r].target].status # "absent"
        /\ req[r].version = user[req[r].target].version
        /\ req[r].version < MaxVersion
        /\ req[r].op # "suspend" => ValidPair(req[r].roles, req[r].stores) /\ req[r].roles # {}
        /\ req[r].op = "stores"
            => req[r].roles = RolesOf(roles[req[r].target], grants[req[r].target])

\* A session that is being refreshed stays as it was found: one request at a time
\* refreshes it, and who revokes it waits.
RotationStands(r) ==
    req[r].pc = "rotating" =>
        /\ session[req[r].session].state = "live"
        /\ session[req[r].session].refreshes < MaxRotations
        /\ session[req[r].session].version = req[r].version
        /\ \A x \in Request \ {r} :
                ~(req[x].pc = "rotating" /\ req[x].session = req[r].session)

ReqsTyped == req \in [Request -> ReqRow] /\ \A r \in Request : Shape(req[r]) /\ Holds(r)

RestOK ==
    /\ phase \in {"seedAdmin", "seedReviewer", "serving", "failed"}
    /\ restarts \in 0..MaxRestarts
    /\ phase # "serving" => \A r \in Request : req[r] = Idle

BaseInv ==
    /\ RowsOK /\ SessionsTyped /\ LocksTyped /\ ReqsTyped /\ RestOK
    /\ \A r \in Request : AuthorizedStands(r) /\ CheckedStands(r) /\ RotationStands(r)

-----------------------------------------------------------------------------
(* A step of one request leaves the others, and the locks they hold, alone. *)

Keeps(x) ==
    /\ tenantLock = x => tenantLock' = x
    /\ \A u \in User : userLock[u] = x => userLock'[u] = x

Moves(r) ==
    /\ phase = "serving" /\ UNCHANGED <<phase, restarts>>
    /\ LocksTyped' /\ req' \in [Request -> ReqRow]
    /\ \A x \in Request \ {r} : req'[x] = req[x] /\ Keeps(x)
    /\ Shape(req'[r]) /\ Holds(r)'

LEMMA ServingSince ==
    ASSUME BaseInv, NEW r \in Request, req[r].pc # "idle"
    PROVE  phase = "serving"
BY DEF BaseInv, RestOK, Idle

LEMMA EndsMoves ==
    ASSUME BaseInv, NEW r \in Request, Ends(r), phase = "serving", UNCHANGED <<phase, restarts>>
    PROVE  Moves(r) /\ req'[r] = Idle
<1>1. req \in [Request -> ReqRow] /\ LocksTyped
    BY DEF BaseInv, ReqsTyped
<1>2. Shape(Idle) /\ Idle \in ReqRow /\ Idle.pc = "idle"
    BY IdleShape DEF Shape, Idle
<1>3. req' \in [Request -> ReqRow] /\ req'[r] = Idle /\ \A x \in Request \ {r} : req'[x] = req[x]
    BY <1>1, <1>2 DEF Ends
<1>4. LocksTyped' /\ \A x \in Request \ {r} : Keeps(x)
    BY <1>1 DEF Ends, LocksTyped, Keeps
<1>5. Holds(r)'
    BY <1>2, <1>3 DEF Holds
<1> QED BY <1>2, <1>3, <1>4, <1>5 DEF Moves

LEMMA BeginsMoves ==
    ASSUME BaseInv, NEW r \in Request, NEW q, Begins(r, q), Shape(q),
           q.pc \notin {"serialized", "checked", "updating", "rotating"},
           UNCHANGED <<locks, phase, restarts>>
    PROVE  Moves(r) /\ req'[r] = q
<1>1. req \in [Request -> ReqRow] /\ LocksTyped /\ q \in ReqRow
    BY DEF BaseInv, ReqsTyped, Shape
<1>2. req' \in [Request -> ReqRow] /\ req'[r] = q /\ \A x \in Request \ {r} : req'[x] = req[x]
    BY <1>1 DEF Begins
<1>3. LocksTyped' /\ \A x \in Request \ {r} : Keeps(x)
    BY <1>1 DEF LocksTyped, Keeps, locks
<1>4. Holds(r)'
    BY <1>2 DEF Holds
<1> QED BY <1>2, <1>3, <1>4 DEF Moves, Begins

\* A request takes a lock nobody holds and goes on.
LEMMA TakesMoves ==
    ASSUME BaseInv, NEW r \in Request, phase = "serving", UNCHANGED <<phase, restarts>>,
           NEW q, Shape(q), req' = [req EXCEPT ![r] = q], q.pc # "idle",
           LocksTyped', q.pc \in {"checked", "updating", "rotating"} => userLock'[q.target] = r,
           (q.pc = "serialized" \/ (q.pc = "checked" /\ q.op \in Serialized)) => tenantLock' = r,
           tenantLock \in {r, Nobody} \/ UNCHANGED tenantLock,
           \A u \in User : userLock[u] \in {r, Nobody} \/ userLock'[u] = userLock[u]
    PROVE  Moves(r) /\ req'[r] = q
<1>1. req \in [Request -> ReqRow] /\ LocksTyped /\ q \in ReqRow
    BY DEF BaseInv, ReqsTyped, Shape
<1>2. req' \in [Request -> ReqRow] /\ req'[r] = q /\ \A x \in Request \ {r} : req'[x] = req[x]
    BY <1>1
<1>3. \A x \in Request \ {r} : Keeps(x)
    BY <1>1, UserAssumption DEF LocksTyped, Keeps
<1>4. Holds(r)'
    BY <1>2 DEF Holds
<1> QED BY <1>2, <1>3, <1>4 DEF Moves

LEMMA AuthorizedMoves ==
    ASSUME BaseInv, NEW r \in Request, NEW u \in User, NEW t \in User,
           NEW op \in Serialized \cup {"stores", "create"},
           NEW rs \in SUBSET Role, NEW ss \in SUBSET Store,
           Authorized(r, u, op, t, rs, ss)
    PROVE  /\ Moves(r) /\ req'[r].pc = "authorized" /\ req'[r].op = op /\ req'[r].target = t
           /\ op # "create" => user[t].status # "absent"
           /\ UNCHANGED <<rows, session>>
<1> DEFINE sc == Scopes(u)
<1>0. PICK q : q = [Idle EXCEPT !.pc = "authorized", !.op = op, !.actor = u, !.target = t,
                                !.scopes = sc, !.roles = rs, !.stores = ss]
    OBVIOUS
<1>1. Begins(r, q) /\ MayAsk(op, u, Scopes(u), t, rs, ss)
      /\ UNCHANGED <<rows, session, locks, phase, restarts>>
    BY <1>0 DEF Authorized
<1>2. sc \in SUBSET Scope
    <2>1. sc = ScopesOf(roles[u], stores[u], grants[u])
        BY AccessIs
    <2>2. roles[u] \in SUBSET Role /\ stores[u] \in SUBSET Store /\ grants[u] \in SUBSET Grant
        BY DEF BaseInv, RowsOK
    <2> HIDE DEF sc
    <2> QED BY <2>1, <2>2, RolesAndStores
<1>3. /\ op = "create" => ValidPair(rs, ss)
      /\ op # "create" => user[t].status # "absent"
    BY <1>1 DEF MayAsk
<1> HIDE DEF sc
<1>4. q = [pc |-> "authorized", op |-> op, actor |-> u, target |-> t, scopes |-> sc,
           roles |-> rs, stores |-> ss, version |-> 0, session |-> 0, refreshes |-> 0]
    BY <1>0 DEF Idle
<1>6. Shape(q) /\ q.pc = "authorized" /\ q.op = op /\ q.target = t
    <2>1. q \in ReqRow
        BY <1>2, <1>4, BoundAssumption DEF ReqRow, Serialized
    <2> QED BY <1>3, <1>4, <2>1 DEF Shape
<1>5. Moves(r) /\ req'[r] = q
    BY <1>1, <1>6, BeginsMoves
<1> QED BY <1>1, <1>3, <1>5, <1>6

LEMMA LoginReadsMoves ==
    ASSUME BaseInv, NEW r \in Request, NEW u \in User, LoginReads(r, u)
    PROVE  Moves(r) /\ req'[r].pc = "login" /\ UNCHANGED <<rows, session>>
<1> DEFINE q == [Idle EXCEPT !.pc = "login", !.op = "login", !.actor = u, !.target = u]
<1>1. Begins(r, q) /\ UNCHANGED <<rows, session, locks, phase, restarts>>
    BY DEF LoginReads
<1>2. Shape(q) /\ q.pc = "login"
    BY LoginShape
<1> HIDE DEF q
<1>3. Moves(r) /\ req'[r] = q
    BY <1>1, <1>2, BeginsMoves
<1> QED BY <1>1, <1>2, <1>3

LEMMA ReuseDetectedMoves ==
    ASSUME BaseInv, NEW r \in Request, NEW s \in Session, ReuseDetected(r, s)
    PROVE  Moves(r) /\ req'[r].pc = "reused" /\ UNCHANGED <<rows, session>>
<1> DEFINE n == session[s].refreshes
           q == [Idle EXCEPT !.pc = "reused", !.op = "rotate", !.session = s, !.refreshes = n]
<1>1. Begins(r, q) /\ UNCHANGED <<rows, session, locks, phase, restarts>>
    BY DEF ReuseDetected
<1>2. n \in 0..MaxRotations
    BY DEF BaseInv, SessionsTyped, SessionRow
<1> HIDE DEF n
<1>3. Shape(q) /\ q.pc = "reused"
    BY <1>2, ReuseShape
<1> HIDE DEF q
<1>4. Moves(r) /\ req'[r] = q
    BY <1>1, <1>3, BeginsMoves
<1> QED BY <1>1, <1>3, <1>4

\* A refresh locks the user of a session that is current, or revokes the session.
LEMMA RotateLocksMoves ==
    ASSUME BaseInv, NEW r \in Request, NEW s \in Session, RotateLocks(r, s)
    PROVE  /\ Moves(r) /\ UNCHANGED rows
           /\ \/ /\ req'[r].pc = "rotating" /\ req'[r].target = session[s].user
                 /\ req'[r].session = s /\ req'[r].version = session[s].version
                 /\ session[s].refreshes < MaxRotations /\ session[s].state = "live"
                 /\ ~BeingRotated(s) /\ UNCHANGED session
              \/ /\ session' = [session EXCEPT ![s].state = "revoked"]
                 /\ UNCHANGED req /\ req[r] = Idle /\ ~BeingRotated(s)
<1> DEFINE u == session[s].user
           v == user[u].version
           q == [Idle EXCEPT !.pc = "rotating", !.op = "rotate", !.actor = u, !.target = u,
                             !.version = v, !.session = s]
<1>1. /\ session[s].state = "live" /\ ~BeingRotated(s) /\ userLock[u] = Nobody
      /\ UNCHANGED <<rows, phase, restarts>>
    BY DEF RotateLocks
<1>2. u \in User /\ LocksTyped /\ req \in [Request -> ReqRow]
    BY <1>1 DEF BaseInv, SessionsTyped, ReqsTyped
<1>3. v \in 0..MaxVersion
    BY <1>2 DEF BaseInv, RowsOK, UserRow
<1>4. CASE MayRotate(s)
    <2>1. /\ session[s].refreshes < MaxRotations
          /\ Begins(r, q)
          /\ userLock' = [userLock EXCEPT ![u] = r]
          /\ UNCHANGED <<session, tenantLock>>
        BY <1>4 DEF RotateLocks
    <2>2. v = session[s].version
        BY <1>4 DEF MayRotate
    <2> HIDE DEF u, v
    <2>3. Shape(q) /\ q.pc = "rotating" /\ q.target = u /\ q.version = v /\ q.session = s
        BY <1>2, <1>3, RotateShape
    <2> HIDE DEF q
    <2>4. /\ LocksTyped' /\ userLock'[u] = r
          /\ \A w \in User : userLock[w] \in {r, Nobody} \/ userLock'[w] = userLock[w]
        BY <1>1, <1>2, <2>1 DEF LocksTyped
    <2>5. phase = "serving" /\ req' = [req EXCEPT ![r] = q]
        BY <2>1 DEF Begins
    <2>6. Moves(r) /\ req'[r] = q
        BY <1>1, <2>1, <2>3, <2>4, <2>5, TakesMoves
    <2> QED BY <1>1, <2>1, <2>2, <2>3, <2>6 DEF u
<1>5. CASE ~MayRotate(s)
    <2>1. /\ phase = "serving" /\ session' = [session EXCEPT ![s].state = "revoked"]
          /\ req[r] = Idle /\ UNCHANGED <<req, locks>>
        BY <1>5 DEF RotateLocks
    <2>2. Moves(r)
        BY <1>1, <1>2, <2>1 DEF Moves, BaseInv, ReqsTyped, LocksTyped, Keeps, Holds, locks
    <2> QED BY <1>1, <2>1, <2>2
<1> QED BY <1>4, <1>5

LEMMA LocksTenantMoves ==
    ASSUME BaseInv, NEW r \in Request, LocksTenant(r)
    PROVE  /\ Moves(r) /\ req[r].pc = "authorized" /\ req[r].op \in Serialized
           /\ req'[r].pc = "serialized" /\ req'[r].op = req[r].op
           /\ req'[r].target = req[r].target /\ UNCHANGED <<rows, session>>
<1>1. /\ req[r].pc = "authorized" /\ req[r].op \in Serialized
      /\ tenantLock = Nobody /\ tenantLock' = r
      /\ UNCHANGED <<rows, session, userLock, phase, restarts>>
    BY DEF LocksTenant, WantsTenant
<1>2. PICK q : q = [req[r] EXCEPT !.pc = "serialized"]
    OBVIOUS
<1>3. req \in [Request -> ReqRow] /\ Shape(req[r]) /\ LocksTyped /\ phase = "serving"
    BY <1>1, ServingSince DEF BaseInv, ReqsTyped
<1>4. req' = [req EXCEPT ![r] = q]
    BY <1>2 DEF LocksTenant
<1>5. Shape(q) /\ q.pc = "serialized" /\ q.op = req[r].op /\ q.target = req[r].target
    BY <1>1, <1>2, <1>3, MovedShape
<1>6. LocksTyped' /\ \A u \in User : userLock'[u] = userLock[u]
    BY <1>1, <1>3 DEF LocksTyped
<1>7. Moves(r) /\ req'[r] = q
    BY <1>1, <1>3, <1>4, <1>5, <1>6, TakesMoves
<1> QED BY <1>1, <1>5, <1>7

LEMMA LoginUpdatesMoves ==
    ASSUME BaseInv, NEW r \in Request, LoginUpdates(r)
    PROVE  Moves(r) /\ req'[r].pc = "updating" /\ UNCHANGED <<rows, session>>
<1>1. /\ req[r].pc = "login" /\ userLock[req[r].target] = Nobody
      /\ userLock' = [userLock EXCEPT ![req[r].target] = r]
      /\ UNCHANGED <<rows, session, tenantLock, phase, restarts>>
    BY DEF LoginUpdates
<1>2. PICK q : q = [req[r] EXCEPT !.pc = "updating"]
    OBVIOUS
<1>3. /\ req \in [Request -> ReqRow] /\ Shape(req[r]) /\ LocksTyped /\ phase = "serving"
      /\ req[r].target \in User
    BY <1>1, ServingSince DEF BaseInv, ReqsTyped, Shape
<1>4. req' = [req EXCEPT ![r] = q]
    BY <1>2 DEF LoginUpdates
<1>5. Shape(q) /\ q.pc = "updating" /\ q.target = req[r].target
    BY <1>1, <1>2, <1>3, MovedShape
<1>6. /\ LocksTyped' /\ userLock'[q.target] = r
      /\ \A u \in User : userLock[u] \in {r, Nobody} \/ userLock'[u] = userLock[u]
    BY <1>1, <1>3, <1>5 DEF LocksTyped
<1>7. Moves(r) /\ req'[r] = q
    BY <1>1, <1>3, <1>4, <1>5, <1>6, TakesMoves
<1> QED BY <1>1, <1>5, <1>7

LEMMA AccessInScope ==
    ASSUME BaseInv, NEW u \in User
    PROVE  /\ Access(u) \in SUBSET Scope /\ Roles(u) \in SUBSET Role
           /\ Stores(u) \in SUBSET Store /\ user[u] \in UserRow
           /\ roles[u] \in SUBSET Role /\ stores[u] \in SUBSET Store
           /\ grants[u] \in SUBSET Grant
           /\ Fits(user[u], roles[u], stores[u], grants[u])
<1>1. /\ user[u] \in UserRow /\ roles[u] \in SUBSET Role /\ stores[u] \in SUBSET Store
      /\ grants[u] \in SUBSET Grant /\ Fits(user[u], roles[u], stores[u], grants[u])
    BY DEF BaseInv, RowsOK
<1>2. /\ Access(u) = AccessOf(user[u], roles[u], stores[u], grants[u])
      /\ Roles(u) = RolesOf(roles[u], grants[u]) /\ Stores(u) = StoresOf(stores[u], grants[u])
    BY AccessIs
<1>3. AccessOf(user[u], roles[u], stores[u], grants[u]) \subseteq Scope
    BY <1>1, AccessType
<1>4. RolesOf(roles[u], grants[u]) \subseteq Role /\ StoresOf(stores[u], grants[u]) \subseteq Store
    BY <1>1, RolesAndStores
<1> QED BY <1>1, <1>2, <1>3, <1>4

LEMMA LoginCommitsMoves ==
    ASSUME BaseInv, NEW r \in Request, LoginCommits(r)
    PROVE  /\ Moves(r) /\ UNCHANGED <<rows, session>>
           /\ req[r].target \in User /\ req'[r].pc = "refreshed"
           /\ req'[r].target = req[r].target
           /\ req'[r].version = user[req[r].target].version
           /\ req'[r].scopes = Access(req[r].target)
<1>1. /\ req[r].pc = "updating" /\ userLock' = [userLock EXCEPT ![req[r].target] = Nobody]
      /\ UNCHANGED <<rows, session, tenantLock, phase, restarts>>
    BY DEF LoginCommits
<1> DEFINE u == req[r].target
           v == user[u].version
           sc == Access(u)
<1>2. PICK q : q = [req[r] EXCEPT !.pc = "refreshed", !.version = v, !.scopes = sc]
    OBVIOUS
<1>3. /\ req \in [Request -> ReqRow] /\ Shape(req[r]) /\ Holds(r) /\ LocksTyped
      /\ phase = "serving" /\ u \in User
    BY <1>1, ServingSince DEF BaseInv, ReqsTyped, Shape
<1>4. req' = [req EXCEPT ![r] = q]
    BY <1>2 DEF LoginCommits
<1>5. v \in 0..MaxVersion /\ sc \in SUBSET Scope
    BY <1>3, AccessInScope DEF UserRow
<1>6. userLock[u] = r
    BY <1>1, <1>3 DEF Holds
<1>7. /\ LocksTyped'
      /\ \A w \in User : userLock[w] \in {r, Nobody} \/ userLock'[w] = userLock[w]
    BY <1>1, <1>3, <1>6 DEF LocksTyped
<1> HIDE DEF v, sc
<1>8. /\ Shape(q) /\ q.pc = "refreshed" /\ q.target = u /\ q.version = v /\ q.scopes = sc
    <2>1. req[r] \in ReqRow /\ req[r].op = "login" /\ req[r].actor \in User
        BY <1>1, <1>3 DEF Shape
    <2>2. q = [pc |-> "refreshed", op |-> req[r].op, actor |-> req[r].actor, target |-> u,
               scopes |-> sc, roles |-> req[r].roles, stores |-> req[r].stores,
               version |-> v, session |-> req[r].session, refreshes |-> req[r].refreshes]
        BY <1>2, <2>1 DEF ReqRow
    <2>3. q \in ReqRow
        BY <1>3, <1>5, <2>1, <2>2 DEF ReqRow
    <2> QED BY <1>3, <2>1, <2>2, <2>3 DEF Shape
<1>9. Moves(r) /\ req'[r] = q
    BY <1>1, <1>3, <1>4, <1>7, <1>8, TakesMoves
<1> QED BY <1>1, <1>3, <1>8, <1>9 DEF v, sc

\* The checks are passed, with the lock of the target, or the request is refused.
LEMMA LocksTargetMoves ==
    ASSUME BaseInv, NEW r \in Request, LocksTarget(r)
    PROVE  /\ Moves(r) /\ UNCHANGED <<rows, session>>
           /\ \/ req'[r] = Idle
              \/ /\ req[r].pc \in {"authorized", "serialized"} /\ req[r].op # "create"
                 /\ req[r].target \in User
                 /\ Permitted(req[r]) /\ req'[r].pc = "checked" /\ req'[r].op = req[r].op
                 /\ req'[r].target = req[r].target
                 /\ req'[r].version = user[req[r].target].version
                 /\ req'[r].roles = RequestedRoles(req[r])
                 /\ req'[r].stores = RequestedStores(req[r])
<1> DEFINE u == req[r].target
           v == user[u].version
           rs == RequestedRoles(req[r])
           ss == RequestedStores(req[r])
<1>1. /\ WantsTarget(req[r]) /\ req[r].op # "login" /\ userLock[u] = Nobody
      /\ UNCHANGED <<rows, session, phase, restarts>>
    BY DEF LocksTarget, TargetIsFree
<1>2. /\ req \in [Request -> ReqRow] /\ Shape(req[r]) /\ Holds(r) /\ LocksTyped
    BY DEF BaseInv, ReqsTyped
<1>3. /\ req[r].pc \in {"authorized", "serialized"}
      /\ req[r].op \in Serialized \cup {"stores"}
      /\ req[r].pc = "serialized" \/ req[r].op \notin Serialized
      /\ req[r].op # "create" /\ u \in User /\ req[r].actor \in User
    BY <1>1, <1>2 DEF WantsTarget, Shape, Serialized
<1>4. phase = "serving"
    BY <1>3, ServingSince
<1>5. CASE Permitted(req[r])
    <2>1. /\ userLock' = [userLock EXCEPT ![u] = r] /\ UNCHANGED tenantLock
          /\ req' = [req EXCEPT ![r] = [req[r] EXCEPT !.pc = "checked", !.scopes = {},
                            !.version = v, !.roles = rs, !.stores = ss]]
        BY <1>5 DEF LocksTarget
    <2>2. PICK q : q = [req[r] EXCEPT !.pc = "checked", !.scopes = {}, !.version = v,
                                      !.roles = rs, !.stores = ss]
        OBVIOUS
    <2>3. v \in 0..MaxVersion /\ rs \in SUBSET Role /\ ss \in SUBSET Store
        <3>1. v \in 0..MaxVersion /\ Roles(u) \in SUBSET Role /\ Stores(u) \in SUBSET Store
            BY <1>3, AccessInScope DEF UserRow
        <3>2. req[r].roles \in SUBSET Role /\ req[r].stores \in SUBSET Store
            BY <1>2 DEF ReqRow
        <3> QED BY <3>1, <3>2 DEF RequestedRoles, RequestedStores
    <2>4. /\ LocksTyped' /\ userLock'[u] = r
          /\ \A w \in User : userLock[w] \in {r, Nobody} \/ userLock'[w] = userLock[w]
        BY <1>1, <1>2, <1>3, <2>1 DEF LocksTyped
    <2>5. req[r].op \in Serialized => tenantLock' = r
        BY <1>2, <1>3, <2>1 DEF Holds
    <2> HIDE DEF v, rs, ss
    <2>6. /\ Shape(q) /\ q.pc = "checked" /\ q.op = req[r].op /\ q.target = u
          /\ q.version = v /\ q.roles = rs /\ q.stores = ss
        <3>1. req[r] \in ReqRow
            BY <1>2
        <3>2. q = [pc |-> "checked", op |-> req[r].op, actor |-> req[r].actor,
                   target |-> u, scopes |-> {}, roles |-> rs, stores |-> ss, version |-> v,
                   session |-> req[r].session, refreshes |-> req[r].refreshes]
            BY <2>2, <3>1 DEF ReqRow
        <3>3. q \in ReqRow
            BY <1>3, <2>3, <3>1, <3>2 DEF ReqRow
        <3> QED BY <1>3, <3>2, <3>3 DEF Shape
    <2>7. req' = [req EXCEPT ![r] = q]
        BY <2>1, <2>2
    <2>8. /\ q.pc \in {"checked", "updating", "rotating"} => userLock'[q.target] = r
          /\ (q.pc = "serialized" \/ (q.pc = "checked" /\ q.op \in Serialized))
                => tenantLock' = r
        BY <2>4, <2>5, <2>6
    <2>9. Moves(r) /\ req'[r] = q
        BY <1>1, <1>4, <2>1, <2>4, <2>6, <2>7, <2>8, TakesMoves
    <2> QED BY <1>1, <1>3, <1>5, <2>6, <2>9 DEF v, rs, ss
<1>6. CASE ~Permitted(req[r])
    <2>1. Ends(r)
        BY <1>6 DEF LocksTarget
    <2> QED BY <1>1, <1>4, <2>1, EndsMoves
<1> QED BY <1>5, <1>6

\* The steps that end a request.
LEMMA EndingMoves ==
    ASSUME BaseInv, NEW r \in Request,
           \/ SuspendCommits(r) \/ AccessCommits(r) \/ CreateCommits(r)
           \/ LoginOpensSession(r) \/ RotateCommits(r) \/ ReuseRevokes(r) \/ LockWaitAborted(r)
    PROVE  Moves(r) /\ req'[r] = Idle /\ req[r].pc # "idle"
<1>1. Ends(r) /\ UNCHANGED <<phase, restarts>> /\ req[r].pc # "idle"
    BY DEF SuspendCommits, AccessCommits, CreateCommits, LoginOpensSession, RotateCommits,
           ReuseRevokes, LockWaitAborted, Blocked, WantsTenant, WantsTarget, WantsShare
<1>2. phase = "serving"
    BY <1>1, ServingSince
<1> QED BY <1>1, <1>2, EndsMoves

-----------------------------------------------------------------------------
(* What the writes do to the rows of the one user they are about.           *)

SameRow(u) ==
    /\ user'[u] = user[u] /\ roles'[u] = roles[u] /\ stores'[u] = stores[u]
    /\ grants'[u] = grants[u] /\ audit'[u] = audit[u]

\* What no write may do to a user: take back a version or a row, or change what the
\* user may do without a version and an audit record of its own.
AccessStep(u) ==
    /\ user'[u].version >= user[u].version
    /\ user[u].status # "absent" => user'[u].status # "absent"
    /\ AccessOf(user'[u], roles'[u], stores'[u], grants'[u])
            # AccessOf(user[u], roles[u], stores[u], grants[u])
        => /\ user'[u].version > user[u].version
           /\ audit'[u] = Append(audit[u], user'[u].version)

LEMMA SameRowStep ==
    ASSUME BaseInv, NEW u \in User, SameRow(u)
    PROVE  AccessStep(u)
<1>1. user[u].version \in Nat
    BY BoundAssumption DEF BaseInv, RowsOK, UserRow
<1> QED BY <1>1 DEF SameRow, AccessStep

Written(t, usr, rs, ss, gs, log) ==
    /\ user' = [user EXCEPT ![t] = usr] /\ roles' = [roles EXCEPT ![t] = rs]
    /\ stores' = [stores EXCEPT ![t] = ss] /\ grants' = [grants EXCEPT ![t] = gs]
    /\ audit' = [audit EXCEPT ![t] = log]

\* One user gets a row that fits.
LEMMA RowWritten ==
    ASSUME RowsOK, NEW t \in User, NEW usr, NEW rs, NEW ss, NEW gs, NEW log,
           Fits(usr, rs, ss, gs), log \in Seq(1..MaxVersion),
           Written(t, usr, rs, ss, gs, log)
    PROVE  /\ RowsOK' /\ \A u \in User \ {t} : SameRow(u)
           /\ user'[t] = usr /\ roles'[t] = rs /\ stores'[t] = ss /\ grants'[t] = gs
           /\ audit'[t] = log
<1>1. usr \in UserRow /\ rs \in SUBSET Role /\ ss \in SUBSET Store /\ gs \in SUBSET Grant
    BY DEF Fits
<1>2. /\ user \in [User -> UserRow] /\ roles \in [User -> SUBSET Role]
      /\ stores \in [User -> SUBSET Store] /\ grants \in [User -> SUBSET Grant]
      /\ audit \in [User -> Seq(1..MaxVersion)]
    BY DEF RowsOK
<1>3. /\ user'[t] = usr /\ roles'[t] = rs /\ stores'[t] = ss /\ grants'[t] = gs
      /\ audit'[t] = log
    BY <1>2 DEF Written
<1>4. \A u \in User \ {t} : SameRow(u)
    BY <1>2 DEF SameRow, Written
<1>5. /\ user' \in [User -> UserRow] /\ roles' \in [User -> SUBSET Role]
      /\ stores' \in [User -> SUBSET Store] /\ grants' \in [User -> SUBSET Grant]
      /\ audit' \in [User -> Seq(1..MaxVersion)]
    BY <1>1, <1>2 DEF Written
<1>6. \A u \in User : Fits(user[u], roles[u], stores[u], grants[u])'
    BY <1>3, <1>4 DEF RowsOK, SameRow
<1> QED BY <1>3, <1>4, <1>5, <1>6 DEF RowsOK

\* What stays is written as it was.
LEMMA Kept ==
    ASSUME RowsOK, NEW t \in User
    PROVE  /\ user = [user EXCEPT ![t] = user[t]] /\ roles = [roles EXCEPT ![t] = roles[t]]
           /\ stores = [stores EXCEPT ![t] = stores[t]]
           /\ grants = [grants EXCEPT ![t] = grants[t]]
           /\ audit = [audit EXCEPT ![t] = audit[t]]
BY DEF RowsOK

LEMMA AuditGrows ==
    ASSUME RowsOK, NEW t \in User, NEW v \in 1..MaxVersion
    PROVE  /\ Audited(t, v) = [audit EXCEPT ![t] = Append(audit[t], v)]
           /\ Append(audit[t], v) \in Seq(1..MaxVersion)
           /\ audit[t] \in Seq(1..MaxVersion)
<1>1. audit[t] \in Seq(1..MaxVersion)
    BY DEF RowsOK
<1>2. Append(audit[t], v) \in Seq(1..MaxVersion)
    BY <1>1, AppendProperties
<1> QED BY <1>1, <1>2 DEF Audited

RowChanges(t) ==
    RowsOK' /\ AccessStep(t) /\ \A u \in User \ {t} : SameRow(u)

LEMMA SuspendWrites ==
    ASSUME BaseInv, NEW r \in Request, SuspendCommits(r)
    PROVE  /\ req[r].target \in User /\ RowChanges(req[r].target)
           /\ UNCHANGED <<roles, grants, session>>
<1> DEFINE t == req[r].target
           v == user[t].version + 1
           usr == [status |-> "SUSPENDED", version |-> v]
<1>1. /\ req[r].pc = "checked" /\ req[r].op = "suspend"
      /\ user' = [user EXCEPT ![t] = [status |-> "SUSPENDED", version |-> req[r].version + 1]]
      /\ audit' = Audited(t, req[r].version + 1)
      /\ UNCHANGED <<roles, stores, grants, session>>
    BY DEF SuspendCommits
<1>2. t \in User /\ RowsOK /\ user[t].status # "absent" /\ req[r].version = user[t].version
      /\ user[t].version < MaxVersion
    BY <1>1 DEF BaseInv, ReqsTyped, Shape, CheckedStands
<1>3. user[t] \in UserRow /\ Fits(user[t], roles[t], stores[t], grants[t])
    BY <1>2, AccessInScope
<1>4. v \in 1..MaxVersion /\ v > user[t].version /\ v >= user[t].version
    BY <1>2, <1>3, BoundAssumption DEF UserRow
<1>5. user' = [user EXCEPT ![t] = usr] /\ audit' = Audited(t, v)
    BY <1>1, <1>2
<1> HIDE DEF v
<1>6. Fits(usr, roles[t], stores[t], grants[t])
    BY <1>3, <1>4 DEF Fits, UserRow
<1>7. usr.version = v /\ usr.status # "absent"
    OBVIOUS
<1> HIDE DEF t, usr
<1>8. audit' = [audit EXCEPT ![t] = Append(audit[t], v)]
      /\ Append(audit[t], v) \in Seq(1..MaxVersion)
    BY <1>2, <1>4, <1>5, AuditGrows
<1>9. /\ RowsOK' /\ \A u \in User \ {t} : SameRow(u)
      /\ user'[t] = usr /\ audit'[t] = Append(audit[t], v)
    <2>1. PICK rs, ss, gs, log : /\ rs = roles[t] /\ ss = stores[t] /\ gs = grants[t]
                                 /\ log = Append(audit[t], v)
        OBVIOUS
    <2>2. Written(t, usr, rs, ss, gs, log)
        BY <1>1, <1>2, <1>5, <1>8, <2>1, Kept DEF Written
    <2>3. Fits(usr, rs, ss, gs) /\ log \in Seq(1..MaxVersion)
        BY <1>6, <1>8, <2>1
    <2> QED BY <1>2, <2>1, <2>2, <2>3, RowWritten
<1>10. AccessStep(t)
    BY <1>4, <1>7, <1>9 DEF AccessStep
<1> QED BY <1>1, <1>2, <1>9, <1>10 DEF RowChanges, t

LEMMA AccessWrites ==
    ASSUME BaseInv, NEW r \in Request, AccessCommits(r)
    PROVE  /\ req[r].target \in User /\ RowChanges(req[r].target) /\ UNCHANGED session
           /\ user'[req[r].target].status = user[req[r].target].status
           /\ roles'[req[r].target] = req[r].roles
           /\ grants'[req[r].target] = CompatibilityGrants(req[r].roles, req[r].stores)
<1> DEFINE t == req[r].target
           q == req[r]
           rs == req[r].roles
           ss == req[r].stores
           gs == CompatibilityGrants(rs, ss)
           v == NewVersion(req[r])
<1>1. /\ q.pc = "checked" /\ q.op # "suspend"
      /\ roles' = [roles EXCEPT ![t] = rs] /\ stores' = [stores EXCEPT ![t] = ss]
      /\ grants' = [grants EXCEPT ![t] = gs]
      /\ user' = [user EXCEPT ![t].version = v]
      /\ audit' = IF AccessChanged(q) THEN Audited(t, v) ELSE audit
      /\ UNCHANGED session
    BY DEF AccessCommits, Persisted
<1>2. /\ t \in User /\ RowsOK /\ user[t].status # "absent" /\ q.version = user[t].version
      /\ user[t].version < MaxVersion /\ ValidPair(rs, ss) /\ rs # {}
    BY <1>1 DEF BaseInv, ReqsTyped, Shape, CheckedStands
<1>3. /\ user[t] \in UserRow /\ Fits(user[t], roles[t], stores[t], grants[t])
      /\ rs \in SUBSET Role /\ ss \in SUBSET Store
    BY <1>1, <1>2, AccessInScope DEF BaseInv, ReqsTyped, ReqRow
<1>4. v = IF AccessChanged(q) THEN user[t].version + 1 ELSE user[t].version
    BY <1>2 DEF NewVersion
<1>5. /\ v \in 0..MaxVersion /\ v >= user[t].version
      /\ AccessChanged(q) => v > user[t].version /\ v \in 1..MaxVersion
    BY <1>2, <1>3, <1>4, BoundAssumption DEF UserRow
<1> HIDE DEF v
<1>6. PICK usr : usr = [status |-> user[t].status, version |-> v]
    OBVIOUS
<1>7. user' = [user EXCEPT ![t] = usr]
    <2>1. usr = [user[t] EXCEPT !.version = v]
        BY <1>3, <1>6 DEF UserRow
    <2>2. user' = [user EXCEPT ![t] = [user[t] EXCEPT !.version = v]]
        <3> HIDE DEF t
        <3> QED BY <1>1, <1>2 DEF RowsOK
    <2> QED BY <2>1, <2>2
<1>8. gs \subseteq Grant /\ (AdminGrant \in gs <=> "TENANT_ADMIN" \in rs)
    BY <1>3, GrantsWritten
<1> HIDE DEF gs
<1>9. usr \in UserRow
    BY <1>3, <1>5, <1>6 DEF UserRow
<1>10. Fits(usr, rs, ss, gs)
    <2>1. usr.status # "absent" /\ usr.version > 0
        BY <1>2, <1>3, <1>5, <1>6, BoundAssumption DEF Fits, UserRow
    <2>2. rs \cap StoreScoped # {} => ss # {}
        BY <1>2 DEF ValidPair
    <2> HIDE DEF rs, ss
    <2> QED BY <1>3, <1>8, <1>9, <2>1, <2>2 DEF Fits
<1>11. AccessChanged(q) => /\ Audited(t, v) = [audit EXCEPT ![t] = Append(audit[t], v)]
                           /\ Append(audit[t], v) \in Seq(1..MaxVersion)
    BY <1>2, <1>5, AuditGrows
<1>12. PICK log : /\ audit' = [audit EXCEPT ![t] = log] /\ log \in Seq(1..MaxVersion)
                  /\ AccessChanged(q) => log = Append(audit[t], v)
    <2>1. audit = [audit EXCEPT ![t] = audit[t]] /\ audit[t] \in Seq(1..MaxVersion)
        BY <1>2 DEF RowsOK
    <2> QED BY <1>1, <1>11, <2>1
<1>13. /\ RowsOK' /\ \A u \in User \ {t} : SameRow(u)
       /\ user'[t] = usr /\ roles'[t] = rs /\ stores'[t] = ss /\ grants'[t] = gs
       /\ audit'[t] = log
    <2> HIDE DEF t, rs, ss, q
    <2>1. Written(t, usr, rs, ss, gs, log)
        BY <1>1, <1>7, <1>12 DEF Written
    <2> QED BY <1>2, <1>10, <1>12, <2>1, RowWritten
<1>14. ~AccessChanged(q)
        => AccessOf(usr, rs, ss, gs) = AccessOf(user[t], roles[t], stores[t], grants[t])
    <2> SUFFICES ASSUME ~AccessChanged(q)
                 PROVE  AccessOf(usr, rs, ss, gs)
                            = AccessOf(user[t], roles[t], stores[t], grants[t])
        OBVIOUS
    <2>1. /\ rs = RolesOf(roles[t], grants[t]) /\ ss = StoresOf(stores[t], grants[t])
          /\ gs = grants[t]
        BY <1>2, AccessIs DEF AccessChanged, gs
    <2>2. gs = CompatibilityGrants(rs, ss)
        BY DEF gs
    <2>3. AccessOf(user[t], rs, ss, grants[t])
                = AccessOf(user[t], roles[t], stores[t], grants[t])
        <3> HIDE DEF t
        <3> QED BY <1>3, <2>1, <2>2, SameAccess
    <2>4. AccessOf(usr, rs, ss, gs) = AccessOf(user[t], rs, ss, gs)
        BY <1>6 DEF AccessOf
    <2> QED BY <2>1, <2>3, <2>4
<1>15. AccessStep(t)
    <2>1. user'[t].version = v /\ user'[t].status = user[t].status
        BY <1>6, <1>13
    <2> HIDE DEF t, rs, ss, q
    <2> QED BY <1>5, <1>12, <1>13, <1>14, <2>1 DEF AccessStep
<1> QED BY <1>1, <1>2, <1>6, <1>13, <1>15 DEF RowChanges, gs

LEMMA CreateWrites ==
    ASSUME BaseInv, NEW r \in Request, CreateCommits(r)
    PROVE  /\ UNCHANGED session
           /\ \/ UNCHANGED rows
              \/ /\ req[r].target \in User /\ RowChanges(req[r].target)
                 /\ user[req[r].target].status = "absent"
<1> DEFINE t == req[r].target
           rs == req[r].roles
           ss == req[r].stores
           gs == CompatibilityGrants(rs, ss)
           usr == [status |-> "ACTIVE", version |-> 1]
<1>1. CASE user[t].status # "absent"
    BY <1>1 DEF CreateCommits
<1>2. CASE user[t].status = "absent"
    <2>1. /\ req[r].pc = "authorized" /\ req[r].op = "create"
          /\ user' = [user EXCEPT ![t] = usr] /\ audit' = Audited(t, 1)
          /\ roles' = [roles EXCEPT ![t] = rs] /\ stores' = [stores EXCEPT ![t] = ss]
          /\ grants' = [grants EXCEPT ![t] = gs]
          /\ UNCHANGED session
        BY <1>2 DEF CreateCommits, Persisted, NewUser
    <2>2. /\ t \in User /\ RowsOK /\ ValidPair(rs, ss)
          /\ rs \in SUBSET Role /\ ss \in SUBSET Store
        BY <2>1 DEF BaseInv, ReqsTyped, Shape, ReqRow
    <2>3. user[t].version = 0
        BY <1>2, <2>2, AccessInScope DEF Fits
    <2>4. gs \subseteq Grant /\ (AdminGrant \in gs <=> "TENANT_ADMIN" \in rs)
        BY <2>2, GrantsWritten
    <2> HIDE DEF gs
    <2>5. usr \in UserRow /\ usr.status # "absent" /\ usr.version = 1 /\ 1 \in 1..MaxVersion
        BY BoundAssumption DEF UserRow
    <2>6. Fits(usr, rs, ss, gs)
        BY <2>2, <2>4, <2>5 DEF Fits, ValidPair
    <2> HIDE DEF t, rs, ss, usr
    <2>7. audit' = [audit EXCEPT ![t] = Append(audit[t], 1)]
          /\ Append(audit[t], 1) \in Seq(1..MaxVersion)
        BY <2>1, <2>2, <2>5, AuditGrows
    <2>8. /\ RowsOK' /\ \A u \in User \ {t} : SameRow(u)
          /\ user'[t] = usr /\ audit'[t] = Append(audit[t], 1)
        <3>1. Written(t, usr, rs, ss, gs, Append(audit[t], 1))
            BY <2>1, <2>7 DEF Written
        <3> QED BY <2>2, <2>6, <2>7, <3>1, RowWritten
    <2>9. AccessStep(t)
        BY <1>2, <2>3, <2>5, <2>8 DEF AccessStep
    <2> QED BY <1>2, <2>1, <2>2, <2>8, <2>9 DEF RowChanges, t
<1> QED BY <1>1, <1>2

LEMMA SeedAdminFindsWrites ==
    ASSUME BaseInv, SeedAdminFinds
    PROVE  RowChanges(Admin)
<1> DEFINE t == Admin
           rs == roles[Admin] \cup {"TENANT_ADMIN"}
<1>1. /\ AdminGrant \in grants[t] /\ roles' = [roles EXCEPT ![t] = rs]
      /\ UNCHANGED <<user, stores, grants, audit>> /\ t \in User /\ RowsOK
    BY UserAssumption DEF SeedAdminFinds, BaseInv
<1>2. /\ user[t] \in UserRow /\ Fits(user[t], roles[t], stores[t], grants[t])
      /\ roles[t] \in SUBSET Role /\ stores[t] \in SUBSET Store /\ grants[t] \in SUBSET Grant
    BY <1>1, AccessInScope
<1>3. /\ rs \in SUBSET Role /\ rs # {} /\ "TENANT_ADMIN" \in rs
      /\ rs \cap StoreScoped = roles[t] \cap StoreScoped
      /\ roles[t] # {} => rs = roles[t]
    BY <1>1, <1>2 DEF Role, TenantWide, StoreScoped, Fits
<1>4. PICK usr, ss, gs, log :
            usr = user[t] /\ ss = stores[t] /\ gs = grants[t] /\ log = audit[t]
    OBVIOUS
<1>5. log \in Seq(1..MaxVersion)
    BY <1>1, <1>4 DEF RowsOK
<1> HIDE DEF t, rs
<1>6. Fits(usr, rs, ss, gs)
    <2>1. rs \cap StoreScoped # {} => ss # {}
        BY <1>2, <1>3, <1>4 DEF Fits
    <2>2. /\ usr \in UserRow /\ ss \subseteq Store /\ gs \subseteq Grant
          /\ usr.status # "absent" /\ usr.version > 0 /\ AdminGrant \in gs
        BY <1>1, <1>2, <1>4 DEF Fits
    <2> QED BY <1>3, <2>1, <2>2 DEF Fits
<1>7. Written(t, usr, rs, ss, gs, log)
    BY <1>1, <1>4, Kept DEF Written
<1>8. /\ RowsOK' /\ \A u \in User \ {t} : SameRow(u)
      /\ user'[t] = usr /\ roles'[t] = rs /\ stores'[t] = ss /\ grants'[t] = gs
    BY <1>1, <1>5, <1>6, <1>7, RowWritten
<1>9. AccessOf(usr, rs, ss, gs) = AccessOf(usr, roles[t], ss, gs)
    <2>1. CASE roles[t] # {}
        BY <1>3, <2>1
    <2>2. CASE roles[t] = {}
        <3>1. TenantAdmin(ScopesOf(roles[t], ss, gs))
            BY <1>1, <1>2, <1>4, <2>2, RolesAndStores
        <3>2. TenantAdmin(ScopesOf(rs, ss, gs))
            <4>1. RolesOf(rs, gs) = rs
                BY <1>3 DEF RolesOf
            <4> QED BY <1>2, <1>3, <1>4, <4>1, RolesAndStores
        <3> QED BY <3>1, <3>2 DEF AccessOf
    <2> QED BY <2>1, <2>2
<1>10. user[t].version \in Nat
    BY <1>2, BoundAssumption DEF UserRow
<1>11. AccessStep(t)
    BY <1>4, <1>8, <1>9, <1>10 DEF AccessStep
<1> QED BY <1>8, <1>11 DEF RowChanges, t

\* A user that was absent, with one role.
LEMMA NewUserWrites ==
    ASSUME BaseInv, NEW t \in User, user[t].status = "absent", NewUser(t),
           NEW role \in TenantWide, roles' = [roles EXCEPT ![t] = {role}], UNCHANGED stores,
           NEW gs, grants' = [grants EXCEPT ![t] = gs], gs \subseteq Grant,
           AdminGrant \in gs <=> role = "TENANT_ADMIN"
    PROVE  RowChanges(t)
<1>1. /\ user[t] \in UserRow /\ Fits(user[t], roles[t], stores[t], grants[t])
      /\ RowsOK
    BY AccessInScope DEF BaseInv
<1>2. user[t].version = 0 /\ stores[t] = {}
    BY <1>1 DEF Fits
<1>3. PICK usr, rs, ss, log : /\ usr = [status |-> "ACTIVE", version |-> 1] /\ rs = {role}
                              /\ ss = {} /\ log = Append(audit[t], 1)
    OBVIOUS
<1>4. /\ usr \in UserRow /\ usr.status # "absent" /\ usr.version = 1
      /\ 1 \in 1..MaxVersion
    BY <1>3, BoundAssumption DEF UserRow
<1>5. Fits(usr, rs, ss, gs)
    BY <1>3, <1>4 DEF Fits, Role, TenantWide, StoreScoped
<1>6. audit' = [audit EXCEPT ![t] = log] /\ log \in Seq(1..MaxVersion)
    BY <1>1, <1>3, <1>4, AuditGrows DEF NewUser
<1>7. Written(t, usr, rs, ss, gs, log)
    BY <1>1, <1>2, <1>3, <1>6, Kept DEF Written, NewUser
<1>8. /\ RowsOK' /\ \A u \in User \ {t} : SameRow(u)
      /\ user'[t] = usr /\ audit'[t] = log
    BY <1>1, <1>5, <1>6, <1>7, RowWritten
<1>9. AccessStep(t)
    BY <1>2, <1>3, <1>4, <1>8 DEF AccessStep
<1> QED BY <1>8, <1>9 DEF RowChanges

LEMMA SeedAdminCreatesWrites ==
    ASSUME BaseInv, SeedAdminCreates
    PROVE  RowChanges(Admin)
<1>1. {AdminGrant} \subseteq Grant /\ "TENANT_ADMIN" \in TenantWide /\ Admin \in User
    BY UserAssumption DEF Grant, TenantWide
<1>2. PICK gs, role : gs = {AdminGrant} /\ role = "TENANT_ADMIN"
    OBVIOUS
<1>3. /\ user[Admin].status = "absent" /\ NewUser(Admin) /\ UNCHANGED stores
      /\ roles' = [roles EXCEPT ![Admin] = {role}] /\ grants' = [grants EXCEPT ![Admin] = gs]
    BY <1>2 DEF SeedAdminCreates
<1> QED BY <1>1, <1>2, <1>3, NewUserWrites

LEMMA SeedReviewerCreatesWrites ==
    ASSUME BaseInv, SeedReviewerCreates
    PROVE  RowChanges(Reviewer)
<1>1. "CORPORATE_USER" \in TenantWide /\ Reviewer \in User
    BY UserAssumption DEF TenantWide
<1>2. PICK gs, role : gs = {} /\ role = "CORPORATE_USER"
    OBVIOUS
<1>3. user[Reviewer].status = "absent" /\ NewUser(Reviewer) /\ UNCHANGED <<stores, grants>>
      /\ roles' = [roles EXCEPT ![Reviewer] = {role}]
    BY <1>2 DEF SeedReviewerCreates
<1>4. grants[Reviewer] = {}
    BY <1>1, <1>3, AccessInScope DEF Fits
<1>5. grants' = [grants EXCEPT ![Reviewer] = gs]
    BY <1>1, <1>2, <1>3, <1>4 DEF BaseInv, RowsOK
<1> QED BY <1>1, <1>2, <1>3, <1>5, NewUserWrites

LEMMA ReconcilesWrites ==
    ASSUME BaseInv, NEW password \in BOOLEAN, NEW name \in BOOLEAN,
           SeedReviewerReconciles(password, name)
    PROVE  RowChanges(Reviewer)
<1> DEFINE t == Reviewer
           new == IF MustInvalidate(password) THEN user[t].version + 1 ELSE user[t].version
           logs == name \/ new # user[t].version
<1>1. /\ user[t].status # "absent" /\ new <= MaxVersion
      /\ user' = [user EXCEPT ![t] = [status |-> "ACTIVE", version |-> new]]
      /\ audit' = IF logs THEN Audited(t, new) ELSE audit
      /\ roles' = [roles EXCEPT ![t] = {"CORPORATE_USER"}]
      /\ stores' = [stores EXCEPT ![t] = {}] /\ grants' = [grants EXCEPT ![t] = {}]
    BY DEF SeedReviewerReconciles
<1>2. t \in User /\ RowsOK
    BY UserAssumption DEF BaseInv
<1>3. user[t] \in UserRow /\ Fits(user[t], roles[t], stores[t], grants[t])
    BY <1>2, AccessInScope
<1>4. PICK usr, rs, ss, gs : /\ usr = [status |-> "ACTIVE", version |-> new]
                             /\ rs = {"CORPORATE_USER"} /\ ss = {} /\ gs = {}
    OBVIOUS
<1>5. ~MustInvalidate(password)
        => /\ user[t] = usr /\ roles[t] = rs /\ stores[t] = ss /\ grants[t] = gs
           /\ new = user[t].version
    BY <1>3, <1>4 DEF MustInvalidate, UserRow
<1>6. /\ new \in 0..MaxVersion /\ new >= user[t].version
      /\ MustInvalidate(password) => new > user[t].version
      /\ new # user[t].version => new > user[t].version
    BY <1>1, <1>3, BoundAssumption DEF UserRow
<1>7. MustInvalidate(password) => logs
    BY <1>3, <1>6, BoundAssumption DEF UserRow
<1>8. new \in 1..MaxVersion
    BY <1>1, <1>3, <1>6, BoundAssumption DEF UserRow, Fits
<1> HIDE DEF new, logs
<1>9. Audited(t, new) = [audit EXCEPT ![t] = Append(audit[t], new)]
      /\ Append(audit[t], new) \in Seq(1..MaxVersion)
    BY <1>2, <1>8, AuditGrows
<1>10. PICK log : /\ audit' = [audit EXCEPT ![t] = log] /\ log \in Seq(1..MaxVersion)
                  /\ logs => log = Append(audit[t], new)
    <2>1. audit = [audit EXCEPT ![t] = audit[t]] /\ audit[t] \in Seq(1..MaxVersion)
        BY <1>2 DEF RowsOK
    <2> QED BY <1>1, <1>9, <2>1
<1>11. Fits(usr, rs, ss, gs) /\ usr.version = new /\ usr.status # "absent"
    <2>1. usr \in UserRow /\ usr.version = new /\ usr.status = "ACTIVE"
        BY <1>4, <1>6 DEF UserRow
    <2> QED BY <1>4, <1>8, <2>1 DEF Fits, Role, TenantWide, StoreScoped, AdminGrant
<1> HIDE DEF t
<1>12. Written(t, usr, rs, ss, gs, log)
    BY <1>1, <1>4, <1>10 DEF Written
<1>13. /\ RowsOK' /\ \A u \in User \ {t} : SameRow(u)
       /\ user'[t] = usr /\ roles'[t] = rs /\ stores'[t] = ss /\ grants'[t] = gs
       /\ audit'[t] = log
    BY <1>2, <1>10, <1>11, <1>12, RowWritten
<1>14. AccessStep(t)
    BY <1>5, <1>6, <1>7, <1>10, <1>11, <1>13 DEF AccessStep
<1> QED BY <1>13, <1>14 DEF RowChanges, t

-----------------------------------------------------------------------------
(* Every step keeps the invariant of rows, locks and requests.              *)

\* The rows a step of request r writes are of a user it has locked or creates.
ActorWrites(r) ==
    \/ UNCHANGED rows
    \/ \E t \in User : RowChanges(t) /\ (userLock[t] = r \/ user[t].status = "absent")

LEMMA AllRowsStep ==
    ASSUME BaseInv, UNCHANGED rows \/ \E t \in User : RowChanges(t)
    PROVE  RowsOK' /\ \A u \in User : AccessStep(u)
<1>1. CASE UNCHANGED rows
    <2>1. \A u \in User : SameRow(u)
        BY <1>1 DEF rows, SameRow
    <2>2. RowsOK'
        BY <1>1 DEF rows, RowsOK, BaseInv
    <2> QED BY <2>1, <2>2, SameRowStep
<1>2. CASE \E t \in User : RowChanges(t)
    BY <1>2, SameRowStep DEF RowChanges
<1> QED BY <1>1, <1>2

LEMMA MovesKeep ==
    ASSUME BaseInv, NEW r \in Request, Moves(r)
    PROVE  LocksTyped' /\ ReqsTyped' /\ RestOK'
<1>1. \A x \in Request \ {r} : Holds(x)'
    <2> SUFFICES ASSUME NEW x \in Request \ {r}
                 PROVE  Holds(x)'
        OBVIOUS
    <2>1. Holds(x) /\ Shape(req[x]) /\ req'[x] = req[x] /\ Keeps(x)
        BY DEF BaseInv, ReqsTyped, Moves
    <2> QED BY <2>1 DEF Holds, Keeps, Shape
<1>2. \A x \in Request : Shape(req'[x]) /\ Holds(x)'
    BY <1>1 DEF Moves, BaseInv, ReqsTyped
<1>3. RestOK'
    BY DEF Moves, BaseInv, RestOK
<1> QED BY <1>2, <1>3 DEF Moves, ReqsTyped

\* Another request whose target is checked and locked does not see its rows written.
LEMMA OthersTarget ==
    ASSUME BaseInv, NEW r \in Request, ActorWrites(r), NEW x \in Request \ {r},
           req[x].pc = "checked"
    PROVE  req[x].target \in User /\ SameRow(req[x].target)
<1>1. /\ req[x].target \in User /\ userLock[req[x].target] = x
      /\ user[req[x].target].status # "absent"
    BY DEF BaseInv, ReqsTyped, Shape, Holds, CheckedStands
<1> QED BY <1>1 DEF ActorWrites, RowChanges, rows, SameRow

LEMMA OthersStand ==
    ASSUME BaseInv, NEW r \in Request, Moves(r), ActorWrites(r), NEW x \in Request \ {r}
    PROVE  AuthorizedStands(x)' /\ CheckedStands(x)'
<1>1. /\ req'[x] = req[x] /\ Shape(req[x]) /\ Holds(x)
      /\ AuthorizedStands(x) /\ CheckedStands(x)
    BY DEF Moves, BaseInv, ReqsTyped
<1>2. \A u \in User : AccessStep(u)
    BY AllRowsStep DEF ActorWrites
<1>3. AuthorizedStands(x)'
    BY <1>1, <1>2 DEF AuthorizedStands, AccessStep, Shape
<1>4. req[x].pc = "checked" => SameRow(req[x].target)
    BY OthersTarget
<1>5. CheckedStands(x)'
    <2> DEFINE u == req[x].target
    <2>1. req[x].pc = "checked" => /\ user'[u] = user[u] /\ roles'[u] = roles[u]
                                   /\ grants'[u] = grants[u]
        BY <1>4 DEF SameRow
    <2> QED BY <1>1, <2>1 DEF CheckedStands
<1> QED BY <1>3, <1>5

\* Neither place that is checked against the rows.
LEMMA PlainStands ==
    ASSUME NEW r, req'[r].pc \notin {"authorized", "serialized", "checked"}
    PROVE  AuthorizedStands(r)' /\ CheckedStands(r)'
BY DEF AuthorizedStands, CheckedStands

LEMMA PassedCheckStands ==
    ASSUME BaseInv, NEW r \in Request, LocksTarget(r)
    PROVE  AuthorizedStands(r)' /\ CheckedStands(r)'
<1>1. CASE req'[r] = Idle
    BY <1>1, PlainStands DEF Idle
<1>2. CASE req'[r] # Idle
    <2> DEFINE u == req[r].target
    <2>1. /\ UNCHANGED rows /\ req[r].pc \in {"authorized", "serialized"}
          /\ req[r].op # "create" /\ u \in User /\ Permitted(req[r])
          /\ req'[r].pc = "checked" /\ req'[r].op = req[r].op /\ req'[r].target = u
          /\ req'[r].version = user[u].version
          /\ req'[r].roles = RequestedRoles(req[r])
          /\ req'[r].stores = RequestedStores(req[r])
        BY <1>2, LocksTargetMoves
    <2>2. user[u].status # "absent"
        BY <2>1 DEF BaseInv, AuthorizedStands
    <2>3. /\ user[u].version < MaxVersion
          /\ req[r].op # "suspend" => /\ RequestedRoles(req[r]) # {}
                                      /\ ValidPair(RequestedRoles(req[r]), RequestedStores(req[r]))
        BY <2>1 DEF Permitted, MayReplace
    <2>4. req[r].op = "stores" => RequestedRoles(req[r]) = RolesOf(roles[u], grants[u])
        BY <2>1, AccessIs DEF RequestedRoles
    <2>5. CheckedStands(r)'
        BY <2>1, <2>2, <2>3, <2>4 DEF CheckedStands, rows
    <2> QED BY <2>1, <2>5 DEF AuthorizedStands
<1> QED BY <1>1, <1>2

\* What a step does to the sessions: none is changed, one nobody refreshes is revoked, a
\* login opens one, or a refresh replaces the one it has locked.
Revoked(s) ==
    session' = [session EXCEPT ![s].state = "revoked"] /\ ~BeingRotated(s)

OpenedRow(q) == [state |-> "live", refreshes |-> 0, user |-> q.target,
                 version |-> q.version, access |-> q.scopes]

Opened(r, s) ==
    /\ req[r].pc = "refreshed" /\ session[s] = NoSession
    /\ session' = [session EXCEPT ![s] = OpenedRow(req[r])]

Rotated(r) ==
    /\ req[r].pc = "rotating"
    /\ session' = [session EXCEPT ![req[r].session].refreshes = @ + 1,
                                  ![req[r].session].version = req[r].version]

SessionKind(r) ==
    \/ UNCHANGED session
    \/ \E s \in Session : Revoked(s) \/ Opened(r, s)
    \/ Rotated(r)

LEMMA RevokedTyped ==
    ASSUME BaseInv, NEW s \in Session, Revoked(s)
    PROVE  SessionsTyped'
BY DEF BaseInv, Revoked, SessionsTyped, SessionRow

\* A login opens a session of a user; nothing else makes one live.
LEMMA OpenedTyped ==
    ASSUME BaseInv, NEW r \in Request, NEW s \in Session, Opened(r, s)
    PROVE  SessionsTyped'
<1>1. req[r] \in ReqRow /\ req[r].target \in User
    BY DEF Opened, BaseInv, ReqsTyped, Shape
<1>2. PICK row : row = OpenedRow(req[r])
    OBVIOUS
<1>3. row \in SessionRow /\ row.user \in User
    BY <1>1, <1>2, BoundAssumption DEF SessionRow, ReqRow, OpenedRow
<1>4. session' = [session EXCEPT ![s] = row]
    BY <1>2 DEF Opened
<1> QED BY <1>3, <1>4 DEF SessionsTyped, BaseInv

\* The row a refresh leaves.
LEMMA RotatedRow ==
    ASSUME BaseInv, NEW r \in Request, Rotated(r)
    PROVE  /\ req[r].session \in Session /\ session[req[r].session].state = "live"
           /\ session[req[r].session] \in SessionRow
           /\ session' = [session EXCEPT ![req[r].session] =
                    [session[req[r].session] EXCEPT !.refreshes = @ + 1]]
<1> DEFINE s == req[r].session
<1>1. s \in Session /\ session[s].state = "live" /\ session[s].version = req[r].version
      /\ session \in [Session -> SessionRow]
    BY DEF Rotated, BaseInv, ReqsTyped, Shape, RotationStands, SessionsTyped
<1>2. PICK n, v : n = session[s].refreshes + 1 /\ v = req[r].version
    OBVIOUS
<1>3. session' = [session EXCEPT ![s] = [[session[s] EXCEPT !.refreshes = n]
                                         EXCEPT !.version = v]]
    <2> HIDE DEF s
    <2>1. session' = [session EXCEPT ![s].refreshes = n, ![s].version = v]
        BY <1>2 DEF Rotated, s
    <2> QED BY <1>1, <2>1
<1>4. [[session[s] EXCEPT !.refreshes = n] EXCEPT !.version = v]
            = [session[s] EXCEPT !.refreshes = n]
    <2> HIDE DEF s
    <2>1. session[s] \in SessionRow /\ session[s].version = v
        BY <1>1, <1>2 DEF s
    <2> QED BY <2>1 DEF SessionRow
<1> QED BY <1>1, <1>2, <1>3, <1>4

LEMMA RotatedTyped ==
    ASSUME BaseInv, NEW r \in Request, Rotated(r)
    PROVE  SessionsTyped'
<1>1. PICK s : s = req[r].session
    OBVIOUS
<1>2. /\ s \in Session /\ session[s].state = "live" /\ session[s] \in SessionRow
      /\ session' = [session EXCEPT ![s] = [session[s] EXCEPT !.refreshes = @ + 1]]
      /\ session[s].refreshes < MaxRotations
    BY <1>1, RotatedRow DEF BaseInv, RotationStands, Rotated
<1>3. session[s].refreshes + 1 \in 0..MaxRotations
    BY <1>2, BoundAssumption DEF SessionRow
<1>4. [session[s] EXCEPT !.refreshes = @ + 1] \in SessionRow
    BY <1>2, <1>3 DEF SessionRow
<1>5. PICK row : row = [session[s] EXCEPT !.refreshes = @ + 1]
    OBVIOUS
<1>6. row \in SessionRow /\ row.user = session[s].user /\ session' = [session EXCEPT ![s] = row]
    BY <1>2, <1>4, <1>5 DEF SessionRow
<1> QED BY <1>2, <1>6 DEF SessionsTyped, BaseInv

LEMMA SessionKindTyped ==
    ASSUME BaseInv, NEW r \in Request, SessionKind(r)
    PROVE  SessionsTyped'
<1>1. CASE UNCHANGED session
    BY <1>1 DEF SessionsTyped, BaseInv
<1> QED BY <1>1, RevokedTyped, OpenedTyped, RotatedTyped DEF SessionKind

\* A session that another request refreshes is not touched.
LEMMA RotationKept ==
    ASSUME BaseInv, NEW r \in Request, SessionKind(r), NEW x \in Request \ {r},
           req[x].pc = "rotating"
    PROVE  session'[req[x].session] = session[req[x].session]
<1> DEFINE s == req[x].session
<1>1. s \in Session /\ session[s].state = "live" /\ BeingRotated(s)
      /\ session \in [Session -> SessionRow]
    BY DEF BaseInv, ReqsTyped, Shape, RotationStands, BeingRotated, SessionsTyped
<1>2. CASE \E y \in Session : Revoked(y)
    BY <1>1, <1>2 DEF Revoked
<1>3. CASE \E y \in Session : Opened(r, y)
    BY <1>1, <1>3 DEF Opened, NoSession
<1>4. CASE Rotated(r)
    <2>1. req[r].session # s
        BY <1>4 DEF Rotated, BaseInv, RotationStands
    <2> QED BY <1>1, <1>4, <2>1, RotatedRow
<1> QED BY <1>2, <1>3, <1>4 DEF SessionKind

LEMMA RotationsStand ==
    ASSUME BaseInv, NEW r \in Request, Moves(r), SessionKind(r),
           req'[r].pc # "rotating"
    PROVE  \A x \in Request : RotationStands(x)'
<1> SUFFICES ASSUME NEW x \in Request, req'[x].pc = "rotating"
             PROVE  RotationStands(x)'
    BY DEF RotationStands
<1>1. x # r
    OBVIOUS
<1>2. req'[x] = req[x] /\ \A y \in Request \ {r} : req'[y] = req[y]
    BY <1>1 DEF Moves
<1>3. session'[req[x].session] = session[req[x].session] /\ RotationStands(x)
    BY <1>1, <1>2, RotationKept DEF BaseInv
<1> QED BY <1>2, <1>3 DEF RotationStands

\* A refresh that begins is the only one of its session.
LEMMA RotationBegins ==
    ASSUME BaseInv, NEW r \in Request, NEW s \in Session, RotateLocks(r, s)
    PROVE  SessionKind(r) /\ \A x \in Request : RotationStands(x)'
<1>1. Moves(r)
    BY RotateLocksMoves
<1>2. CASE /\ session' = [session EXCEPT ![s].state = "revoked"]
           /\ UNCHANGED req /\ req[r] = Idle /\ ~BeingRotated(s)
    <2>1. Revoked(s)
        BY <1>2 DEF Revoked
    <2>2. SessionKind(r)
        BY <2>1 DEF SessionKind
    <2>3. req'[r].pc # "rotating"
        BY <1>2 DEF Idle
    <2> QED BY <1>1, <2>2, <2>3, RotationsStand
<1>3. CASE /\ req'[r].pc = "rotating"
           /\ req'[r].session = s /\ req'[r].version = session[s].version
           /\ session[s].refreshes < MaxRotations /\ session[s].state = "live"
           /\ ~BeingRotated(s) /\ UNCHANGED session
    <2>1. \A y \in Request \ {r} : /\ req'[y] = req[y] /\ RotationStands(y)
                                   /\ ~(req[y].pc = "rotating" /\ req[y].session = s)
        BY <1>1, <1>3 DEF Moves, BaseInv, BeingRotated
    <2>2. RotationStands(r)'
        BY <1>3, <2>1 DEF RotationStands
    <2>3. \A x \in Request \ {r} : RotationStands(x)'
        BY <1>3, <2>1 DEF RotationStands
    <2> QED BY <1>3, <2>2, <2>3 DEF SessionKind
<1> QED BY <1>2, <1>3, RotateLocksMoves

LEMMA ArrivesStands ==
    ASSUME BaseInv, NEW r \in Request, Arrives(r)
    PROVE  /\ Moves(r) /\ UNCHANGED rows /\ req'[r].pc \notin {"checked", "refreshed"}
           /\ AuthorizedStands(r)' /\ CheckedStands(r)'
           /\ SessionKind(r) /\ \A x \in Request : RotationStands(x)'
<1>1. CASE \E u, t \in User, a \in AccessRequests :
            \/ \E op \in {"create", "access"} : Authorized(r, u, op, t, a[1], a[2])
            \/ Authorized(r, u, "suspend", t, {}, {})
            \/ Authorized(r, u, "roles", t, a[1], {})
            \/ Authorized(r, u, "stores", t, {}, a[2])
    <2>1. PICK u \in User, t \in User, a \in AccessRequests :
            \/ \E op \in {"create", "access"} : Authorized(r, u, op, t, a[1], a[2])
            \/ Authorized(r, u, "suspend", t, {}, {})
            \/ Authorized(r, u, "roles", t, a[1], {})
            \/ Authorized(r, u, "stores", t, {}, a[2])
        BY <1>1
    <2>2. a[1] \in SUBSET Role /\ a[2] \in SUBSET Store
        BY RequestAssumption
    <2>3. PICK op \in Serialized \cup {"stores", "create"}, rs \in SUBSET Role,
               ss \in SUBSET Store : Authorized(r, u, op, t, rs, ss)
        <3>1. {"create", "access", "suspend", "roles", "stores"}
                    \subseteq Serialized \cup {"stores", "create"}
            BY DEF Serialized
        <3>2. {} \in SUBSET Role /\ {} \in SUBSET Store
            OBVIOUS
        <3> QED BY <2>1, <2>2, <3>1, <3>2
    <2>4. /\ Moves(r) /\ req'[r].pc = "authorized" /\ req'[r].op = op /\ req'[r].target = t
          /\ op # "create" => user[t].status # "absent"
          /\ UNCHANGED <<rows, session>>
        BY <2>3, AuthorizedMoves
    <2>5. AuthorizedStands(r)' /\ CheckedStands(r)'
        BY <2>4 DEF AuthorizedStands, CheckedStands, rows
    <2> QED BY <2>4, <2>5, RotationsStand DEF SessionKind
<1>2. CASE \E u \in User : LoginReads(r, u)
    <2>1. Moves(r) /\ req'[r].pc = "login" /\ UNCHANGED <<rows, session>>
        BY <1>2, LoginReadsMoves
    <2> QED BY <2>1, PlainStands, RotationsStand DEF SessionKind
<1>3. CASE \E s \in Session : ReuseDetected(r, s)
    <2>1. Moves(r) /\ req'[r].pc = "reused" /\ UNCHANGED <<rows, session>>
        BY <1>3, ReuseDetectedMoves
    <2> QED BY <2>1, PlainStands, RotationsStand DEF SessionKind
<1>4. CASE \E s \in Session : RotateLocks(r, s)
    <2>1. PICK s \in Session : RotateLocks(r, s)
        BY <1>4
    <2>2. Moves(r) /\ UNCHANGED rows
        BY <2>1, RotateLocksMoves
    <2>3. SessionKind(r) /\ \A x \in Request : RotationStands(x)'
        BY <2>1, RotationBegins
    <2>4. AuthorizedStands(r)' /\ CheckedStands(r)' /\ req'[r].pc \notin {"checked", "refreshed"}
        BY <2>1, PlainStands, RotateLocksMoves DEF Idle
    <2> QED BY <2>2, <2>3, <2>4
<1> QED BY <1>1, <1>2, <1>3, <1>4 DEF Arrives

LEMMA ContinuesStands ==
    ASSUME BaseInv, NEW r \in Request, Continues(r) \/ LockWaitAborted(r)
    PROVE  /\ Moves(r) /\ ActorWrites(r)
           /\ AuthorizedStands(r)' /\ CheckedStands(r)'
           /\ SessionKind(r) /\ \A x \in Request : RotationStands(x)'
<1>1. CASE LocksTenant(r)
    <2>1. /\ Moves(r) /\ req[r].pc = "authorized" /\ req[r].op \in Serialized
          /\ req'[r].pc = "serialized" /\ req'[r].op = req[r].op
          /\ req'[r].target = req[r].target /\ UNCHANGED <<rows, session>>
        BY <1>1, LocksTenantMoves
    <2>2. AuthorizedStands(r)' /\ CheckedStands(r)'
        BY <2>1 DEF BaseInv, AuthorizedStands, CheckedStands, rows
    <2> QED BY <2>1, <2>2, RotationsStand DEF SessionKind, ActorWrites
<1>2. CASE LoginUpdates(r)
    BY <1>2, LoginUpdatesMoves, PlainStands, RotationsStand DEF SessionKind, ActorWrites
<1>3. CASE LoginCommits(r)
    BY <1>3, LoginCommitsMoves, PlainStands, RotationsStand DEF SessionKind, ActorWrites
<1>4. CASE LocksTarget(r)
    <2>1. Moves(r) /\ UNCHANGED <<rows, session>> /\ req'[r].pc # "rotating"
        BY <1>4, LocksTargetMoves DEF Idle
    <2> QED BY <1>4, <2>1, PassedCheckStands, RotationsStand DEF SessionKind, ActorWrites
<1>5. CASE \/ SuspendCommits(r) \/ AccessCommits(r) \/ CreateCommits(r)
           \/ LoginOpensSession(r) \/ RotateCommits(r) \/ ReuseRevokes(r)
           \/ LockWaitAborted(r)
    <2>1. Moves(r) /\ req'[r].pc = "idle"
        BY <1>5, EndingMoves DEF Idle
    <2>2. ActorWrites(r) /\ SessionKind(r)
        <3>1. CASE SuspendCommits(r)
            <4>1. req[r].pc = "checked"
                BY <3>1 DEF SuspendCommits
            <4>2. userLock[req[r].target] = r
                BY <4>1 DEF BaseInv, ReqsTyped, Holds
            <4> QED BY <3>1, <4>2, SuspendWrites DEF ActorWrites, SessionKind
        <3>2. CASE AccessCommits(r)
            <4>1. req[r].pc = "checked"
                BY <3>2 DEF AccessCommits
            <4>2. userLock[req[r].target] = r
                BY <4>1 DEF BaseInv, ReqsTyped, Holds
            <4> QED BY <3>2, <4>2, AccessWrites DEF ActorWrites, SessionKind
        <3>3. CASE CreateCommits(r)
            BY <3>3, CreateWrites DEF ActorWrites, SessionKind
        <3>4. CASE LoginOpensSession(r)
            <4>1. PICK s \in NotOpened : session' = [session EXCEPT ![s] =
                        [NoSession EXCEPT !.state = "live", !.user = req[r].target,
                                          !.version = req[r].version,
                                          !.access = req[r].scopes]]
                BY <3>4 DEF LoginOpensSession
            <4>2. [NoSession EXCEPT !.state = "live", !.user = req[r].target,
                                    !.version = req[r].version, !.access = req[r].scopes]
                        = OpenedRow(req[r])
                <5>1. PICK t, v, a : t = req[r].target /\ v = req[r].version /\ a = req[r].scopes
                    OBVIOUS
                <5>2. PICK row : row = [NoSession EXCEPT !.state = "live", !.user = t,
                                                         !.version = v, !.access = a]
                    OBVIOUS
                <5>3. row = [state |-> "live", refreshes |-> 0, user |-> t, version |-> v,
                             access |-> a]
                    BY <5>2 DEF NoSession
                <5> QED BY <5>1, <5>2, <5>3 DEF OpenedRow
            <4>3. Opened(r, s) /\ s \in Session
                BY <3>4, <4>1, <4>2 DEF Opened, NotOpened, LoginOpensSession
            <4> QED BY <3>4, <4>3 DEF SessionKind, ActorWrites, LoginOpensSession
        <3>5. CASE RotateCommits(r)
            <4>1. Rotated(r) /\ UNCHANGED rows
                BY <3>5 DEF RotateCommits, Rotated
            <4> QED BY <4>1 DEF SessionKind, ActorWrites
        <3>6. CASE ReuseRevokes(r)
            <4>1. req[r].session \in Session
                BY <3>6 DEF ReuseRevokes, BaseInv, ReqsTyped, Shape
            <4> QED BY <3>6, <4>1 DEF ReuseRevokes, Revoked, SessionKind, ActorWrites
        <3>7. CASE LockWaitAborted(r)
            BY <3>7 DEF LockWaitAborted, SessionKind, ActorWrites
        <3> QED BY <1>5, <3>1, <3>2, <3>3, <3>4, <3>5, <3>6, <3>7
    <2> QED BY <2>1, <2>2, PlainStands, RotationsStand
<1> QED BY <1>1, <1>2, <1>3, <1>4, <1>5 DEF Continues

\* One request, and what it does.
Acts(r) ==
    /\ Moves(r) /\ ActorWrites(r) /\ SessionKind(r)
    /\ AuthorizedStands(r)' /\ CheckedStands(r)' /\ \A x \in Request : RotationStands(x)'

LEMMA RequestActs ==
    ASSUME BaseInv, NEW r \in Request, Arrives(r) \/ Continues(r) \/ LockWaitAborted(r)
    PROVE  Acts(r)
BY ArrivesStands, ContinuesStands DEF Acts, ActorWrites

LEMMA ActsBase ==
    ASSUME BaseInv, NEW r \in Request, Acts(r)
    PROVE  BaseInv'
<1>1. RowsOK'
    BY AllRowsStep DEF Acts, ActorWrites
<1>2. SessionsTyped'
    BY SessionKindTyped DEF Acts
<1>3. LocksTyped' /\ ReqsTyped' /\ RestOK'
    BY MovesKeep DEF Acts
<1>4. \A x \in Request : AuthorizedStands(x)' /\ CheckedStands(x)'
    BY OthersStand DEF Acts
<1> QED BY <1>1, <1>2, <1>3, <1>4 DEF Acts, BaseInv

\* The deployment commands run while there are no requests.
Seeds ==
    /\ phase # "serving" /\ phase' \in {"seedReviewer", "serving", "failed"}
    /\ UNCHANGED <<session, req, locks, restarts>>
    /\ UNCHANGED rows \/ \E t \in User : RowChanges(t)

LEMMA SeedsWrite ==
    ASSUME BaseInv, SeedAdmin \/ SeedReviewer
    PROVE  Seeds
<1>1. Admin \in User /\ Reviewer \in User
    BY UserAssumption
<1>2. CASE SeedAdmin
    <2>1. /\ phase = "seedAdmin" /\ UNCHANGED <<session, req, locks, restarts>>
          /\ SeedAdminFinds \/ SeedAdminCreates \/ SeedAdminFails
        BY <1>2 DEF SeedAdmin
    <2>2. UNCHANGED rows \/ RowChanges(Admin)
        BY <2>1, SeedAdminFindsWrites, SeedAdminCreatesWrites DEF SeedAdminFails
    <2>3. phase' \in {"seedReviewer", "failed"}
        BY <2>1 DEF SeedAdminFinds, SeedAdminCreates, SeedAdminFails
    <2> QED BY <1>1, <2>1, <2>2, <2>3 DEF Seeds
<1>3. CASE SeedReviewer
    <2>1. /\ phase = "seedReviewer" /\ UNCHANGED <<session, req, locks, restarts>>
          /\ \/ SeedReviewerDisabled \/ SeedReviewerCreates \/ SeedReviewerFails
             \/ \E password, name \in BOOLEAN : SeedReviewerReconciles(password, name)
        BY <1>3 DEF SeedReviewer
    <2>2. UNCHANGED rows \/ RowChanges(Reviewer)
        BY <2>1, SeedReviewerCreatesWrites, ReconcilesWrites
            DEF SeedReviewerDisabled, SeedReviewerFails
    <2>3. phase' \in {"serving", "failed"}
        BY <2>1 DEF SeedReviewerDisabled, SeedReviewerCreates, SeedReviewerFails,
                    SeedReviewerReconciles
    <2> QED BY <1>1, <2>1, <2>2, <2>3 DEF Seeds
<1> QED BY <1>2, <1>3

LEMMA SeedsBase ==
    ASSUME BaseInv, Seeds
    PROVE  BaseInv'
<1>1. RowsOK'
    BY AllRowsStep DEF Seeds
<1>2. SessionsTyped' /\ LocksTyped' /\ UNCHANGED <<req, userLock, tenantLock, session>>
    BY DEF Seeds, BaseInv, SessionsTyped, LocksTyped, locks
<1>3. \A r \in Request : req'[r] = Idle /\ req[r] = Idle
    BY DEF Seeds, BaseInv, RestOK
<1>4. ReqsTyped' /\ \A r \in Request : /\ AuthorizedStands(r)' /\ CheckedStands(r)'
                                       /\ RotationStands(r)'
    BY <1>2, <1>3 DEF BaseInv, ReqsTyped, Holds, AuthorizedStands, CheckedStands,
                      RotationStands, Idle
<1>5. RestOK'
    BY <1>3 DEF Seeds, BaseInv, RestOK
<1> QED BY <1>1, <1>2, <1>4, <1>5 DEF BaseInv

LEMMA RestartBase ==
    ASSUME BaseInv, Restart
    PROVE  BaseInv'
<1>1. UNCHANGED <<rows, session>> /\ req' = [r \in Request |-> Idle]
      /\ tenantLock' = Nobody /\ userLock' = [u \in User |-> Nobody]
      /\ phase' = "seedAdmin" /\ restarts' = restarts + 1 /\ restarts < MaxRestarts
    BY DEF Restart
<1>2. RowsOK' /\ SessionsTyped' /\ LocksTyped'
    BY <1>1 DEF BaseInv, RowsOK, SessionsTyped, LocksTyped, rows
<1>3. \A r \in Request : req'[r] = Idle
    BY <1>1
<1>4. Shape(Idle) /\ Idle \in ReqRow /\ Idle.pc = "idle"
    BY IdleShape DEF Shape, Idle
<1>5. ReqsTyped' /\ \A r \in Request : /\ AuthorizedStands(r)' /\ CheckedStands(r)'
                                       /\ RotationStands(r)'
    BY <1>1, <1>3, <1>4 DEF ReqsTyped, Holds, AuthorizedStands, CheckedStands, RotationStands
<1>6. RestOK'
    BY <1>1, <1>3, BoundAssumption DEF BaseInv, RestOK
<1> QED BY <1>2, <1>5, <1>6 DEF BaseInv

LEMMA LogoutBase ==
    ASSUME BaseInv, NEW s \in Session, Logout(s)
    PROVE  BaseInv' /\ Revoked(s) /\ UNCHANGED <<rows, req, locks, phase, restarts>>
<1>1. Revoked(s) /\ UNCHANGED <<rows, req, locks, phase, restarts>>
    BY DEF Logout, Revoked
<1>2. RowsOK' /\ LocksTyped' /\ ReqsTyped' /\ RestOK'
    BY <1>1 DEF BaseInv, RowsOK, LocksTyped, ReqsTyped, RestOK, Holds, rows, locks
<1>3. \A r \in Request : AuthorizedStands(r)' /\ CheckedStands(r)'
    BY <1>1 DEF BaseInv, AuthorizedStands, CheckedStands, rows
<1>4. \A r \in Request :
            req[r].pc = "rotating" => session'[req[r].session] = session[req[r].session]
    BY <1>1 DEF Revoked, BeingRotated, BaseInv, ReqsTyped, Shape, SessionsTyped
<1>5. \A r \in Request : RotationStands(r)'
    BY <1>1, <1>4 DEF BaseInv, RotationStands
<1> QED BY <1>1, <1>2, <1>3, <1>5, RevokedTyped DEF BaseInv

LEMMA BaseNext ==
    ASSUME BaseInv, [Next]_vars
    PROVE  BaseInv'
<1>1. CASE SeedAdmin \/ SeedReviewer
    BY <1>1, SeedsWrite, SeedsBase
<1>2. CASE Restart
    BY <1>2, RestartBase
<1>3. CASE \E r \in Request : Arrives(r) \/ Continues(r) \/ LockWaitAborted(r)
    BY <1>3, RequestActs, ActsBase
<1>4. CASE \E s \in Session : Logout(s)
    BY <1>4, LogoutBase
<1>5. CASE UNCHANGED vars
    BY <1>5 DEF vars, rows, locks, BaseInv, RowsOK, SessionsTyped, LocksTyped, ReqsTyped,
                RestOK, Holds, AuthorizedStands, CheckedStands, RotationStands
<1> QED BY <1>1, <1>2, <1>3, <1>4, <1>5 DEF Next

LEMMA BaseInit ==
    ASSUME Init
    PROVE  BaseInv
<1>1. grants \in [User -> SUBSET Grant]
    BY RequestAssumption DEF Init
<1>2. RowsOK
    <2>1. \A u \in User : Fits(user[u], roles[u], stores[u], grants[u])
        BY <1>1, BoundAssumption DEF Init, Fits, UserRow
    <2>2. user \in [User -> UserRow]
        BY BoundAssumption DEF Init, UserRow
    <2>3. audit \in [User -> Seq(1..MaxVersion)]
        BY EmptySeq DEF Init
    <2> QED BY <1>1, <2>1, <2>2, <2>3 DEF Init, RowsOK
<1>3. SessionsTyped
    BY BoundAssumption DEF Init, SessionsTyped, SessionRow, NoSession
<1>4. \A r \in Request : req[r] = Idle
    BY DEF Init
<1>5. Shape(Idle) /\ Idle \in ReqRow /\ Idle.pc = "idle"
    BY IdleShape DEF Shape, Idle
<1>6. LocksTyped /\ ReqsTyped /\ \A r \in Request : /\ AuthorizedStands(r) /\ CheckedStands(r)
                                                    /\ RotationStands(r)
    BY <1>4, <1>5 DEF Init, LocksTyped, ReqsTyped, Holds, AuthorizedStands, CheckedStands,
                      RotationStands
<1>7. RestOK
    BY <1>4, BoundAssumption DEF Init, RestOK
<1> QED BY <1>2, <1>3, <1>6, <1>7 DEF BaseInv

LEMMA BaseType == ASSUME BaseInv PROVE TypeOK
BY DEF BaseInv, RowsOK, SessionsTyped, LocksTyped, ReqsTyped, RestOK, TypeOK, UserRow,
       SessionRow, ReqRow

\* The tables, the locks and the requests keep their types, and every bound is kept.
THEOREM TypeCorrect == Spec => []TypeOK
<1>1. Init => BaseInv
    BY BaseInit
<1>2. BaseInv /\ [Next]_vars => BaseInv'
    BY BaseNext
<1>3. BaseInv => TypeOK
    BY BaseType
<1> QED BY <1>1, <1>2, <1>3, PTL DEF Spec

-----------------------------------------------------------------------------
(* The versions and the audit records.                                      *)

LEMMA NextRows ==
    ASSUME BaseInv, [Next]_vars
    PROVE  \A u \in User : AccessStep(u)
<1>1. UNCHANGED rows \/ \E t \in User : RowChanges(t)
    <2>1. CASE SeedAdmin \/ SeedReviewer
        BY <2>1, SeedsWrite DEF Seeds
    <2>2. CASE \E r \in Request : Arrives(r) \/ Continues(r) \/ LockWaitAborted(r)
        BY <2>2, RequestActs DEF Acts, ActorWrites
    <2>3. CASE Restart \/ (\E s \in Session : Logout(s)) \/ UNCHANGED vars
        BY <2>3 DEF Restart, Logout, vars
    <2> QED BY <2>1, <2>2, <2>3 DEF Next
<1> QED BY <1>1, AllRowsStep

\* Whoever changes what a user may do gives the user a new token version and writes an
\* audit record of it, in the same step.
THEOREM AuditTrail == Spec => ChangesAreAudited
<1> DEFINE Step == \A u \in User :
                Access(u) # Access(u)' =>
                    /\ user'[u].version > user[u].version
                    /\ audit'[u] = Append(audit[u], user'[u].version)
<1>1. BaseInv /\ [Next]_vars => Step
    <2> SUFFICES ASSUME BaseInv, [Next]_vars, NEW u \in User, Access(u) # Access(u)'
                 PROVE  /\ user'[u].version > user[u].version
                        /\ audit'[u] = Append(audit[u], user'[u].version)
        OBVIOUS
    <2>1. AccessStep(u)
        BY NextRows
    <2>2. /\ Access(u) = AccessOf(user[u], roles[u], stores[u], grants[u])
          /\ Access(u)' = AccessOf(user'[u], roles'[u], stores'[u], grants'[u])
        BY DEF Scopes, Access, Active, ScopesOf, AccessOf
    <2> QED BY <2>1, <2>2 DEF AccessStep
<1>2. Init => BaseInv
    BY BaseInit
<1>3. BaseInv /\ [Next]_vars => BaseInv'
    BY BaseNext
<1>4. BaseInv /\ [Next]_vars => [Step]_vars
    BY <1>1
<1>5. [][Step]_vars => ChangesAreAudited
    BY PTL DEF ChangesAreAudited
<1> QED BY <1>2, <1>3, <1>4, <1>5, PTL DEF Spec

-----------------------------------------------------------------------------
(* The last administrator.                                                  *)

Admins == {u \in User : Active(u) /\ IsAdmin(u)}

\* Once there is an administrator, and when the API is served, one of them is active.
AdminStays ==
    ((\E u \in User : IsAdmin(u)) \/ phase \in {"seedReviewer", "serving"}) => Admins # {}

\* Who takes an administrator away has seen another, and holds the tenant lock, under which
\* that other one cannot be taken away.
AdminChecked(r) ==
    (/\ req[r].pc = "checked" /\ req[r].op \in Serialized /\ IsAdmin(req[r].target)
     /\ req[r].op = "suspend" \/ "TENANT_ADMIN" \notin req[r].roles)
        => Admins \ {req[r].target} # {}

AdminInv == BaseInv /\ AdminStays /\ \A r \in Request : AdminChecked(r)

LEMMA AdminScopes ==
    ASSUME BaseInv, NEW u \in User
    PROVE  /\ IsAdmin(u) <=> TenantAdmin(Scopes(u))
           /\ IsAdmin(u) <=> "TENANT_ADMIN" \in Roles(u)
<1>1. /\ roles[u] \in SUBSET Role /\ stores[u] \in SUBSET Store /\ grants[u] \in SUBSET Grant
      /\ Fits(user[u], roles[u], stores[u], grants[u])
    BY AccessInScope
<1>2. /\ roles[u] = {} => ("TENANT_ADMIN" \in RolesOf(roles[u], grants[u])
                                <=> AdminGrant \in grants[u])
      /\ TenantAdmin(ScopesOf(roles[u], stores[u], grants[u]))
            <=> "TENANT_ADMIN" \in RolesOf(roles[u], grants[u])
    BY <1>1, RolesAndStores
<1>3. roles[u] # {} => RolesOf(roles[u], grants[u]) = roles[u]
    BY DEF RolesOf
<1>4. roles[u] # {} => ("TENANT_ADMIN" \in roles[u] <=> AdminGrant \in grants[u])
    BY <1>1 DEF Fits
<1>5. Scopes(u) = ScopesOf(roles[u], stores[u], grants[u])
      /\ Roles(u) = RolesOf(roles[u], grants[u])
    BY AccessIs
<1> QED BY <1>2, <1>3, <1>4, <1>5 DEF IsAdmin

\* Rows that stay keep an administrator what it is.
LEMMA SameAdmin ==
    ASSUME NEW u \in User, SameRow(u)
    PROVE  /\ IsAdmin(u)' <=> IsAdmin(u)
           /\ u \in Admins' <=> u \in Admins
BY DEF SameRow, IsAdmin, Admins, Active

\* A request step that takes an administrator away is the commit of one that was checked.
LEMMA WhoTakesAdmins ==
    ASSUME BaseInv, NEW r \in Request, Continues(r)
    PROVE  \/ Admins \subseteq Admins'
           \/ /\ req[r].pc = "checked" /\ req[r].op \in Serialized /\ req[r].target \in User
              /\ req[r].target \in Admins
              /\ Admins \ {req[r].target} \subseteq Admins'
              /\ req[r].op = "suspend" \/ "TENANT_ADMIN" \notin req[r].roles
<1> DEFINE t == req[r].target
<1>1. CASE UNCHANGED rows
    BY <1>1 DEF rows, Admins, Active, IsAdmin
<1>2. ASSUME t \in User, RowChanges(t)
      PROVE  Admins \ {t} \subseteq Admins' /\ (t \notin Admins => Admins \subseteq Admins')
    <2>1. \A u \in User \ {t} : u \in Admins' <=> u \in Admins
        BY <1>2, SameAdmin DEF RowChanges
    <2> QED BY <2>1 DEF Admins
<1>3. CASE SuspendCommits(r)
    <2>1. /\ req[r].pc = "checked" /\ req[r].op = "suspend"
          /\ t \in User /\ RowChanges(t)
        BY <1>3, SuspendWrites DEF SuspendCommits
    <2> QED BY <1>2, <2>1 DEF Serialized
<1>4. CASE AccessCommits(r)
    <2>1. /\ req[r].pc = "checked" /\ t \in User /\ RowChanges(t)
          /\ user'[t].status = user[t].status /\ roles'[t] = req[r].roles
          /\ grants'[t] = CompatibilityGrants(req[r].roles, req[r].stores)
          /\ req[r].op \in Serialized \cup {"stores"}
        BY <1>4, AccessWrites DEF AccessCommits, BaseInv, ReqsTyped, Shape
    <2>2. CASE t \notin Admins \/ (req[r].op \in Serialized /\ "TENANT_ADMIN" \notin req[r].roles)
        BY <1>2, <2>1, <2>2
    <2>3. CASE t \in Admins /\ "TENANT_ADMIN" \in req[r].roles
        <3>1. t \in Admins'
            BY <2>1, <2>3 DEF Admins, Active, IsAdmin
        <3> QED BY <1>2, <2>1, <3>1
    <2>4. CASE t \in Admins /\ req[r].op = "stores"
        <3>1. req[r].roles = RolesOf(roles[t], grants[t])
            BY <2>1, <2>4 DEF BaseInv, CheckedStands
        <3>2. "TENANT_ADMIN" \in req[r].roles
            BY <2>1, <2>4, <3>1, AdminScopes, AccessIs DEF Admins
        <3> QED BY <2>3, <2>4, <3>2
    <2> QED BY <2>1, <2>2, <2>3, <2>4
<1>5. CASE CreateCommits(r)
    <2>1. CASE t \in User /\ RowChanges(t) /\ user[t].status = "absent"
        BY <1>2, <2>1 DEF Admins, Active
    <2> QED BY <1>1, <1>5, <2>1, CreateWrites
<1>6. CASE ~SuspendCommits(r) /\ ~AccessCommits(r) /\ ~CreateCommits(r)
    <2>1. UNCHANGED rows
        BY <1>6 DEF Continues, LocksTenant, LocksTarget, LoginUpdates, LoginCommits,
                    LoginOpensSession, RotateCommits, ReuseRevokes
    <2> QED BY <1>1, <2>1
<1> QED BY <1>3, <1>4, <1>5, <1>6

LEMMA PassedCheckSawAdmin ==
    ASSUME BaseInv, NEW r \in Request, LocksTarget(r)
    PROVE  AdminChecked(r)'
<1>1. CASE req'[r] = Idle
    BY <1>1 DEF Idle, AdminChecked
<1>2. CASE req'[r] # Idle
    <2> DEFINE u == req[r].target
    <2>1. /\ UNCHANGED rows /\ u \in User /\ Permitted(req[r])
          /\ req'[r].op = req[r].op /\ req'[r].target = u
          /\ req'[r].roles = RequestedRoles(req[r])
        BY <1>2, LocksTargetMoves
    <2>2. Admins' = Admins /\ (IsAdmin(u)' <=> IsAdmin(u))
        BY <2>1 DEF rows, Admins, Active, IsAdmin
    <2>3. IsAdmin(u) <=> "TENANT_ADMIN" \in Roles(u)
        BY <2>1, AdminScopes
    <2>4. (IsAdmin(u) /\ (req[r].op = "suspend" \/ "TENANT_ADMIN" \notin RequestedRoles(req[r])))
            => AnotherActiveAdmin(u)
        BY <2>1, <2>3 DEF Permitted, MaySuspend, MayReplace
    <2>5. AnotherActiveAdmin(u) => Admins \ {u} # {}
        BY DEF AnotherActiveAdmin, Admins
    <2> QED BY <2>1, <2>2, <2>4, <2>5 DEF AdminChecked
<1> QED BY <1>1, <1>2

LEMMA RequestAdmin ==
    ASSUME AdminInv, NEW r \in Request, Arrives(r) \/ Continues(r) \/ LockWaitAborted(r)
    PROVE  AdminStays' /\ \A x \in Request : AdminChecked(x)'
<1>1. BaseInv /\ Acts(r) /\ Admins # {}
    BY RequestActs DEF AdminInv, AdminStays, Acts, Moves
<1>2. CASE Admins \subseteq Admins'
    <2>1. \A x \in Request \ {r} : AdminChecked(x)'
        <3> SUFFICES ASSUME NEW x \in Request \ {r}, req'[x].pc = "checked"
                     PROVE  AdminChecked(x)'
            BY DEF AdminChecked
        <3>1. req'[x] = req[x] /\ AdminChecked(x)
            BY <1>1 DEF Acts, Moves, AdminInv
        <3>2. req[x].target \in User /\ SameRow(req[x].target)
            BY <1>1, <3>1, OthersTarget DEF Acts
        <3>3. IsAdmin(req[x].target)' <=> IsAdmin(req[x].target)
            BY <3>1, <3>2 DEF SameRow, IsAdmin
        <3> QED BY <1>2, <3>1, <3>3 DEF AdminChecked
    <2>2. AdminChecked(r)'
        <3>1. CASE LocksTarget(r)
            BY <1>1, <3>1, PassedCheckSawAdmin
        <3>2. CASE ~LocksTarget(r)
            <4>1. req'[r].pc # "checked"
                <5>1. CASE Arrives(r)
                    BY <1>1, <5>1, ArrivesStands
                <5>2. CASE Continues(r) \/ LockWaitAborted(r)
                    BY <1>1, <3>2, <5>2, LocksTenantMoves, LoginUpdatesMoves, LoginCommitsMoves,
                       EndingMoves DEF Continues, Idle
                <5> QED BY <5>1, <5>2
            <4> QED BY <4>1 DEF AdminChecked
        <3> QED BY <3>1, <3>2
    <2> QED BY <1>1, <1>2, <2>1, <2>2 DEF AdminStays
<1>3. CASE ~(Admins \subseteq Admins')
    <2>1. Continues(r)
        <3>1. UNCHANGED rows => Admins \subseteq Admins'
            BY DEF rows, Admins, Active, IsAdmin
        <3>2. CASE Arrives(r) \/ LockWaitAborted(r)
            <4>1. UNCHANGED rows
                BY <1>1, <3>2, ArrivesStands DEF LockWaitAborted
            <4> QED BY <1>3, <3>1, <4>1
        <3> QED BY <3>2
    <2>2. /\ req[r].pc = "checked" /\ req[r].op \in Serialized /\ req[r].target \in Admins
          /\ Admins \ {req[r].target} \subseteq Admins'
          /\ req[r].op = "suspend" \/ "TENANT_ADMIN" \notin req[r].roles
        BY <1>1, <1>3, <2>1, WhoTakesAdmins
    <2>3. Admins' # {}
        BY <2>2 DEF AdminInv, AdminChecked, Admins
    <2>4. tenantLock = r
        BY <1>1, <2>2 DEF BaseInv, ReqsTyped, Holds
    <2>5. \A x \in Request \ {r} : AdminChecked(x)'
        BY <1>1, <2>4 DEF AdminChecked, Acts, Moves, BaseInv, ReqsTyped, Holds
    <2>6. req'[r].pc # "checked"
        BY <1>1, <2>1, <2>2, EndingMoves DEF Continues, LocksTenant, LocksTarget, WantsTenant,
           WantsTarget, LoginUpdates, LoginCommits, Serialized, Idle
    <2> QED BY <2>3, <2>5, <2>6 DEF AdminStays, AdminChecked
<1> QED BY <1>2, <1>3

\* The deployment commands leave every administrator in place, and the first one finds an
\* administrator or creates it.
LEMMA SeedsAdmin ==
    ASSUME AdminInv, SeedAdmin \/ SeedReviewer
    PROVE  AdminStays'
<1>1. BaseInv /\ Admin \in User /\ Reviewer \in User
    BY UserAssumption DEF AdminInv
<1>2. UNCHANGED rows => /\ Admins' = Admins
                        /\ \A u \in User : IsAdmin(u)' <=> IsAdmin(u)
    BY DEF rows, Admins, Active, IsAdmin
<1>3. CASE SeedAdmin
    <2>1. CASE SeedAdminFinds
        <3>1. Admins # {}
            BY <1>1, <2>1 DEF SeedAdminFinds, IsAdmin, AdminInv, AdminStays
        <3>2. Admins \subseteq Admins'
            BY <1>1, <2>1 DEF SeedAdminFinds, Admins, Active, IsAdmin, BaseInv, RowsOK
        <3> QED BY <3>1, <3>2 DEF AdminStays
    <2>2. CASE SeedAdminCreates
        <3>1. user'[Admin].status = "ACTIVE" /\ AdminGrant \in grants'[Admin]
            BY <1>1, <2>2 DEF SeedAdminCreates, NewUser, BaseInv, RowsOK
        <3>2. Admin \in Admins'
            BY <1>1, <3>1 DEF Admins, Active, IsAdmin
        <3> QED BY <3>2 DEF AdminStays
    <2>3. CASE SeedAdminFails
        BY <1>2, <2>3 DEF SeedAdminFails, AdminInv, AdminStays
    <2> QED BY <1>3, <2>1, <2>2, <2>3 DEF SeedAdmin
<1>4. CASE SeedReviewer
    <2>1. Admins # {}
        BY <1>4 DEF SeedReviewer, AdminInv, AdminStays
    <2>2. CASE UNCHANGED rows
        BY <1>2, <2>1, <2>2 DEF AdminStays
    <2>3. CASE RowChanges(Reviewer) /\ Reviewer \notin Admins
        <3>1. Admins \subseteq Admins'
            BY <1>1, <2>3, SameAdmin DEF RowChanges, Admins
        <3> QED BY <2>1, <3>1 DEF AdminStays
    <2>4. CASE SeedReviewerCreates
        <3>1. Reviewer \notin Admins
            BY <2>4 DEF SeedReviewerCreates, Admins, Active
        <3> QED BY <1>1, <2>3, <2>4, <3>1, SeedReviewerCreatesWrites
    <2>5. CASE \E password, name \in BOOLEAN : SeedReviewerReconciles(password, name)
        <3>1. Reviewer \notin Admins
            BY <2>5 DEF SeedReviewerReconciles, Admins
        <3> QED BY <1>1, <2>3, <2>5, <3>1, ReconcilesWrites
    <2> QED BY <1>4, <2>2, <2>4, <2>5 DEF SeedReviewer, SeedReviewerDisabled, SeedReviewerFails
<1> QED BY <1>3, <1>4

LEMMA AdminNext ==
    ASSUME AdminInv, [Next]_vars
    PROVE  AdminInv'
<1>1. BaseInv'
    BY BaseNext DEF AdminInv
<1>2. CASE SeedAdmin \/ SeedReviewer
    <2>1. \A r \in Request : req'[r] = Idle
        BY <1>2, SeedsWrite DEF Seeds, AdminInv, BaseInv, RestOK
    <2>2. \A r \in Request : AdminChecked(r)'
        BY <2>1 DEF AdminChecked, Idle
    <2> QED BY <1>1, <1>2, <2>2, SeedsAdmin DEF AdminInv
<1>3. CASE \E r \in Request : Arrives(r) \/ Continues(r) \/ LockWaitAborted(r)
    BY <1>1, <1>3, RequestAdmin DEF AdminInv
<1>4. CASE Restart \/ (\E s \in Session : Logout(s)) \/ UNCHANGED vars
    <2>1. UNCHANGED rows /\ (phase' = "seedAdmin" \/ phase' = phase)
        BY <1>4 DEF Restart, Logout, vars
    <2>2. /\ Admins' = Admins
          /\ \A u \in User : IsAdmin(u)' <=> IsAdmin(u)
        BY <2>1 DEF rows, Admins, Active, IsAdmin
    <2>3. AdminStays'
        BY <2>1, <2>2 DEF AdminInv, AdminStays
    <2>4. \A r \in Request : req'[r] = Idle \/ req'[r] = req[r]
        BY <1>4 DEF Restart, Logout, vars
    <2>5. \A r \in Request : AdminChecked(r)'
        <3> SUFFICES ASSUME NEW r \in Request, req'[r].pc = "checked"
                     PROVE  AdminChecked(r)'
            BY DEF AdminChecked
        <3>1. req'[r] = req[r] /\ AdminChecked(r) /\ req[r].target \in User
            BY <2>4 DEF Idle, AdminInv, BaseInv, ReqsTyped, Shape
        <3> QED BY <2>2, <3>1 DEF AdminChecked
    <2> QED BY <1>1, <2>3, <2>5 DEF AdminInv
<1> QED BY <1>2, <1>3, <1>4 DEF Next

\* Whenever the API is served there is an active user with the TENANT_ADMIN role, whoever
\* suspends or demotes whom at the same time and whatever the principals were read as.
THEOREM AnAdministratorRemains == Spec => []AdminRemains
<1>1. Init => AdminInv
    <2> SUFFICES ASSUME Init
                 PROVE  AdminInv
        OBVIOUS
    <2>1. \A u \in User : IsAdmin(u) => u \in Admins
        BY DEF Init, Admins, Active, IsAdmin
    <2>2. AdminStays
        BY <2>1 DEF Init, AdminStays
    <2>3. \A r \in Request : AdminChecked(r)
        BY DEF Init, AdminChecked, Idle
    <2> QED BY <2>2, <2>3, BaseInit DEF AdminInv
<1>2. AdminInv /\ [Next]_vars => AdminInv'
    BY AdminNext
<1>3. AdminInv => AdminRemains
    <2> SUFFICES ASSUME AdminInv, phase = "serving"
                 PROVE  \E u \in User : Active(u) /\ TenantAdmin(Scopes(u))
        BY DEF AdminRemains
    <2>1. PICK u \in User : Active(u) /\ IsAdmin(u)
        BY DEF AdminInv, AdminStays, Admins
    <2> QED BY <2>1, AdminScopes DEF AdminInv
<1> QED BY <1>1, <1>2, <1>3, PTL DEF Spec

-----------------------------------------------------------------------------
(* The access a session carries.                                            *)

\* Access a that was read with version v: the user has moved on, or a is what it has.
Carries(usr, rs, ss, gs, v, a) ==
    v <= usr.version /\ (v = usr.version => a = AccessOf(usr, rs, ss, gs))

UserCarries(u, v, a) == Carries(user[u], roles[u], stores[u], grants[u], v, a)

SessionCarries(s) ==
    session[s].state = "live"
        => UserCarries(session[s].user, session[s].version, session[s].access)

\* A login that is about to open its session.
LoginCarries(r) ==
    req[r].pc = "refreshed"
        => UserCarries(req[r].target, req[r].version, req[r].scopes)

SessionInv ==
    /\ BaseInv
    /\ \A s \in Session : SessionCarries(s)
    /\ \A r \in Request : LoginCarries(r)

LEMMA CarriesOn ==
    ASSUME BaseInv, BaseInv', NEW u \in User, AccessStep(u), NEW v \in Nat, NEW a,
           Carries(user[u], roles[u], stores[u], grants[u], v, a)
    PROVE  Carries(user'[u], roles'[u], stores'[u], grants'[u], v, a)
<1>1. user[u].version \in Nat /\ user'[u].version \in Nat
    BY BoundAssumption DEF BaseInv, RowsOK, UserRow
<1> QED BY <1>1 DEF Carries, AccessStep

\* A session that stays live keeps what it carries.
LEMMA SessionCarriesOn ==
    ASSUME SessionInv, BaseInv', \A u \in User : AccessStep(u), NEW s \in Session,
           session'[s].state = "live" =>
                /\ session[s].state = "live" /\ session'[s].user = session[s].user
                /\ session'[s].version = session[s].version
                /\ session'[s].access = session[s].access
    PROVE  SessionCarries(s)'
<1> SUFFICES ASSUME session'[s].state = "live"
             PROVE  SessionCarries(s)'
    BY DEF SessionCarries
<1>1. PICK u, v, a : u = session[s].user /\ v = session[s].version /\ a = session[s].access
    OBVIOUS
<1>2. /\ BaseInv /\ u \in User /\ v \in Nat
      /\ Carries(user[u], roles[u], stores[u], grants[u], v, a)
    BY <1>1, BoundAssumption DEF SessionInv, BaseInv, SessionsTyped, SessionRow,
                                 SessionCarries, UserCarries
<1>3. Carries(user'[u], roles'[u], stores'[u], grants'[u], v, a)
    BY <1>2, CarriesOn
<1> QED BY <1>1, <1>3 DEF SessionCarries, UserCarries

LEMMA LoginCarriesOn ==
    ASSUME SessionInv, BaseInv', \A u \in User : AccessStep(u), NEW r \in Request,
           req'[r] = req[r]
    PROVE  LoginCarries(r)'
<1> SUFFICES ASSUME req[r].pc = "refreshed"
             PROVE  LoginCarries(r)'
    BY DEF LoginCarries
<1>1. PICK u, v, a : u = req[r].target /\ v = req[r].version /\ a = req[r].scopes
    OBVIOUS
<1>2. /\ BaseInv /\ u \in User /\ v \in Nat
      /\ Carries(user[u], roles[u], stores[u], grants[u], v, a)
    BY <1>1, BoundAssumption DEF SessionInv, BaseInv, ReqsTyped, Shape, ReqRow,
                                 LoginCarries, UserCarries
<1>3. Carries(user'[u], roles'[u], stores'[u], grants'[u], v, a)
    BY <1>2, CarriesOn
<1> QED BY <1>1, <1>3 DEF LoginCarries, UserCarries

\* The refreshed user of a login is read with its version and access of that moment.
LEMMA RefreshedCarries ==
    ASSUME BaseInv, NEW r \in Request, LoginCommits(r)
    PROVE  LoginCarries(r)'
<1>1. PICK u : u = req[r].target
    OBVIOUS
<1>2. /\ u \in User /\ UNCHANGED rows /\ req'[r].target = u
      /\ req'[r].version = user[u].version /\ req'[r].scopes = Access(u)
    BY <1>1, LoginCommitsMoves
<1>3. Access(u) = AccessOf(user[u], roles[u], stores[u], grants[u])
    BY <1>2, AccessIs
<1>4. user[u].version <= user[u].version
    BY <1>2, BoundAssumption DEF BaseInv, RowsOK, UserRow
<1> QED BY <1>2, <1>3, <1>4 DEF LoginCarries, UserCarries, Carries, rows

LEMMA SessionKindCarries ==
    ASSUME SessionInv, BaseInv', \A u \in User : AccessStep(u), NEW r \in Request,
           SessionKind(r), NEW s \in Session
    PROVE  SessionCarries(s)'
<1>1. session \in [Session -> SessionRow] /\ BaseInv
    BY DEF SessionInv, BaseInv, SessionsTyped
<1>2. CASE UNCHANGED session
    BY <1>2, SessionCarriesOn
<1>3. CASE \E y \in Session : Revoked(y)
    <2>1. PICK y \in Session : session' = [session EXCEPT ![y].state = "revoked"]
        BY <1>3 DEF Revoked
    <2>2. CASE y = s
        <3>1. session'[s].state # "live"
            BY <1>1, <2>1, <2>2 DEF SessionRow
        <3> QED BY <3>1, SessionCarriesOn
    <2>3. CASE y # s
        <3>1. session'[s] = session[s]
            BY <1>1, <2>1, <2>3
        <3> QED BY <3>1, SessionCarriesOn
    <2> QED BY <2>2, <2>3
<1>4. CASE \E y \in Session : Opened(r, y)
    <2>1. PICK y \in Session : Opened(r, y)
        BY <1>4
    <2>2. CASE y # s
        <3>1. session'[s] = session[s]
            BY <1>1, <2>1, <2>2 DEF Opened
        <3> QED BY <3>1, SessionCarriesOn
    <2>3. CASE y = s
        <3>1. PICK u, v, a : u = req[r].target /\ v = req[r].version /\ a = req[r].scopes
            OBVIOUS
        <3>2. /\ u \in User /\ v \in Nat
              /\ Carries(user[u], roles[u], stores[u], grants[u], v, a)
            BY <2>1, <3>1, BoundAssumption DEF Opened, SessionInv, BaseInv, ReqsTyped, Shape,
                                               ReqRow, LoginCarries, UserCarries
        <3>3. Carries(user'[u], roles'[u], stores'[u], grants'[u], v, a)
            BY <1>1, <3>2, CarriesOn
        <3>4. session'[s] = OpenedRow(req[r])
            BY <1>1, <2>1, <2>3 DEF Opened
        <3>5. /\ session'[s].user = u /\ session'[s].version = v /\ session'[s].access = a
            BY <3>1, <3>4 DEF OpenedRow
        <3> QED BY <3>3, <3>5 DEF SessionCarries, UserCarries
    <2> QED BY <2>2, <2>3
<1>5. CASE Rotated(r)
    <2>1. PICK y : y = req[r].session
        OBVIOUS
    <2>2. /\ y \in Session /\ session[y].state = "live" /\ session[y] \in SessionRow
          /\ session' = [session EXCEPT ![y] = [session[y] EXCEPT !.refreshes = @ + 1]]
        BY <1>1, <1>5, <2>1, RotatedRow
    <2>3. CASE y # s
        <3>1. session'[s] = session[s]
            BY <1>1, <2>2, <2>3
        <3> QED BY <3>1, SessionCarriesOn
    <2>4. CASE y = s
        <3>1. session'[s] = [session[s] EXCEPT !.refreshes = @ + 1] /\ session[s] \in SessionRow
            BY <1>1, <2>2, <2>4
        <3>2. /\ session'[s].user = session[s].user /\ session'[s].version = session[s].version
              /\ session'[s].access = session[s].access
            BY <3>1 DEF SessionRow
        <3> QED BY <2>2, <2>4, <3>2, SessionCarriesOn
    <2> QED BY <2>3, <2>4
<1> QED BY <1>2, <1>3, <1>4, <1>5 DEF SessionKind

LEMMA SessionNext ==
    ASSUME SessionInv, [Next]_vars
    PROVE  SessionInv'
<1>1. BaseInv /\ BaseInv' /\ \A u \in User : AccessStep(u)
    BY BaseNext, NextRows DEF SessionInv
<1>2. CASE \E r \in Request : Arrives(r) \/ Continues(r) \/ LockWaitAborted(r)
    <2>1. PICK r \in Request : Arrives(r) \/ Continues(r) \/ LockWaitAborted(r)
        BY <1>2
    <2>2. Acts(r)
        BY <1>1, <2>1, RequestActs
    <2>3. \A s \in Session : SessionCarries(s)'
        BY <1>1, <2>2, SessionKindCarries DEF Acts
    <2>4. \A x \in Request \ {r} : LoginCarries(x)'
        BY <1>1, <2>2, LoginCarriesOn DEF Acts, Moves
    <2>5. LoginCarries(r)'
        <3>1. CASE LoginCommits(r)
            BY <1>1, <3>1, RefreshedCarries
        <3>2. CASE ~LoginCommits(r)
            <4>1. req'[r].pc # "refreshed"
                <5>1. CASE Arrives(r)
                    BY <1>1, <5>1, ArrivesStands
                <5>2. CASE Continues(r) \/ LockWaitAborted(r)
                    BY <1>1, <3>2, <5>2, LocksTenantMoves, LoginUpdatesMoves, LocksTargetMoves,
                       EndingMoves DEF Continues, Idle
                <5> QED BY <2>1, <5>1, <5>2
            <4> QED BY <4>1 DEF LoginCarries
        <3> QED BY <3>1, <3>2
    <2> QED BY <1>1, <2>3, <2>4, <2>5 DEF SessionInv
<1>3. CASE SeedAdmin \/ SeedReviewer \/ Restart \/ UNCHANGED vars
    <2>1. UNCHANGED session
        BY <1>3 DEF SeedAdmin, SeedReviewer, Restart, vars
    <2>2. \A r \in Request : req'[r] = req[r] \/ req'[r] = Idle
        BY <1>3 DEF SeedAdmin, SeedReviewer, Restart, vars
    <2>3. \A s \in Session : SessionCarries(s)'
        BY <1>1, <2>1, SessionCarriesOn
    <2>4. \A r \in Request : LoginCarries(r)'
        BY <1>1, <2>2, LoginCarriesOn DEF LoginCarries, Idle
    <2> QED BY <1>1, <2>3, <2>4 DEF SessionInv
<1>4. CASE \E s \in Session : Logout(s)
    <2>1. PICK s \in Session : Logout(s)
        BY <1>4
    <2>2. session' = [session EXCEPT ![s].state = "revoked"] /\ UNCHANGED req
        BY <2>1 DEF Logout
    <2>3. session \in [Session -> SessionRow]
        BY <1>1 DEF BaseInv, SessionsTyped
    <2>4. \A y \in Session : SessionCarries(y)'
        <3> SUFFICES ASSUME NEW y \in Session
                     PROVE  SessionCarries(y)'
            OBVIOUS
        <3>1. session'[y] = session[y] \/ session'[y].state = "revoked"
            BY <2>2, <2>3 DEF SessionRow
        <3> QED BY <1>1, <3>1, SessionCarriesOn
    <2>5. \A r \in Request : LoginCarries(r)'
        BY <1>1, <2>2, LoginCarriesOn
    <2> QED BY <1>1, <2>4, <2>5 DEF SessionInv
<1> QED BY <1>2, <1>3, <1>4 DEF Next

\* An accepted session was logged in under the very access its user has now, however often it
\* was refreshed and whatever happened to the user while it was logged in.
THEOREM SessionsAreCurrent == Spec => []SessionsCarryCurrentAccess
<1>1. Init => SessionInv
    BY BaseInit DEF Init, SessionInv, SessionCarries, LoginCarries, NoSession, Idle
<1>2. SessionInv /\ [Next]_vars => SessionInv'
    BY SessionNext
<1>3. SessionInv => SessionsCarryCurrentAccess
    <2> SUFFICES ASSUME SessionInv, NEW s \in Session, Usable(s)
                 PROVE  session[s].access = Access(session[s].user)
        BY DEF SessionsCarryCurrentAccess
    <2>1. PICK u : u = session[s].user
        OBVIOUS
    <2>2. /\ u \in User /\ session[s].version = user[u].version
          /\ Carries(user[u], roles[u], stores[u], grants[u], session[s].version,
                     session[s].access)
        BY <2>1 DEF Usable, SessionInv, BaseInv, SessionsTyped, SessionCarries, UserCarries
    <2>3. Access(u) = AccessOf(user[u], roles[u], stores[u], grants[u])
        BY <2>2, AccessIs
    <2> QED BY <2>1, <2>2, <2>3 DEF Carries
<1> QED BY <1>1, <1>2, <1>3, PTL DEF Spec

=============================================================================
