SPECIFICATION Spec
CONSTANTS
    adm = adm
    rev = rev
    s1 = s1
    NoUser = NoUser
    Everywhere = Everywhere
    Nobody = Nobody
    User = {adm, rev}
    Admin = adm
    Reviewer = rev
    Store = {s1}
    Request = {r1, r2}
    MaxLogins = 1
    MaxRotations = 1
    MaxVersion = 3
    MaxRestarts = 1
    AccessRequests <- AdminOrManager
    LegacyAccess <- FreshOrLegacy
SYMMETRY Symmetry
CHECK_DEADLOCK FALSE
INVARIANTS
    TypeOK
    AdminRemains
    SessionsCarryCurrentAccess
PROPERTIES
    ChangesAreAudited
