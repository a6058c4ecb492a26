SPECIFICATION Spec
CONSTANTS
    Ip = {i1}
    Account = {a1, a2}
    Thread = {t1, t2, t3}
    Window = 2
    IpLimit = 2
    AccountLimit = 2
    MaxEntries = 2
    MaxLag = 1
SYMMETRY Symmetry
INVARIANTS
    CountersAreExact
    TableIsBounded
