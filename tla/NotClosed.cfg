\* Every liberty but close(): the database outlives its users all the same.
CONSTANTS
    Threads = {t1, t2}
    DBs = {d1, d2}
    Opts = {o1, o2}
    COpts = {c1, c2}
    Handles = {h1, h2, h3}
    Children = {k1}
    None = None
    o1 = o1
    o2 = o2
    c1 = c1
    c2 = c2
    OpenFamilies <- SomeFamilies
    Liberties <- NotClosing
    Failures <- AllFailures
SPECIFICATION Spec
SYMMETRY Interchangeable
INVARIANTS
    TypeOK
    DbLiveInCalls
    HandlesBeforeDb
    ChildrenBeforeDb
    FamilyOptionsExclusive
PROPERTIES
    FamiliesLeased
