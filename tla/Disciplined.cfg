\* Two threads, two databases; the program keeps every discipline.
CONSTANTS
    Threads = {t1, t2}
    DBs = {d1, d2}
    Opts = {o1, o2}
    COpts = {c1, c2}
    Handles = {h1, h2, h3, h4}
    Children = {k1, k2}
    None = None
    o1 = o1
    o2 = o2
    c1 = c1
    c2 = c2
    OpenFamilies <- SomeFamilies
    Liberties <- NoLiberty
    Failures <- AllFailures
SPECIFICATION Spec
SYMMETRY Interchangeable
INVARIANTS
    HandlesLiveInCalls
    OptionsExclusive
