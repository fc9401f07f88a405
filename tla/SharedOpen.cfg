\* Two threads open with one Options object at the same time.
CONSTANTS
    Threads = {t1, t2}
    DBs = {d1, d2}
    Opts = {o1, o2}
    COpts = {c1, c2}
    Handles = {h1, h2, h3, h4, h5}
    Children = {}
    None = None
    o1 = o1
    o2 = o2
    c1 = c1
    c2 = c2
    OpenFamilies <- SomeFamilies
    Liberties <- Sharing
    Failures <- NoFailure
SPECIFICATION Spec
SYMMETRY Interchangeable
INVARIANTS
    OptionsExclusive
