\* No discipline at all, explicit close() included, on one DB: an abandoned DB object is torn
\* down (liveness, under FairSpec), the Python side keeps its lists paired, and where opens
\* and creations succeed no options object stays flagged for nothing.
CONSTANTS
    Threads = {t1, t2}
    DBs = {d1}
    Opts = {o1}
    COpts = {c1, c2}
    Handles = {h1, h2, h3, h4}
    Children = {k1}
    None = None
    o1 = o1
    o2 = o2
    c1 = c1
    c2 = c2
    OpenFamilies <- SomeFamilies
    Liberties <- AllLiberties
    Failures <- DropMayFail
SPECIFICATION FairSpec
INVARIANTS
    ListsPaired
    FamilyFlagsEarned
PROPERTIES
    Reclaimed
