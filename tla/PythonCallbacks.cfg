\* The program leaves compact_range alone.
CONSTANTS
    Threads = {t1, t2}
    Jobs = {j1}
    None = None
    Methods <- WithoutCompact
SPECIFICATION FairSpec
INVARIANTS
    TypeOK
    NoStandoff
PROPERTIES
    CallbacksServed
    EveryCallReturns
