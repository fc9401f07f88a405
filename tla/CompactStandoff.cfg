\* The program calls compact_range: the system stops.
CONSTANTS
    Threads = {t1, t2}
    Jobs = {j1}
    None = None
    Methods <- All
CHECK_DEADLOCK FALSE
SPECIFICATION FairSpec
PROPERTIES
    CallbacksServed
