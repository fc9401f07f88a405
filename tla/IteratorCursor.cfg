\* Two threads and one iterator over three items.
CONSTANTS
    Threads = {t1, t2}
    N = 3
SPECIFICATION Spec
INVARIANTS
    ReadsTheItem
PROPERTIES
    OneItemPerCall
