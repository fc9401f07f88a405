\* Two batches, two iterators and two writes under way.
CONSTANTS
    Batches = {b1, b2}
    Iterators = {i1, i2}
    Threads = {t1, t2}
    Records = {put, delete}
    Ranges = {range}
    MaxRecords = 2
    None = None
SPECIFICATION Spec
SYMMETRY Interchangeable
INVARIANTS
    GivesTheBatch
    BatchesOutliveUse
