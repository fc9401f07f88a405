\* Two overlapping calls, two writes, single ones and batches over both column families.
CONSTANTS
    Threads = {t1, t2}
    Families = {default, other}
    Default = default
    Batches = {{default}, {default, other}}
    MaxWrites = 2
SPECIFICATION Spec
SYMMETRY Interchangeable
INVARIANTS
    PromisesKept
    BackupsComplete
PROPERTIES
    LogSurvivesInOrder
