\* A background job runs while the DB is closed or the family dropped.
CONSTANTS
    Options = {o1, o2, o3}
    Callbacks = {p1, p2, p3, p4}
    Families = {f1, f2}
    Default = f1
    Calls = {u1}
    Jobs = {j1}
    None = None
SPECIFICATION Spec
SYMMETRY Interchangeable
INVARIANTS
    JobsFindCallbacks
