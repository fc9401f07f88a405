\* Three options objects and two column families; a program that sets and forgets what it likes.
CONSTANTS
    Options = {o1, o2, o3}
    Callbacks = {p1, p2, p3, p4}
    Families = {f1, f2}
    Default = f1
    Calls = {u1}
    Jobs = {j1}
    None = None
SPECIFICATION Spec
SYMMETRY Interchangeable
INVARIANTS
    TypeOK
    
