CONSTANTS
    a = a
    b = b
    s1 = s1
    s2 = s2
    Client = {a, b}
    Slice = {s1, s2}
    Editors <- OneEach
    MaxEdits = 1
    MaxGets = 2
    None = None
SPECIFICATION Spec
CHECK_DEADLOCK FALSE
INVARIANTS
    TypeOK
    LoadedIsWhole
    EditsAreSeen
