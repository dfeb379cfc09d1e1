CONSTANTS
    c1 = c1
    c2 = c2
    b1 = b1
    b2 = b2
    Chunk = {c1, c2}
    MaxY = 1
    Block = {b1, b2}
    AirId = 3
    CallerSurvives = TRUE
    None = None
SPECIFICATION Spec
SYMMETRY Symmetry
INVARIANTS
    TypeOK
    PutCoversSnapshot
    IdsInRange
PROPERTY IdsNeverRebound
