CONSTANTS
    c1 = c1
    c2 = c2
    c3 = c3
    Pos = {c1, c2}
    Chunk = {c1, c2}
    worldPos <- PosOfChunk
    Edit = {e1}
    Editor = {t1}
    Forcer = {f1}
    None = None
    kDirtyThreshold = 2
    kMaxWriteRequestAge = 2
    kMaxWriteChunksPerFrame = 1
    MaxQueued = 1
SPECIFICATION Spec
INVARIANTS TypeOK NoLostEdit DirtyAgeBounded
