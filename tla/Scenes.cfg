CONSTANTS
    o1 = o1
    o2 = o2
    o3 = o3
    q1 = q1
    q2 = q2
    Parts = {"scene", "mesh", "globules", "collisions", "selection"}
    Column = {0, 1, 2, 3}
    View <- Views
    ChunkRange = 1
    CacheDistance = 2
    EagerReset = 1
    PruneReset = 0
    Threads = 2
    MaxMoves = 5
    MaxFailed = 1
    MaxTasks = 2
    Slot = {d1}
    Object = {o1, o2, o3}
    Nothing = Nothing
    At <- Places
    Globules = 2
    Concerned <- Changed
    MaxEvents = 3
    MaxFails = 1
    Chunks = 3
    Side = 2
    Reach = 0
    FarAway = 1
    Release = 1
    MaxSteps = 1
    MaxSets = 1
    MaxLoads = 2
    Rim = 2
    MaxHighlights = 2
    MaxChanges = 2
    Edge = 3
    PerAxis = 2
    Layers = 4
    Width = 8
    Patterns <- Contents
    MaxBlockChanges = 1
SPECIFICATION ScenesSpec
CHECK_DEADLOCK FALSE
INVARIANTS SceneInv  GlobuleInv CollisionsInv SelectionInv
 
