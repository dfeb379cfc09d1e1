CONSTANTS
    c1 = c1
    c2 = c2
    ann = ann
    bob = bob
    p1 = p1
    Parts = {"listener", "login", "requests", "transfer"}
    Conn = {c1, c2}
    PipeRoom = 1
    MaxCasts = 2
    MaxTime = 1
    None = None
    Client = {c1, c2}
    Player = {ann, bob}
    Owners <- TwoOrOne
    Genuine = {c1}
    Registered = {ann, bob}
    MaxPushes = 1
    NoOne = NoOne
    PlayerKey = {position, items}
    WorldKey = {worldId}
    Threads = 2
    MaxCalls = 4
    Getter = {c1, c2}
    Pos = {p1}
    Slices <- OneSlice
    Serializers = 5
    Workers = 2
    MaxGets <- Gets
SPECIFICATION SessionsSpec
CHECK_DEADLOCK FALSE
INVARIANTS ListenerInv  RequestsInv TransferInv
PROPERTY SessionsSettle
