CONSTANTS
    p1 = p1
    p2 = p2
    p3 = p3
    stone = stone
    glass = glass
    torch = torch
    Parts = {"movement", "interactions", "persistence", "chatting", "torches"}
    Place = {0, 1, 2}
    Spawn = 1
    Threshold = 1
    Session = {1, 2}
    EpochMod = 4
    EpochDiff = 2
    MaxUpdates = 4
    MaxQueue = 2
    Unset = Unset
    Pos = {p1, p2, p3}
    Beside <- InARow
    Slots = {1, 2}
    MaxPerSlot = 2
    Kind = {stone, glass, torch}
    DestroyTicks <- Ticks
    Collectable = {stone, torch}
    MaxPlaced = 2
    MaxDeferred = 2
    Air = Air
    Wrapped = Wrapped
    StartWorld <- Blocks
    StartSlots <- Items
    MaxChanges = 2
    MaxTime = 7
    SaveDelay = 2
    Nothing = Nothing
    Person = {ann, bob}
    MaxMessages = 2
    MaxPending = 1
    Nobody = Nobody
    Top = 2
    Setter = {"main", "net"}
    Room = 1
    MaxSets = 3
    MaxLoads = 3
    MaxMet = 1
SPECIFICATION PlaySpec
CHECK_DEADLOCK FALSE
INVARIANTS MovementInv InteractionsInv   TorchesInv
PROPERTY SavedNeverOlder
