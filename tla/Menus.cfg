CONSTANTS
    w1 = w1
    w2 = w2
    w3 = w3
    s1 = s1
    Parts = {"joining", "worlds", "screens"}
    Host = {h1, h2}
    MaxKeys = 2
    MaxConnects = 2
    Nobody = Nobody
    World = {w1, w2, w3}
    NoWorld = NoWorld
    MaxRecents = 2
    Second = 2
    MaxEvents = 7
    Visits = 2
    MaxInputs = 3
    LeaveAt = 4
    QuitFrames = 2
    Width = 8
    Sizes = {s1, s2}
    NoPicture = NoPicture
    Poke = Poke
    Waiting = Waiting
    Ended = Ended
SPECIFICATION MenusSpec
CHECK_DEADLOCK FALSE
INVARIANTS JoiningInv WorldsInv ScreensInv
 
