SPECIFICATION Spec
CONSTANTS
    t1 = t1
    t2 = t2
    b1 = b1
    fire = fire
    station = station
    None = None
    Threads <- TwoThreads
    Backends <- OneBackend
    MaxDay = 2
    Shards <- OneShard
    ShardOf <- SameShard
    Signals <- SomeSignals
    FirstCallsRace = FALSE
SYMMETRY Interchangeable
INVARIANTS
    SavedIsKept
    ReadsSeeSaves
