\* Three keys on an LRU of two: a third key overflows it and leaves a ghost.
SPECIFICATION Spec
CONSTANTS
    k1 = k1  k2 = k2  k3 = k3  v1 = v1  v2 = v2  v3 = v3  sumA = sumA  sumB = sumB
    None = None  NoSum = NoSum  Idle = Idle  t1 = t1  t2 = t2
    Keys = {k1, k2, k3}
    Values = {v1}
    Wrapped = {}
    Checksum <- NoChecksum
    Sizes = {1, 2}
    LruCap = 2
    MaxMemory = 4
    ShortTTL = 1  LongTTL = 2  ColdAge = 1  OldAge = 3
    HotCount = 3
    Threads = {}
    MaxStat = 0
SYMMETRY KeySymmetry
INVARIANTS
    TypeOK
    Tracked
    MemoryKept
PROPERTIES
    TTLRespected
