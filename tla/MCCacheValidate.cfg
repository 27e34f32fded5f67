\* Two threads validate, write and delete while values expire.
SPECIFICATION Spec
CONSTANTS
    k1 = k1  k2 = k2  k3 = k3  v1 = v1  v2 = v2  v3 = v3  sumA = sumA  sumB = sumB
    None = None  NoSum = NoSum  Idle = Idle  t1 = t1  t2 = t2
    Keys = {k1, k2}
    Values = {v1, v2}
    Wrapped = {v1, v2}
    Checksum <- OneChecksumEach
    Sizes = {1}
    LruCap = 1
    MaxMemory = 2
    ShortTTL = 0  LongTTL = 1  ColdAge = 0  OldAge = 1
    HotCount = 1
    Threads = {t1, t2}
    MaxStat = 0
SYMMETRY KeySymmetry
INVARIANTS
    ReadsLastAccepted
PROPERTIES
    ImplementsLossyMap
