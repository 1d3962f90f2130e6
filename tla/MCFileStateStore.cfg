SPECIFICATION Spec
CONSTANTS
    k1 = k1
    k2 = k2
    s1 = s1
    s2 = s2
    Keys <- MCKeys
    States <- MCStates
    NoState = NoState
    NoFile = NoFile
    Torn = Torn
    NoCall = NoCall
    MaxWrites = 2
INVARIANTS
    TypeOK
    FileNeverTorn
    ResolvedSetSavesAll
PROPERTIES
    OnlyUnreadStateIsLost
    ImplementsSnapshotStore
