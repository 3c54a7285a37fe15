SPECIFICATION Spec
CONSTANTS
    Cap <- MCCap
    MaxSym = 65535
    DenseJunk <- MCDenseJunk
    SparseJunk <- MCSparseJunk
    MaxBatch = 2
INVARIANTS
    TypeOK
    ContainsIsExact
    RoomForNewcomer
PROPERTIES
    ImplementsOrderedSet
