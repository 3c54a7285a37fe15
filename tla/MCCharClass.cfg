SPECIFICATION Spec
CONSTANTS
    UniMax <- MCUniMax
    Lists <- MCLists
    Ops = {"norm", "negate", "negate-smp", "unfold", "asbr", "assr"}
    Flags = {{}, {"mutf"}, {"cesu"}, {"mutf", "cesu"}}
    FoldClasses <- MCFoldClasses
    FoldMax = 3
    Rounds = 2
    MaxPoints = 400
    Probes <- MCProbes
    Words <- MCWords
INVARIANTS
    TypeOK
    SamePoints
    CanonIsTruth
    NegateExact
    UnfoldExact
    LanguageExact
    Unambiguous
    SurrogatesAgree
CHECK_DEADLOCK FALSE
