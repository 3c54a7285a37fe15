SPECIFICATION Spec
CONSTANTS
    Char <- MCChar
    Sep <- MCSep
    Lexeme <- MCLexeme
    Discard <- MCDiscard
    Always <- MCDiscard
    Words <- JoiningWords
    GState <- MCState
    GInit <- MCInit
    GFinal <- MCFinal
    GNext <- MCNext
    Before = {"L"}
    After = {"K"}
    OnDiscard = {"W"}
    Inputs <- EventInputs
    Ranges <- EventRanges
    Extensions <- EventExtensions
    Calls <- Disciplined
    MaxCalls = 3
INVARIANTS
    TypeOK
    InputPosition
    LexemeIsText
    NothingBroken
    SideBySide
    StaysInRegion
    Verdict
    EofOnlyAtEnd
