SPECIFICATION Spec
CONSTANTS
    Char <- MCChar
    Sep <- MCSep
    Lexeme <- MCLexeme
    Discard <- MCDiscard
    Always <- UnrulyAlways
    Words <- GreedyWords
    GState <- MCState
    GInit <- MCInit
    GFinal <- MCFinal
    GNext <- MCNext
    Before = {"K"}
    After = {"L"}
    OnDiscard = {"W"}
    Inputs <- UnrulyInputs
    Ranges <- EventRanges
    Extensions <- UnrulyExtensions
    Calls <- Kinds
    MaxCalls = 2
INVARIANTS
    AtMostOneResult
PROPERTIES
    Terminates
CHECK_DEADLOCK FALSE
