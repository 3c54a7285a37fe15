SPECIFICATION Spec
CONSTANTS
    Char <- MCChar
    Sep <- MCSep
    Lexeme <- MCLexeme
    Discard <- MCDiscard
    Always <- UnrulyAlways
    Words <- MCWords
    GState <- MCState
    GInit <- MCInit
    GFinal <- MCFinal
    GNext <- MCNext
    Before = {}
    After = {}
    OnDiscard = {}
    Inputs <- MCInputs
    Ranges <- WholeText
    Extensions = {}
    Calls = {}
    MaxCalls = 0
INVARIANTS
    OnlyDiscardsAfterEnd
