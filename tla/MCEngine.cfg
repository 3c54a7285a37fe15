SPECIFICATION Spec
CONSTANTS
    Char <- MCChar
    Sep <- MCSep
    Lexeme <- MCLexeme
    Discard <- MCDiscard
    Always <- MCDiscard
    Words <- MCWords
    GState <- MCState
    GInit <- MCInit
    GFinal <- MCFinal
    GNext <- MCNext
    Before = {}
    After = {}
    OnDiscard = {}
    Inputs <- MCInputs
    Ranges <- WholeText
    Extensions = {}
    Calls = {}
    MaxCalls = 0
INVARIANTS
    LongestMatch
    LexerFollowsParser
PROPERTIES
    ImplementsScanner
