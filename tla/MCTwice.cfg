SPECIFICATION Spec
CONSTANTS
    Char <- MCChar
    Sep <- MCSep
    Lexeme <- MCLexeme
    Discard <- MCDiscard
    Always <- MCDiscard
    Words <- MCWords
    GState <- MCState
    GInit <- MCInit
    GFinal <- MCFinal
    GNext <- MCNext
    Before = {}
    After = {"K"}
    OnDiscard = {}
    Inputs <- EventInputs
    Ranges <- WholeText
    Extensions = {}
    Calls = {"alternate", "twice"}
    MaxCalls = 2
INVARIANTS
    SameSize
