SPECIFICATION Spec
CONSTANTS
    Char <- MCChar
    Sep <- MCSep
    Lexeme <- MCLexeme
    Discard <- MCDiscard
    Always <- MCDiscard
    Words <- MCWords
    GState <- MCState
    GInit <- MCInit
    GFinal <- MCFinal
    GNext <- MCNext
    Before = {}
    After = {}
    OnDiscard = {"W"}
    Inputs <- UnrulyInputs
    Ranges <- WholeText
    Extensions = {}
    Calls = {"from", "ateof"}
    MaxCalls = 1
INVARIANTS
    EofOnlyAtEnd
