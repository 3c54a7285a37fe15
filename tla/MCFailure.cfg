SPECIFICATION Spec
CONSTANTS
    Char <- MCChar
    Sep <- MCSep
    Lexeme <- MCLexeme
    Discard <- MCDiscard
    Always <- MCDiscard
    Words <- GreedyWords
    GState <- MCState
    GInit <- MCInit
    GFinal <- MCFinal
    GNext <- MCNext
    Before = {"K"}
    After = {}
    OnDiscard = {}
    Inputs <- UnrulyInputs
    Ranges <- WholeText
    Extensions = {}
    Calls = {"error", "ateof"}
    MaxCalls = 0
PROPERTIES
    FailureAborts
