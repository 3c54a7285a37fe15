SPECIFICATION Spec
CONSTANTS
    Grammars <- MCParsedOnly
    NoSep = NoSep
    Lexemes = {0, 1}
    Dict <- MCDictCase
    SvIds <- MCSvIds
    Modes = {"parser", "lexer"}
    Parsed <- MCParsed
    Programs <- MCPrograms
    L0Semantics <- MCL0
    Names = {0}
    MaxTokens = 2
    MaxFound = 2
    MaxStore = 5
    MaxInputs <- MCInputs
INVARIANT KnownLexeme
CHECK_DEADLOCK FALSE
