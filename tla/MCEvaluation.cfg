SPECIFICATION Spec
CONSTANTS
    Grammars <- MCGrammars
    NoSep = NoSep
    Lexemes = {0, 1}
    Dict <- MCDict
    SvIds <- MCSvIds
    Modes = {"parser", "lexer"}
    Parsed <- MCParsed
    Programs <- MCPrograms
    L0Semantics <- MCL0
    Names = {0}
    MaxTokens = 2
    MaxFound = 2
    MaxStore = 5
    MaxInputs <- MCInputs
INVARIANTS
    RulesAsWritten
    RuleFound
    SvRefsExact
    ValuesRight
    Paired
CHECK_DEADLOCK FALSE
