SPECIFICATION Spec
CONSTANTS
    Texts <- ShortTexts
    Extensions <- MCExtensions
    Uses = {"wide"}
    MaxCalls = 2
INVARIANTS
    LengthExact
CHECK_DEADLOCK FALSE
