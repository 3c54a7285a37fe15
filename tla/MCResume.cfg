SPECIFICATION Spec
CONSTANTS
    Texts <- WideTexts
    Extensions <- MCExtensions
    Uses = {"wide"}
    MaxCalls = 2
INVARIANTS
    ResumesAtTarget
CHECK_DEADLOCK FALSE
