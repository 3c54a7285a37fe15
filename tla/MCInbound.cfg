SPECIFICATION Spec
CONSTANTS
    Texts <- MCTexts
    Extensions <- MCExtensions
    Uses = {}
    MaxCalls = 2
INVARIANTS
    CursorsAgree
    IndexExact
    LengthExact
    ResumesAtTarget
