SPECIFICATION Spec
CONSTANTS
    Texts <- ShortTexts
    Extensions <- MCExtensions
    Uses = {"first"}
    MaxCalls = 2
INVARIANTS
    EntryExists
CHECK_DEADLOCK FALSE
