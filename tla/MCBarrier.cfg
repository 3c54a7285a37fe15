SPECIFICATION Spec
CONSTANTS
    Names <- MCNames
    Commands <- MCCommands
    Sizes = {3}
    Lengths = {0, 1}
    Uses = {}
    MaxSize = 6
    MaxCalls = 3
INVARIANT CanRestore
CHECK_DEADLOCK FALSE
