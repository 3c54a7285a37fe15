SPECIFICATION Spec
CONSTANTS
    Names <- MCNames
    Commands <- MCCommands
    Sizes = {3}
    Lengths = {0, 1}
    Uses = {"behind"}
    MaxSize = 6
    MaxCalls = 3
INVARIANT StopIsNext
CHECK_DEADLOCK FALSE
