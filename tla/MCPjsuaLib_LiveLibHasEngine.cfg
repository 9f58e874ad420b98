CONSTANTS
    Libs = {1, 2}
    MaxPolls = 400
SPECIFICATION Spec
INVARIANT LiveLibHasEngine
CHECK_DEADLOCK FALSE
