CONSTANTS
    Libs = {1, 2}
    MaxPolls = 400
SPECIFICATION Spec
PROPERTY NoPollAfterShutdown
CHECK_DEADLOCK FALSE
