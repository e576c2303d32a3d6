CONSTANTS
    MaxModal = 2
    None = None
    Dangling = Dangling

SPECIFICATION Spec
INVARIANT CapturedLives
CHECK_DEADLOCK FALSE
