CONSTANTS
    MaxModal = 2
    None = None
    Dangling = Dangling

SPECIFICATION Spec
INVARIANT FocusInTop
INVARIANT StrokeKept
CHECK_DEADLOCK FALSE
