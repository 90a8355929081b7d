CONSTANTS
    A = A
    B = B
    MaxIndex = 2
    Delay = 2
    React = 1
    Watchers <- OnlyOpener
SPECIFICATION Spec
INVARIANT RestartsOnce
CHECK_DEADLOCK FALSE
