SPECIFICATION Spec
CONSTANTS
    a = a
    b = b
    Chars <- MCChars
    NewLine = NewLine
    Backspace = Backspace
    NUL = NUL
    RingSize = 3
    MaxKeys = 7
SYMMETRY CharSymmetry
INVARIANTS
    LineIsShown
PROPERTIES
    KeysInOrder
CHECK_DEADLOCK FALSE
