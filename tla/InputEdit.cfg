SPECIFICATION Spec
CONSTANTS
    a = a
    b = b
    Chars <- MCChars
    NewLine = NewLine
    Backspace = Backspace
    NUL = NUL
    RingSize = 3
    MaxKeys = 5
SYMMETRY CharSymmetry
INVARIANTS
    CommandIsShown
CHECK_DEADLOCK FALSE
