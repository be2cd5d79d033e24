SPECIFICATION Spec
CONSTANTS
    key = key
    demo = demo
    other = other
    old = old
    script = script
    new = new
    NUL = NUL
    Slots = {0, 1, 2}
    PoolSize = 12
    TextMax = 4
    Names <- MCNames
    Factory <- MCFactory
    Texts <- MCTexts
    Heads <- MCHeads
INVARIANTS
    FilesKept
