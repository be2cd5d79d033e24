SPECIFICATION MCSpec
CONSTANTS
    Names = {a, b, c}
    Schemas <- MCSchemas
    Ints <- WideInts
    Texts = {0}
    Wheres <- MCWheres
    IndexNames = {i, j}
    NPages = 4
    MaxTables = 2
    MaxIndexes = 2
    IndexRows = 8
    RowLimit = 4
    IntRange = 256
    PageSize = 5
    HeaderSize = 1
    SlotSize = 1
    IntSize = 1
    StrSize = 2
INVARIANTS
    PlansAgree
SYMMETRY NameSymmetry
