SPECIFICATION MCSpec
CONSTANTS
    Names = {a}
    Schemas <- MCSchemas
    Ints = {0}
    Texts = {}
    Wheres <- MCWheres
    IndexNames = {i}
    NPages = 1
    MaxTables = 1
    MaxIndexes = 1
    IndexRows = 2
    RowLimit = 3
    IntRange = 256
    PageSize = 5
    HeaderSize = 1
    SlotSize = 1
    IntSize = 1
    StrSize = 1
    Keys = {1, 2}
    Vals = {1}
    KvMax = 2
    DocNames = {1}
    Contents = {1}
    DocMax = 1
    Nothing = Nothing
INVARIANTS
    StoresOK
    DerivedRebuilt
PROPERTIES
    ImplementsDatabase
