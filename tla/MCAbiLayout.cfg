SPECIFICATION FairSpec
CONSTANTS
    StructChoices <- MCStructChoices
    NumStructs <- MCNumStructs
    CPrimitives <- c_primitives
    TypeAliases <- MCAliases
    ArrayTypes <- array_types
    InlineArrays <- MCInlineArrays
    Pointers <- MCPointers
    RecursionLimit = 4
    None = None
INVARIANTS TablesLoad FieldsDisjoint FieldsAligned LayoutsCoherent
PROPERTIES LoadEnds
CHECK_DEADLOCK FALSE
