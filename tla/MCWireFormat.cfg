SPECIFICATION Spec
CONSTANTS
    Types <- SmallTypes
    Converted <- SmallConverted
    Scalars <- SmallScalars
    Strings <- SmallStrings
    Capacity = 20
    MaxObjects = 3
    MaxLength = 2
INVARIANTS
    ReadBack
    RootAtEnd
