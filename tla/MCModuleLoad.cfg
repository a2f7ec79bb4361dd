SPECIFICATION Spec
CHECK_DEADLOCK FALSE
CONSTANTS
    Files <- MCFiles
    Listing <- MCListing
    BasePaths <- MCBasePaths
    Basic <- MCBasic
    Sources <- MCSources
    MainName <- MCMain
INVARIANTS
    TypeOK
    NamesResolve
    ImportsRecorded
PROPERTIES
    OrderSpec
    Terminates
