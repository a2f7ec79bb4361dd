SPECIFICATION Spec
CONSTANTS
    Heads <- AllHeads
    Catalogue <- AllElements
    MaxElements = 3
    MaxDamaged = 2
    Pieces <- AllPieces
INVARIANTS ModuleReadBack DamageShows LoadedAlike
CHECK_DEADLOCK FALSE
