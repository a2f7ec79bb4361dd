CONSTANTS
    Base = 4
    Capacity = 32768
    Types <- SmallTypes
    Elems <- SmallElems
    Lens = {0, 1, 32752}
    RefLens = {2}
    MaxObjects = 4
SPECIFICATION Spec
CHECK_DEADLOCK FALSE
INVARIANTS Separate BodyIsData Int16sSuffice
PROPERTIES StoreSpec RootIsLast
