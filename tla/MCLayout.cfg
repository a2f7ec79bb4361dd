CONSTANTS
    Names = {a, b, c}
    Lengths = {3, 4095}
    Elements = {"value"}
    Extending = FALSE
    MaxTypes = 7
    MaxSize = 32767
SPECIFICATION LayoutSpec
CHECK_DEADLOCK FALSE
INVARIANTS OffsetsAgree TypesAgree
