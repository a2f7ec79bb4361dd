CONSTANTS
  A = A
  B = B
  C = C
  Services = {A, B, C}
  ProcNames <- MCProcNames
  NameOf <- MCNameOf
  MaxProcs = 3
SPECIFICATION Spec
SYMMETRY Symmetry
CHECK_DEADLOCK FALSE
INVARIANTS NumbersExtend LookupsAgree ClashesRefused
PROPERTY SlotsStay
