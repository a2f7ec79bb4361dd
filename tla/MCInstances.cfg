CONSTANTS
  Main = Main
  Child = Child
  Sibling = Sibling
  Other = Other
  Modules = {Main, Child, Sibling, Other}
  Children <- MCChildren
  Generics <- MCGenerics
  Params <- MCParams
  MemberTypes <- MCMemberTypes
  References = {"string", "vector"}
  Names <- MCNames
  MaxUses = 1
SPECIFICATION Spec
CHECK_DEADLOCK FALSE
INVARIANTS RedefinedIfShared UnresolvedIfElsewhere
