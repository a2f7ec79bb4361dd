CONSTANTS
    Inputs <- Graphs
    Keys = {"a", "b", "c", "x", "y", "z"}
    Namespaces = {"lidl", "std"}
    NoNamespace = NoNamespace
    MaxDeps = 2
SPECIFICATION Spec
CHECK_DEADLOCK FALSE
INVARIANT DependenciesFirst
PROPERTIES OutputSpec PassesSpec Terminates
