CONSTANTS
    BuiltinTypes <- MCBuiltinTypes
    BuiltinConstraints <- MCBuiltinConstraints
    TypeDecls <- MCTypeDecls
    Bodies <- MCBodies
    Graphs <- MCGraphs
    Structs <- MCStructs
SPECIFICATION MCSpec
PROPERTIES NamesAreLexical PathsAreAccounted CyclesAreFound
CHECK_DEADLOCK FALSE
