SPECIFICATION Spec
CONSTANT Graphs <- StoringFunctions
INVARIANT StoresNeverPassTheirGuard
