SPECIFICATION Spec
CONSTANTS
  CountBits = 16
  Modules <- MCModules
  NameLen <- MCNameLen
INVARIANTS FunctionsApart FunctionsAreNamed LinksLikeJit
CHECK_DEADLOCK FALSE
