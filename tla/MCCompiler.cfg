SPECIFICATION Spec
CONSTANTS
  Word = 6
  Narrow = 3
  MaxDepth = 1000
  ComptimeFuel = 20
  ImmBits = 4
  MaxClone = 10
  RunFuel = 200
  Rounds0 = 20
  StepBound = 2000
  NumAlloc = 2
  MaxPos = 600
  Suites <- MCSuites
  Junk <- MCJunk
  VReg <- MCVReg
INVARIANTS MeansSource EndsWell AgreesWithInterpreter AcceptedIsCompiled CallsNameFunctions CallerKept CallsAligned
PROPERTIES WritesOwnFrameOnly BackendSpec
