SPECIFICATION Spec
CONSTANTS
  Word = 6
  Narrow = 3
  Graphs <- MCGraphs
INVARIANTS StackIsPath VerifiedIsSound ExactVerdict
PROPERTIES Ends
CHECK_DEADLOCK FALSE
